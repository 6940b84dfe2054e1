------------------------------ MODULE KvProofs ------------------------------
(***************************************************************************)
(* The file system on RAMCloud, for any files, requests and sizes: it      *)
(* answers each request once, its two tables agree with what was answered  *)
(* as long as requests on a file do not overlap, a directory listing loses *)
(* only the entries at which a reply was full, and what it gives is        *)
(* written whole, for any iovecs.                                          *)
(***************************************************************************)
EXTENDS Kv, FiniteSetTheorems, TLAPS

Kinds == Mutations \cup {"getattr", "read"}
Inodes == [size : Sizes \cup {0}, mode : {"new", "set"}]
(* From the first RPC of an operation on. *)
Sending == {"base", "init", "member", "member_init", "constructed"}
OpStates == [kind : Kinds \cup {None}, file : Files \cup {None}, size : Sizes \cup {None},
             pc : {"none", "start", "write"} \cup Sending,
             err : BOOLEAN, firstDone : BOOLEAN, inode : Inodes \cup {None},
             left : SUBSET {"inode", "data"}]
Rpcs == [req : Requests, table : {"inode", "data"}, write : BOOLEAN,
         st : {"sent", "ok", "failed"}, val : Inodes \cup Sizes \cup {None}]

FileStates == [inode : Inodes \cup {None}, data : Sizes \cup {None}]

KvTypes ==
  /\ handler \in [Requests -> {"queued", "running", "handled", "deferred"}]
  /\ completions \in [Requests -> 0..1]
  /\ op \in [Requests -> OpStates]
  /\ rpc \subseteq Rpcs
  /\ poll \in Requests \cup {None}
  /\ inode \in [Files -> Inodes \cup {None}]
  /\ data \in [Files -> Sizes \cup {None}]
  /\ fs \in [Files -> FileStates]
  /\ early \subseteq Requests /\ mixed \subseteq Files

-----------------------------------------------------------------------------
(* Answers: a request has an operation from its delivery to its answer. *)

OpOK(r) ==
  /\ op[r].pc # "none" <=> handler[r] \in {"running", "deferred"} /\ completions[r] = 0
  /\ handler[r] \in {"queued", "handled"} => completions[r] = 0
  /\ op[r].pc # "none" => /\ op[r].kind \in Kinds /\ op[r].file \in Files
                          /\ op[r].kind = "write" => op[r].size \in Sizes
                          /\ op[r].kind \in {"mknod", "unlink"} => op[r].pc = "start"
  /\ op[r].pc = "write" => op[r].kind = "setattr" /\ op[r].inode # None
  /\ handler[r] = "queued" => r \notin early

RpcsOf(r) == {x \in rpc : x.req = r}

(* RPCs belong to an operation that waits for them. *)
RpcOK(r) ==
  /\ \A x \in RpcsOf(r) :
       /\ op[r].pc \in Sending
       /\ op[r].kind \in {"getattr", "read", "write"}
       /\ x.write <=> op[r].kind = "write" /\ x.table = "data"
       /\ x.table = "inode" => x.val \in Inodes \cup {None}
       /\ x.write => x.val = None
  /\ \A x, y \in RpcsOf(r) : x.table = y.table \/ op[r].kind # "write" => x = y

(* A write has two completions, of which each is done or forgotten once. *)
WriteOK(r) == op[r].kind = "write" =>
  /\ op[r].pc \in {"start", "base", "init"} => ~op[r].firstDone
  /\ op[r].pc = "start" => RpcsOf(r) = {} /\ r \notin early
  /\ op[r].pc \in {"base", "init"} => \A x \in RpcsOf(r) : x.table = "data" /\ r \notin early
  /\ op[r].firstDone \/ r \in early => \A x, y \in RpcsOf(r) : x = y
  /\ op[r].firstDone /\ r \in early => RpcsOf(r) = {}
  /\ /\ op[r].pc \in {"member", "member_init", "constructed"} /\ r \notin early /\ ~op[r].err
     /\ \A x \in RpcsOf(r) : x.table # "inode"
     => op[r].inode # None

(* The poll thread finishes a write once both were done. *)
PollOK(r) == poll = r => /\ op[r].kind = "write" /\ op[r].firstDone /\ r \notin early
                         /\ op[r].pc \in {"member", "member_init", "constructed"} /\ RpcsOf(r) = {}

RequestOK(r) == OpOK(r) /\ RpcOK(r) /\ WriteOK(r) /\ PollOK(r)
AnswersOK == \A r \in Requests : RequestOK(r)

-----------------------------------------------------------------------------
(* Tables: how far the one operation on a file is. *)

Mutates(r, f) == op[r].pc # "none" /\ op[r].file = f /\ op[r].kind \in Mutations

Exact(f) == inode[f] = fs[f].inode /\ data[f] = fs[f].data

UnlinkOK(r, f) == ~op[r].err =>
  /\ inode[f] = IF "inode" \in op[r].left THEN fs[f].inode ELSE None
  /\ data[f] = IF "data" \in op[r].left THEN fs[f].data ELSE None

(* The data is what was there before the RPC of the write was applied, the inode is up to finish(). *)
WritesOK(r, f) ==
  /\ inode[f] = fs[f].inode
  /\ op[r].pc = "start" => data[f] = fs[f].data
  /\ \A x \in RpcsOf(r) :
       /\ x.table = "data" => data[f] = IF x.st = "ok" THEN op[r].size ELSE fs[f].data
       /\ x.table = "inode" /\ x.st = "ok" => x.val = fs[f].inode
  /\ op[r].pc \in Sending /\ r \notin early /\ ~op[r].err =>
       /\ (\A x \in RpcsOf(r) : x.table # "data") => data[f] = op[r].size
       /\ op[r].pc \notin {"base", "init"} /\ (\A x \in RpcsOf(r) : x.table # "inode") =>
            op[r].inode = fs[f].inode /\ fs[f].inode # None

Progress(r, f) ==
  /\ op[r].kind = "mknod" => Exact(f)
  /\ op[r].kind = "setattr" => Exact(f) /\ (op[r].pc = "write" => op[r].inode = inode[f] /\ inode[f] # None)
  /\ op[r].kind = "unlink" => UnlinkOK(r, f)
  /\ op[r].kind = "write" => WritesOK(r, f)

FileOK(f) == f \notin mixed =>
  /\ \A q, r \in Requests : Mutates(q, f) /\ Mutates(r, f) => q = r
  /\ (\A r \in Requests : ~Mutates(r, f)) => Exact(f)
  /\ \A r \in Requests : Mutates(r, f) => Progress(r, f)

FilesOK == \A f \in Files : FileOK(f)

-----------------------------------------------------------------------------
(* Directories. *)

Entries == [file : Files, off : Nat, len : Nat, at : Nat]

DirRecords ==
  [pc : {"closed", "open", "reading", "copying", "full", "end"}, todo : Seq(Files), plus : BOOLEAN,
   off : Nat, from : Nat, listed : Seq(Entries), cut : SUBSET Files, passed : SUBSET Files]

ListedOK(listed, passed, cut) ==
  /\ \A i \in 1..Len(listed) : listed[i].off = i
  /\ \A i, j \in 1..Len(listed) : listed[i].file = listed[j].file => i = j
  /\ passed = {listed[i].file : i \in 1..Len(listed)} \cup cut

(* What the enumerator has still to give was not given. *)
TodoOK(todo, passed) ==
  /\ \A i \in 1..Len(todo) : todo[i] \notin passed
  /\ \A i, j \in 1..Len(todo) : todo[i] = todo[j] => i = j

ListingOK ==
  /\ dir \in DirRecords
  /\ ListedOK(dir.listed, dir.passed, dir.cut)
  /\ TodoOK(dir.todo, dir.passed)
  /\ dir.pc \in {"reading", "copying"} => dir.off = Len(dir.listed) + 1
  /\ dir.pc = "copying" => /\ copy.ent.off = dir.off
                           /\ TodoOK(dir.todo, dir.passed \cup {copy.ent.file})
                           /\ copy.ent.file \notin dir.passed

(* Where the next unit goes in the reply. *)
Pos(v) == Before(v.ends, v.idx) + v.at

Ascending(ends) == \A i, j \in 1..Len(ends) : i <= j => ends[i] <= ends[j]

IsIov(v) ==
  /\ v = [ends |-> v.ends, idx |-> v.idx, at |-> v.at, total |-> v.total, unused |-> v.unused,
          mem |-> v.mem]
  /\ v.ends \in Seq(Nat) /\ Ascending(v.ends)
  /\ v.total = Before(v.ends, Len(v.ends) + 1)
  /\ v.unused \in Nat /\ v.unused <= v.total
  /\ v.idx \in 1..(Len(v.ends) + 1) /\ v.at \in Nat
  /\ v.at = 0 \/ (v.idx <= Len(v.ends) /\ Pos(v) < Before(v.ends, v.idx + 1))
  /\ DOMAIN v.mem = 1..v.total

(* The entry x was written to its place, if that place lies in one iovec. *)
Intact(v, x) == InOneIovec(v, x.at, x.len) => Holds(v, x.at, x.file, x.len)

EntriesIntact(v, listed, from) ==
  \A i \in (from + 1)..Len(listed) : /\ listed[i].at + listed[i].len <= Written(v)
                                     /\ Intact(v, listed[i])

(* An entry that is being copied starts where the reply ends, and has as much room as it needs; if *)
(* it lies in one iovec, it is copied in one round.                                                *)
CopyOK(v, c) ==
  /\ c \in [ent : Entries, rem : Nat]
  /\ c.ent.at = Written(v) /\ c.ent.len <= v.unused /\ c.rem <= c.ent.len
  /\ Pos(v) = c.ent.at + c.ent.len - c.rem
  /\ InOneIovec(v, c.ent.at, c.ent.len) => \/ c.rem = c.ent.len
                                           \/ c.rem = 0 /\ Intact(v, c.ent)

ReplyOK == /\ IsIov(iov) /\ EntriesIntact(iov, dir.listed, dir.from)
           /\ IF dir.pc = "copying" THEN CopyOK(iov, copy)
                                    ELSE copy = NoCopy /\ Pos(iov) = Written(iov)

DirOK == ListingOK /\ ReplyOK

KvIInv == KvTypes /\ AnswersOK /\ FilesOK /\ DirOK

-----------------------------------------------------------------------------
(* The iovecs come one after the other. *)
LEMMA BeforeAscends ==
  ASSUME NEW E \in Seq(Nat), Ascending(E)
  PROVE  /\ \A i \in 1..(Len(E) + 1) : Before(E, i) \in Nat
         /\ \A i, j \in 1..(Len(E) + 1) : i <= j => Before(E, i) <= Before(E, j)
<1>1. Len(E) \in Nat /\ \A i \in 1..Len(E) : E[i] \in Nat
  OBVIOUS
<1>2. \A i \in 1..(Len(E) + 1) : i # 1 => i - 1 \in 1..Len(E)
  BY <1>1
<1>3. \A i \in 1..(Len(E) + 1) : Before(E, i) \in Nat
  BY <1>1, <1>2 DEF Before
<1>4. ASSUME NEW i \in 1..(Len(E) + 1), NEW j \in 1..(Len(E) + 1), i <= j
      PROVE  Before(E, i) <= Before(E, j)
  <2>1. CASE i = 1
    BY <1>3, <2>1 DEF Before
  <2>2. CASE i # 1
    <3>1. j # 1 /\ i - 1 \in 1..Len(E) /\ j - 1 \in 1..Len(E) /\ i - 1 <= j - 1
      BY <1>1, <1>4, <2>2
    <3>2. E[i - 1] <= E[j - 1]
      BY <3>1 DEF Ascending
    <3>. QED
      BY <2>2, <3>1, <3>2 DEF Before
  <2>. QED
    BY <2>1, <2>2
<1>. QED
  BY <1>3, <1>4

LEMMA IovStarts ==
  ASSUME NEW E \in Seq(Nat), Ascending(E)
  PROVE  IsIov(iov_init(E)) /\ Pos(iov_init(E)) = 0 /\ Written(iov_init(E)) = 0
<1>1. PICK n \in Nat : n = Before(E, Len(E) + 1)
  <2>1. Len(E) + 1 \in 1..(Len(E) + 1)
    OBVIOUS
  <2>. QED
    BY <2>1, BeforeAscends
<1>2. PICK m : m = [u \in 1..n |-> <<>>]
  OBVIOUS
<1>3. iov_init(E) = [ends |-> E, idx |-> 1, at |-> 0, total |-> n, unused |-> n, mem |-> m]
  BY <1>1, <1>2 DEF iov_init
<1>4. DOMAIN m = 1..n /\ 1 \in 1..(Len(E) + 1) /\ n <= n /\ n - n = 0
  BY <1>2
<1>. QED
  BY <1>1, <1>3, <1>4 DEF IsIov, Pos, Written, Before

LEMMA IovNumbers ==
  ASSUME NEW v, IsIov(v)
  PROVE  /\ Len(v.ends) \in Nat /\ v.total \in Nat /\ v.unused \in Nat /\ v.unused <= v.total
         /\ Written(v) \in Nat
<1>1. /\ v.ends \in Seq(Nat) /\ Ascending(v.ends) /\ v.total = Before(v.ends, Len(v.ends) + 1)
      /\ v.unused \in Nat /\ v.unused <= v.total
  BY DEF IsIov
<1>2. Len(v.ends) \in Nat
  BY <1>1
<1>3. Len(v.ends) + 1 \in 1..(Len(v.ends) + 1)
  BY <1>2
<1>4. v.total \in Nat
  BY <1>1, <1>3, BeforeAscends
<1>5. v.total - v.unused \in Nat
  BY <1>1, <1>4
<1>. QED
  BY <1>1, <1>2, <1>4, <1>5 DEF Written

(* A closed directory has listed nothing. *)
LEMMA ClosedOK == dir = Closed /\ iov = iov_init(<<>>) /\ copy = NoCopy => DirOK
<1>. SUFFICES ASSUME dir = Closed, iov = iov_init(<<>>), copy = NoCopy PROVE DirOK
  OBVIOUS
<1>1. dir \in DirRecords
  BY DEF DirRecords, Closed
<1>2. dir.listed = <<>> /\ dir.todo = <<>> /\ dir.passed = {} /\ dir.cut = {} /\ dir.pc = "closed" /\ dir.from = 0
  BY DEF Closed
<1>3. ListingOK
  BY <1>1, <1>2 DEF ListingOK, ListedOK, TodoOK
<1>4. IsIov(iov) /\ Pos(iov) = 0 /\ Written(iov) = 0
  <2>1. <<>> \in Seq(Nat) /\ Ascending(<<>>)
    BY DEF Ascending
  <2>. QED
    BY <2>1, IovStarts
<1>5. EntriesIntact(iov, dir.listed, dir.from)
  BY <1>2 DEF EntriesIntact
<1>. QED
  BY <1>2, <1>3, <1>4, <1>5 DEF DirOK, ReplyOK

LEMMA InitHolds == ASSUME Init PROVE KvIInv
<1>1. NewInode \in Inodes /\ \A s \in Sizes : [size |-> s, mode |-> "new"] \in Inodes
  BY DEF NewInode, Inodes
<1>2. FirstFiles \subseteq FileStates
  BY <1>1 DEF FirstFiles, FileStates
<1>3. NoOp \in OpStates /\ NoOp.pc = "none" /\ NoOp.kind = None
  BY DEF NoOp, OpStates
<1>4. fs \in [Files -> FileStates]
  BY <1>2 DEF Init
<1>5. KvTypes
  BY <1>3, <1>4 DEF Init, KvTypes, FileStates
<1>6. AnswersOK
  <2>. SUFFICES ASSUME NEW r \in Requests PROVE RequestOK(r)
    BY DEF AnswersOK
  <2>1. op[r] = NoOp /\ handler[r] = "queued" /\ completions[r] = 0 /\ RpcsOf(r) = {} /\ early = {} /\ poll # r
    BY KvAssumption DEF Init, RpcsOf
  <2>2. NoOp.firstDone = FALSE /\ NoOp.size = None
    BY DEF NoOp
  <2>. QED
    BY <1>3, <2>1, <2>2 DEF RequestOK, OpOK, RpcOK, WriteOK, PollOK
<1>7. FilesOK
  BY <1>3 DEF Init, FilesOK, FileOK, Mutates, Exact
<1>8. DirOK
  BY ClosedOK DEF Init
<1>. QED
  BY <1>5, <1>6, <1>7, <1>8 DEF KvIInv

-----------------------------------------------------------------------------
(* What a step does not concern stays as it is. *)

Apart(q) == /\ op'[q] = op[q] /\ RpcsOf(q)' = RpcsOf(q)
            /\ (q \in early' <=> q \in early) /\ (poll' = q <=> poll = q)

LEMMA QuietRequest ==
  ASSUME NEW q \in Requests, Apart(q), RequestOK(q),
         handler'[q] = handler[q], completions'[q] = completions[q]
  PROVE  RequestOK(q)'
<1>1. OpOK(q)'
  BY DEF RequestOK, Apart, OpOK
<1>2. RpcOK(q)'
  BY DEF RequestOK, Apart, RpcOK
<1>3. WriteOK(q)' /\ PollOK(q)'
  BY DEF RequestOK, Apart, WriteOK, PollOK
<1>. QED
  BY <1>1, <1>2, <1>3 DEF RequestOK

SameFile(f) == inode'[f] = inode[f] /\ data'[f] = data[f] /\ fs'[f] = fs[f]

LEMMA QuietProgress ==
  ASSUME NEW q \in Requests, NEW f \in Files, Apart(q), SameFile(f), Progress(q, f)
  PROVE  Progress(q, f)'
<1>1. WritesOK(q, f) => WritesOK(q, f)'
  BY DEF Apart, SameFile, WritesOK
<1>2. (Exact(f) => Exact(f)') /\ (UnlinkOK(q, f) => UnlinkOK(q, f)')
  BY DEF Apart, SameFile, UnlinkOK, Exact
<1>. QED
  BY <1>1, <1>2 DEF Progress, Apart, SameFile

LEMMA QuietFile ==
  ASSUME NEW f \in Files, FileOK(f), SameFile(f), f \in mixed => f \in mixed',
         \A q \in Requests : Apart(q) \/ (~Mutates(q, f) /\ ~Mutates(q, f)')
  PROVE  FileOK(f)'
<1>1. \A q \in Requests : Mutates(q, f)' <=> Mutates(q, f)
  BY DEF Apart, Mutates
<1>2. Exact(f) => Exact(f)'
  BY DEF SameFile, Exact
<1>3. ASSUME NEW q \in Requests, Mutates(q, f)', f \notin mixed' PROVE Progress(q, f)'
  BY <1>1, <1>3, QuietProgress DEF FileOK
<1>. QED
  BY <1>1, <1>2, <1>3 DEF FileOK

(* A step of request r, whose operation is on file f. *)
Concerns(r, f) ==
  /\ op[r].pc # "none" /\ op[r].file = f
  /\ op'[r].pc = "none" \/ (op'[r].file = f /\ op'[r].kind = op[r].kind)
  /\ \A q \in Requests : q # r => /\ Apart(q) /\ handler'[q] = handler[q]
                                   /\ completions'[q] = completions[q]
  /\ \A g \in Files : g # f => SameFile(g)
  /\ mixed \subseteq mixed' /\ UNCHANGED dirVars

(* The file after a step of r, if r is the one that changes it. *)
Serves(r, f) ==
  IF op[r].kind \in Mutations
    THEN f \notin mixed' => IF op'[r].pc = "none" THEN Exact(f)' ELSE Progress(r, f)'
    ELSE SameFile(f)

LEMMA QuietDir == ASSUME DirOK, UNCHANGED dirVars PROVE DirOK'
<1>1. dir' = dir /\ iov' = iov /\ copy' = copy
  BY DEF dirVars
<1>2. ListingOK'
  BY <1>1 DEF DirOK, ListingOK
<1>3. ReplyOK'
  BY <1>1 DEF DirOK, ReplyOK, CopyOK
<1>. QED
  BY <1>2, <1>3 DEF DirOK

LEMMA RequestStep ==
  ASSUME KvIInv, NEW r \in Requests, NEW f \in Files, Concerns(r, f), KvTypes', RequestOK(r)', Serves(r, f)
  PROVE  KvIInv'
<1>1. AnswersOK'
  BY QuietRequest DEF KvIInv, AnswersOK, Concerns
<1>2. ASSUME NEW g \in Files, g # f PROVE FileOK(g)'
  <2>1. ~Mutates(r, g) /\ ~Mutates(r, g)'
    BY <1>2 DEF Mutates, Concerns
  <2>2. \A q \in Requests : Apart(q) \/ (~Mutates(q, g) /\ ~Mutates(q, g)')
    BY <2>1 DEF Concerns
  <2>. QED
    BY <1>2, <2>2, QuietFile DEF KvIInv, FilesOK, Concerns
<1>3. FileOK(f)'
  <2>1. CASE op[r].kind \notin Mutations
    <3>1. ~Mutates(r, f) /\ ~Mutates(r, f)' /\ SameFile(f)
      BY <2>1 DEF Mutates, Concerns, Serves
    <3>2. \A q \in Requests : Apart(q) \/ (~Mutates(q, f) /\ ~Mutates(q, f)')
      BY <3>1 DEF Concerns
    <3>. QED
      BY <3>1, <3>2, QuietFile DEF KvIInv, FilesOK, Concerns
  <2>2. CASE op[r].kind \in Mutations
    <3>. SUFFICES ASSUME f \notin mixed' PROVE FileOK(f)'
      BY DEF FileOK
    <3>1. f \notin mixed /\ Mutates(r, f) /\ FileOK(f)
      BY <2>2 DEF Concerns, Mutates, KvIInv, FilesOK
    <3>2. \A q \in Requests : q # r => ~Mutates(q, f)
      BY <3>1 DEF FileOK
    <3>3. \A q \in Requests : q # r => ~Mutates(q, f)'
      BY <3>2 DEF Concerns, Apart, Mutates
    <3>4. IF op'[r].pc = "none" THEN Exact(f)' ELSE Progress(r, f)'
      BY <2>2 DEF Serves
    <3>5. op'[r].pc = "none" <=> ~Mutates(r, f)'
      BY <2>2 DEF Mutates, Concerns
    <3>. QED
      BY <3>3, <3>4, <3>5 DEF FileOK
  <2>. QED
    BY <2>1, <2>2
<1>4. DirOK'
  BY QuietDir DEF KvIInv, Concerns
<1>. QED
  BY <1>1, <1>2, <1>3, <1>4 DEF KvIInv, FilesOK

-----------------------------------------------------------------------------
(* Answers. *)

LEMMA EffectType ==
  ASSUME NEW o \in OpStates, NEW file \in FileStates, o.kind = "write" => o.size \in Sizes
  PROVE  /\ Effect(o, file) \in FileStates
         /\ o.kind \notin Mutations => Effect(o, file) = file
<1>1. NewInode \in Inodes
  BY DEF NewInode, Inodes
<1>2. CASE o.kind = "mknod"
  BY <1>1, <1>2 DEF Effect, FileStates, Mutations
<1>3. CASE o.kind = "unlink"
  BY <1>3 DEF Effect, FileStates, Mutations
<1>4. CASE o.kind = "setattr" /\ file.inode # None
  <2>1. file.inode \in Inodes /\ o.size \in Sizes \cup {None}
    BY <1>4 DEF FileStates, OpStates
  <2>2. [file.inode EXCEPT !.mode = "set"] \in Inodes
    BY <2>1 DEF Inodes
  <2>3. o.size # None => [file.inode EXCEPT !.size = o.size] \in Inodes
    BY <2>1 DEF Inodes
  <2>4. Effect(o, file) = [file EXCEPT !.inode = IF o.size = None THEN [@ EXCEPT !.mode = "set"]
                                                 ELSE [@ EXCEPT !.size = o.size]]
    BY <1>4 DEF Effect
  <2>. QED
    BY <1>4, <2>2, <2>3, <2>4 DEF FileStates, Mutations
<1>5. CASE o.kind = "write" /\ file.inode # None
  <2>1. file.inode \in Inodes /\ o.size \in Sizes
    BY <1>5 DEF FileStates
  <2>2. [file.inode EXCEPT !.size = o.size] \in Inodes
    BY <2>1 DEF Inodes
  <2>. QED
    BY <1>5, <2>1, <2>2 DEF Effect, FileStates, Mutations
<1>6. CASE ~(o.kind = "mknod") /\ ~(o.kind = "unlink") /\ ~(o.kind = "setattr" /\ file.inode # None)
           /\ ~(o.kind = "write" /\ file.inode # None)
  BY <1>6 DEF Effect
<1>. QED
  BY <1>2, <1>3, <1>4, <1>5, <1>6

(* Request r, on file f, is answered. *)
Ends(r, f, err) ==
  /\ op[r].pc # "none" /\ op[r].file = f /\ op' = [op EXCEPT ![r] = NoOp]
  /\ Account(r, err) \/ UNCHANGED <<fs, mixed>>
  /\ \/ /\ handler[r] = "running" /\ handler' = [handler EXCEPT ![r] = "handled"]
        /\ UNCHANGED completions
     \/ completions' = [completions EXCEPT ![r] = @ + 1] /\ UNCHANGED handler
  /\ rpc' \subseteq rpc /\ RpcsOf(r)' = {} /\ \A q \in Requests : q # r => RpcsOf(q)' = RpcsOf(q)
  /\ early' = early /\ UNCHANGED dirVars
  /\ poll' \in {poll, None} /\ poll' # r /\ \A q \in Requests : q # r => (poll' = q <=> poll = q)
  /\ inode' \in [Files -> Inodes \cup {None}] /\ data' \in [Files -> Sizes \cup {None}]
  /\ \A g \in Files : g # f => inode'[g] = inode[g] /\ data'[g] = data[g]

(* Its file is as the bookkeeping has it, or is given up. *)
Settles(r, f) ==
  /\ op[r].kind \in Mutations /\ f \notin mixed' => Exact(f)'
  /\ op[r].kind \notin Mutations => inode'[f] = inode[f] /\ data'[f] = data[f]

LEMMA AnswerStep ==
  ASSUME KvIInv, NEW r \in Requests, NEW f \in Files, NEW err \in BOOLEAN, Ends(r, f, err), Settles(r, f)
  PROVE  KvIInv'
<1>1. op[r] \in OpStates /\ op \in [Requests -> OpStates] /\ fs \in [Files -> FileStates]
  BY DEF KvIInv, KvTypes
<1>2. NoOp \in OpStates /\ NoOp.pc = "none" /\ NoOp.firstDone = FALSE
  BY DEF NoOp, OpStates
<1>3. op' \in [Requests -> OpStates] /\ op'[r] = NoOp /\ \A q \in Requests : q # r => op'[q] = op[q]
  BY <1>1, <1>2 DEF Ends
<1>4. handler[r] \in {"running", "deferred"} /\ completions[r] = 0
  BY DEF Ends, KvIInv, AnswersOK, RequestOK, OpOK
<1>5. /\ handler' \in [Requests -> {"queued", "running", "handled", "deferred"}]
      /\ completions' \in [Requests -> 0..1]
      /\ \A q \in Requests : q # r => handler'[q] = handler[q] /\ completions'[q] = completions[q]
      /\ \/ handler'[r] = "handled" /\ completions'[r] = 0
         \/ handler'[r] = handler[r] /\ completions'[r] = 1
  BY <1>4 DEF Ends, KvIInv, KvTypes
<1>6. PICK v \in FileStates : v = Effect(op[r], fs[f]) /\ (op[r].kind \notin Mutations => v = fs[f])
  <2>1. op[r].kind = "write" => op[r].size \in Sizes
    BY DEF KvIInv, AnswersOK, RequestOK, OpOK, Ends
  <2>2. fs[f] \in FileStates
    BY <1>1
  <2>. QED
    BY <1>1, <2>1, <2>2, EffectType
<1>7. /\ fs' \in [Files -> FileStates] /\ \A g \in Files : g # f => fs'[g] = fs[g]
      /\ fs'[f] \in {fs[f], v}
      /\ mixed' \subseteq Files /\ mixed \subseteq mixed'
  <2>1. fs' = fs \/ fs' = [fs EXCEPT ![f] = v]
    BY <1>6 DEF Ends, Account
  <2>2. mixed' = mixed \/ mixed' = mixed \cup {f}
    BY DEF Ends, Account
  <2>. QED
    BY <1>1, <2>1, <2>2 DEF KvIInv, KvTypes
<1>8. KvTypes'
  BY <1>3, <1>5, <1>7 DEF Ends, KvIInv, KvTypes
<1>9. RequestOK(r)'
  <2>1. OpOK(r)'
    BY <1>2, <1>3, <1>4, <1>5 DEF OpOK, Ends
  <2>2. RpcsOf(r)' = {} /\ poll' # r
    BY DEF Ends
  <2>3. RpcOK(r)'
    BY <2>2 DEF RpcOK
  <2>4. WriteOK(r)'
    BY <1>2, <1>3, <2>2 DEF WriteOK
  <2>. QED
    BY <2>1, <2>2, <2>3, <2>4 DEF RequestOK, PollOK
<1>10. Concerns(r, f)
  BY <1>2, <1>3, <1>5, <1>7 DEF Ends, Concerns, Apart, SameFile
<1>11. Serves(r, f)
  BY <1>2, <1>3, <1>6, <1>7 DEF Settles, Serves, SameFile
<1>. QED
  BY <1>8, <1>9, <1>10, <1>11, RequestStep

(* What Return and Complete do. *)
LEMMA Returns ==
  ASSUME KvIInv, NEW r \in Requests, NEW f \in Files, NEW err, op[r].pc # "none", op[r].file = f,
         handler[r] = "running", Return(r, err), UNCHANGED <<completions, rpc, poll, early, dirVars>>,
         RpcsOf(r) = {}, poll # r,
         inode' \in [Files -> Inodes \cup {None}], data' \in [Files -> Sizes \cup {None}],
         \A g \in Files : g # f => inode'[g] = inode[g] /\ data'[g] = data[g]
  PROVE  Ends(r, f, err)
  BY DEF Return, Ends, RpcsOf

LEMMA Completes ==
  ASSUME KvIInv, NEW r \in Requests, NEW f \in Files, NEW err, op[r].pc # "none", op[r].file = f,
         Complete(r, err), UNCHANGED <<handler, early, dirVars>>,
         rpc' \subseteq rpc, RpcsOf(r)' = {}, \A q \in Requests : q # r => RpcsOf(q)' = RpcsOf(q),
         poll \in {r, None}, poll' = None,
         inode' \in [Files -> Inodes \cup {None}], data' \in [Files -> Sizes \cup {None}],
         \A g \in Files : g # f => inode'[g] = inode[g] /\ data'[g] = data[g]
  PROVE  Ends(r, f, err)
  BY KvAssumption DEF Complete, Ends

(* Handlers that wait have no RPC that the poll thread knows of. *)
LEMMA Waiting ==
  ASSUME KvIInv, NEW r \in Requests, op[r].pc \in {"start", "write"}
  PROVE  RpcsOf(r) = {} /\ poll # r /\ op[r].file \in Files /\ op[r].kind \in Kinds
  BY DEF KvIInv, AnswersOK, RequestOK, OpOK, RpcOK, PollOK, Sending


-----------------------------------------------------------------------------
(* What is known of a request that is under way. *)

LEMMA UnderWay ==
  ASSUME KvIInv, NEW r \in Requests, op[r].pc # "none"
  PROVE  /\ op[r].file \in Files /\ op[r].kind \in Kinds /\ op[r] \in OpStates /\ RequestOK(r)
         /\ op[r].kind = "write" => op[r].size \in Sizes
         /\ inode \in [Files -> Inodes \cup {None}] /\ data \in [Files -> Sizes \cup {None}]
         /\ fs \in [Files -> FileStates] /\ mixed \subseteq Files
         /\ op[r].kind \in Mutations /\ op[r].file \notin mixed => Progress(r, op[r].file)
  BY DEF KvIInv, KvTypes, AnswersOK, RequestOK, OpOK, FilesOK, FileOK, Mutates

LEMMA MknodStep == ASSUME KvIInv, NEW r \in Requests, Mknod(r) PROVE KvIInv'
<1>1. /\ op[r].pc = "start" /\ handler[r] = "running" /\ op[r].kind = "mknod"
      /\ UNCHANGED <<data, completions, rpc, poll, early, dirVars>>
  BY DEF Mknod, At
<1>2. PICK f \in Files : f = op[r].file
  BY <1>1, UnderWay
<1>3. PICK err \in BOOLEAN :
        /\ Return(r, err)
        /\ inode' = IF err THEN inode ELSE [inode EXCEPT ![f] = NewInode]
  BY <1>2 DEF Mknod
<1>4. NewInode \in Inodes
  BY DEF NewInode, Inodes
<1>5. /\ inode \in [Files -> Inodes \cup {None}] /\ data \in [Files -> Sizes \cup {None}]
      /\ fs \in [Files -> FileStates] /\ (f \notin mixed => Progress(r, f))
  BY <1>1, <1>2, UnderWay DEF Mutations
<1>6. /\ inode' \in [Files -> Inodes \cup {None}] /\ data' \in [Files -> Sizes \cup {None}]
      /\ \A g \in Files : g # f => inode'[g] = inode[g] /\ data'[g] = data[g]
  BY <1>1, <1>3, <1>4, <1>5
<1>7. Ends(r, f, err)
  BY <1>1, <1>2, <1>3, <1>6, Waiting, Returns
<1>8. Settles(r, f)
  <2>1. SUFFICES ASSUME f \notin mixed' PROVE Exact(f)'
    BY <1>1 DEF Settles, Mutations
  <2>2. f \notin mixed /\ Exact(f)
    BY <1>1, <1>2, <1>3, <1>5, <2>1 DEF Progress, Return, Account
  <2>3. fs' = IF err THEN fs ELSE [fs EXCEPT ![f] = Effect(op[r], @)]
    BY <1>2, <1>3 DEF Return, Account
  <2>4. Effect(op[r], fs[f]) = [fs[f] EXCEPT !.inode = NewInode]
    BY <1>1 DEF Effect
  <2>. QED
    BY <1>1, <1>3, <1>5, <2>2, <2>3, <2>4 DEF Exact, FileStates
<1>. QED
  BY <1>7, <1>8, AnswerStep

LEMMA SetattrWriteStep == ASSUME KvIInv, NEW r \in Requests, SetattrWrite(r) PROVE KvIInv'
<1>1. /\ op[r].pc = "write" /\ handler[r] = "running" /\ op[r].kind = "setattr"
      /\ UNCHANGED <<data, completions, rpc, poll, early, dirVars>>
  BY DEF SetattrWrite, At
<1>2. PICK f \in Files : f = op[r].file
  BY <1>1, UnderWay
<1>3. /\ inode \in [Files -> Inodes \cup {None}] /\ data \in [Files -> Sizes \cup {None}]
      /\ fs \in [Files -> FileStates] /\ (f \notin mixed => Progress(r, f))
      /\ op[r].inode \in Inodes /\ op[r].size \in Sizes \cup {None}
  BY <1>1, <1>2, UnderWay DEF Mutations, RequestOK, OpOK, OpStates
<1>4. PICK i \in Inodes : i = IF op[r].size = None THEN [op[r].inode EXCEPT !.mode = "set"]
                                                   ELSE [op[r].inode EXCEPT !.size = op[r].size]
  <2>1. [op[r].inode EXCEPT !.mode = "set"] \in Inodes
    BY <1>3 DEF Inodes
  <2>2. op[r].size # None => [op[r].inode EXCEPT !.size = op[r].size] \in Inodes
    BY <1>3 DEF Inodes
  <2>. QED
    BY <2>1, <2>2
<1>5. PICK err \in BOOLEAN :
        Return(r, err) /\ inode' = IF err THEN inode ELSE [inode EXCEPT ![f] = i]
  BY <1>2, <1>4 DEF SetattrWrite
<1>6. /\ inode' \in [Files -> Inodes \cup {None}] /\ data' \in [Files -> Sizes \cup {None}]
      /\ \A g \in Files : g # f => inode'[g] = inode[g] /\ data'[g] = data[g]
  BY <1>1, <1>3, <1>5
<1>7. Ends(r, f, err)
  BY <1>1, <1>2, <1>5, <1>6, Waiting, Returns
<1>8. Settles(r, f)
  <2>1. SUFFICES ASSUME f \notin mixed' PROVE Exact(f)'
    BY <1>1 DEF Settles, Mutations
  <2>2. f \notin mixed /\ Exact(f) /\ op[r].inode = inode[f] /\ inode[f] # None
    BY <1>1, <1>2, <1>3, <1>5, <2>1 DEF Progress, Return, Account
  <2>3. fs' = IF err THEN fs ELSE [fs EXCEPT ![f] = Effect(op[r], @)]
    BY <1>2, <1>5 DEF Return, Account
  <2>4. Effect(op[r], fs[f]) = [fs[f] EXCEPT !.inode = i]
    BY <1>1, <1>4, <2>2 DEF Effect, Exact
  <2>. QED
    BY <1>1, <1>3, <1>5, <2>2, <2>3, <2>4 DEF Exact, FileStates
<1>. QED
  BY <1>7, <1>8, AnswerStep

LEMMA UnlinkReturnStep == ASSUME KvIInv, NEW r \in Requests, UnlinkReturn(r) PROVE KvIInv'
<1>1. /\ op[r].pc = "start" /\ handler[r] = "running" /\ op[r].kind = "unlink" /\ op[r].left = {}
      /\ Return(r, op[r].err)
      /\ UNCHANGED <<inode, data, completions, rpc, poll, early, dirVars>>
  BY DEF UnlinkReturn, At, tables
<1>2. PICK f \in Files : f = op[r].file
  BY <1>1, UnderWay
<1>3. /\ inode \in [Files -> Inodes \cup {None}] /\ data \in [Files -> Sizes \cup {None}]
      /\ fs \in [Files -> FileStates] /\ (f \notin mixed => Progress(r, f))
  BY <1>1, <1>2, UnderWay DEF Mutations
<1>4. PICK err \in BOOLEAN : err = op[r].err
  BY <1>1, UnderWay DEF OpStates
<1>5. Ends(r, f, err)
  BY <1>1, <1>2, <1>3, <1>4, Waiting, Returns
<1>6. Settles(r, f)
  <2>1. SUFFICES ASSUME f \notin mixed' PROVE Exact(f)'
    BY <1>1 DEF Settles, Mutations
  <2>2. f \notin mixed /\ ~err /\ UnlinkOK(r, f)
    BY <1>1, <1>2, <1>3, <1>4, <2>1 DEF Progress, Return, Account
  <2>3. fs' = [fs EXCEPT ![f] = Effect(op[r], @)]
    BY <1>1, <1>2, <1>4, <2>2 DEF Return, Account
  <2>4. Effect(op[r], fs[f]) = [inode |-> None, data |-> None]
    BY <1>1 DEF Effect
  <2>. QED
    BY <1>1, <1>3, <1>4, <2>2, <2>3, <2>4 DEF Exact, UnlinkOK
<1>. QED
  BY <1>5, <1>6, AnswerStep

LEMMA AnswerAtOnceStep == ASSUME KvIInv, NEW r \in Requests, AnswerAtOnce(r) PROVE KvIInv'
<1>1. /\ op[r].pc = "start" /\ handler[r] = "running" /\ op[r].kind \in {"getattr", "write"}
      /\ handler' = [handler EXCEPT ![r] = "handled"] /\ op' = [op EXCEPT ![r] = NoOp]
      /\ UNCHANGED <<inode, data, completions, rpc, poll, early, fs, mixed, dirVars>>
  BY DEF AnswerAtOnce, At, tables, ghosts
<1>2. PICK f \in Files : f = op[r].file
  BY <1>1, UnderWay
<1>3. /\ inode \in [Files -> Inodes \cup {None}] /\ data \in [Files -> Sizes \cup {None}]
      /\ op[r].kind = "write" /\ f \notin mixed => Progress(r, f)
  BY <1>1, <1>2, UnderWay DEF Mutations
<1>4. RpcsOf(r) = {} /\ poll # r
  BY <1>1, Waiting
<1>5. Ends(r, f, TRUE)
  BY <1>1, <1>2, <1>3, <1>4 DEF Ends, RpcsOf
<1>6. Settles(r, f)
  BY <1>1, <1>3 DEF Settles, Progress, WritesOK, Exact, Mutations
<1>. QED
  BY <1>5, <1>6, AnswerStep

-----------------------------------------------------------------------------
(* Request r, on file f, goes on: its operation is o now. *)
Works(r, f, o) ==
  /\ op[r].pc # "none" /\ op[r].file = f /\ o \in OpStates /\ op' = [op EXCEPT ![r] = o]
  /\ o.kind = op[r].kind /\ o.file = f /\ o.size = op[r].size /\ o.pc # "none"
  /\ o.kind \in {"mknod", "unlink"} => o.pc = "start"
  /\ o.pc = "write" => o.kind = "setattr" /\ o.inode # None
  /\ UNCHANGED <<handler, completions, fs, mixed, dirVars>>
  /\ rpc' \subseteq Rpcs /\ \A q \in Requests : q # r => RpcsOf(q)' = RpcsOf(q)
  /\ early' \in {early, early \cup {r}}
  /\ poll' \in Requests \cup {None} /\ \A q \in Requests : q # r => (poll' = q <=> poll = q)
  /\ inode' \in [Files -> Inodes \cup {None}] /\ data' \in [Files -> Sizes \cup {None}]
  /\ \A g \in Files : g # f => inode'[g] = inode[g] /\ data'[g] = data[g]

(* Its file is on the way, or is left alone. *)
Advances(r, f) ==
  /\ op[r].kind \in Mutations /\ f \notin mixed => Progress(r, f)'
  /\ op[r].kind \notin Mutations => inode'[f] = inode[f] /\ data'[f] = data[f]

LEMMA WorkStep ==
  ASSUME KvIInv, NEW r \in Requests, NEW f \in Files, NEW o, Works(r, f, o), Advances(r, f),
         RpcOK(r)', WriteOK(r)', PollOK(r)'
  PROVE  KvIInv'
<1>1. op \in [Requests -> OpStates] /\ op'[r] = o /\ \A q \in Requests : q # r => op'[q] = op[q]
  BY DEF KvIInv, KvTypes, Works
<1>2. KvTypes'
  BY <1>1 DEF KvIInv, KvTypes, Works
<1>3. OpOK(r)'
  <2>1. OpOK(r)
    BY DEF KvIInv, AnswersOK, RequestOK
  <2>. QED
    BY <1>1, <2>1 DEF OpOK, Works
<1>4. Concerns(r, f)
  BY <1>1 DEF Works, Concerns, Apart, SameFile
<1>5. Serves(r, f)
  BY <1>1 DEF Works, Advances, Serves, SameFile
<1>. QED
  BY <1>2, <1>3, <1>4, <1>5, RequestStep DEF RequestOK

LEMMA SetattrReadStep == ASSUME KvIInv, NEW r \in Requests, SetattrRead(r) PROVE KvIInv'
<1>1. /\ op[r].pc = "start" /\ handler[r] = "running" /\ op[r].kind = "setattr"
      /\ UNCHANGED <<inode, data, completions, rpc, poll, early, dirVars>>
  BY DEF SetattrRead, At, tables
<1>2. PICK f \in Files : f = op[r].file
  BY <1>1, UnderWay
<1>3. /\ inode \in [Files -> Inodes \cup {None}] /\ data \in [Files -> Sizes \cup {None}]
      /\ fs \in [Files -> FileStates] /\ (f \notin mixed => Progress(r, f))
      /\ op[r] \in OpStates /\ RequestOK(r) /\ RpcsOf(r) = {} /\ poll # r
  BY <1>1, <1>2, UnderWay, Waiting DEF Mutations
<1>4. CASE Return(r, TRUE)
  <2>1. Ends(r, f, TRUE)
    BY <1>1, <1>2, <1>3, <1>4, Returns
  <2>2. Settles(r, f)
    BY <1>1, <1>2, <1>3, <1>4 DEF Settles, Mutations, Return, Account, Progress, Exact
  <2>. QED
    BY <2>1, <2>2, AnswerStep
<1>5. CASE /\ inode[f] # None /\ op' = [op EXCEPT ![r].inode = inode[f], ![r].pc = "write"]
           /\ UNCHANGED <<handler, fs, mixed>>
  <2>1. PICK o \in OpStates : o = [op[r] EXCEPT !.inode = inode[f], !.pc = "write"]
    BY <1>3 DEF OpStates
  <2>2. /\ o.inode = inode[f] /\ o.pc = "write" /\ o.kind = "setattr" /\ o.file = f
        /\ o.size = op[r].size
    BY <1>1, <1>2, <1>3, <2>1 DEF OpStates
  <2>3. op \in [Requests -> OpStates] /\ op' = [op EXCEPT ![r] = o] /\ op'[r] = o /\ rpc \subseteq Rpcs
        /\ poll \in Requests \cup {None}
    BY <1>5, <2>1 DEF KvIInv, KvTypes
  <2>4. Works(r, f, o)
    BY <1>1, <1>2, <1>3, <1>5, <2>2, <2>3 DEF Works, RpcsOf
  <2>5. Advances(r, f)
    BY <1>1, <1>2, <1>3, <1>5, <2>2, <2>3 DEF Advances, Mutations, Progress, Exact
  <2>6. RpcsOf(r)' = {} /\ poll' # r
    BY <1>1, <1>3 DEF RpcsOf
  <2>7. RpcOK(r)' /\ WriteOK(r)' /\ PollOK(r)'
    BY <2>2, <2>3, <2>6 DEF RpcOK, WriteOK, PollOK
  <2>. QED
    BY <2>4, <2>5, <2>7, WorkStep
<1>. QED
  BY <1>2, <1>4, <1>5 DEF SetattrRead

LEMMA UnlinkRemoveStep ==
  ASSUME KvIInv, NEW r \in Requests, NEW t \in {"inode", "data"}, UnlinkRemove(r, t) PROVE KvIInv'
<1>1. /\ op[r].pc = "start" /\ handler[r] = "running" /\ op[r].kind = "unlink" /\ t \in op[r].left
      /\ UNCHANGED <<handler, completions, rpc, poll, early, fs, mixed, dirVars>>
  BY DEF UnlinkRemove, At, halVars, ghosts
<1>2. PICK f \in Files : f = op[r].file
  BY <1>1, UnderWay
<1>3. /\ inode \in [Files -> Inodes \cup {None}] /\ data \in [Files -> Sizes \cup {None}]
      /\ fs \in [Files -> FileStates] /\ (f \notin mixed => Progress(r, f))
      /\ op[r] \in OpStates /\ RequestOK(r) /\ RpcsOf(r) = {} /\ poll # r
  BY <1>1, <1>2, UnderWay, Waiting DEF Mutations
<1>4. PICK ok \in BOOLEAN :
       /\ inode' = IF ok /\ t = "inode" THEN [inode EXCEPT ![f] = None] ELSE inode
       /\ data' = IF ok /\ t = "data" THEN [data EXCEPT ![f] = None] ELSE data
       /\ op' = [op EXCEPT ![r].left = @ \ {t}, ![r].err = @ \/ ~ok]
  BY <1>2 DEF UnlinkRemove
<1>5. PICK o \in OpStates : o = [op[r] EXCEPT !.left = @ \ {t}, !.err = @ \/ ~ok]
  BY <1>3 DEF OpStates
<1>6. /\ o.left = op[r].left \ {t} /\ o.err = (op[r].err \/ ~ok) /\ o.pc = "start"
      /\ o.kind = "unlink" /\ o.file = f /\ o.size = op[r].size
  BY <1>1, <1>2, <1>3, <1>5 DEF OpStates
<1>7. op \in [Requests -> OpStates] /\ op' = [op EXCEPT ![r] = o] /\ op'[r] = o /\ rpc \subseteq Rpcs
      /\ poll \in Requests \cup {None}
  BY <1>4, <1>5 DEF KvIInv, KvTypes
<1>8. Works(r, f, o)
  BY <1>1, <1>2, <1>3, <1>4, <1>6, <1>7 DEF Works, RpcsOf
<1>9. Advances(r, f)
  <2>1. UnlinkOK(r, f) => UnlinkOK(r, f)'
    BY <1>1, <1>3, <1>4, <1>6, <1>7 DEF UnlinkOK
  <2>. QED
    BY <1>1, <1>3, <1>6, <1>7, <2>1 DEF Advances, Mutations, Progress
<1>10. RpcsOf(r)' = {} /\ poll' # r
  BY <1>1, <1>3 DEF RpcsOf
<1>11. RpcOK(r)' /\ WriteOK(r)' /\ PollOK(r)'
  BY <1>6, <1>7, <1>10 DEF RpcOK, WriteOK, PollOK
<1>. QED
  BY <1>8, <1>9, <1>11, WorkStep

-----------------------------------------------------------------------------
(* RPCs. *)

LEMMA Sends ==
  ASSUME KvIInv, NEW r \in Requests, NEW t \in {"inode", "data"}, NEW w \in BOOLEAN,
         rpc' = rpc \cup {Rpc(r, t, w)}
  PROVE  /\ rpc' \subseteq Rpcs /\ \A q \in Requests : q # r => RpcsOf(q)' = RpcsOf(q)
         /\ RpcsOf(r)' = RpcsOf(r) \cup {Rpc(r, t, w)}
         /\ Rpc(r, t, w).table = t /\ Rpc(r, t, w).write = w /\ Rpc(r, t, w).st = "sent"
         /\ Rpc(r, t, w).val = None
<1>1. Rpc(r, t, w) \in Rpcs
  BY DEF Rpc, Rpcs
<1>2. /\ Rpc(r, t, w).table = t /\ Rpc(r, t, w).write = w /\ Rpc(r, t, w).st = "sent"
      /\ Rpc(r, t, w).val = None /\ Rpc(r, t, w).req = r
  BY DEF Rpc
<1>. QED
  BY <1>1, <1>2 DEF RpcsOf, KvIInv, KvTypes

(* The constructor comes to pc. *)
Comes(r, f, pc) ==
  /\ op[r].pc # "none" /\ op[r].file = f /\ op[r].kind \notin {"mknod", "unlink"}
  /\ pc \in Sending /\ op' = [op EXCEPT ![r].pc = pc]
  /\ rpc' \subseteq Rpcs /\ \A q \in Requests : q # r => RpcsOf(q)' = RpcsOf(q)
  /\ UNCHANGED <<inode, data, handler, completions, poll, early, fs, mixed, dirVars>>

LEMMA Constructs ==
  ASSUME KvIInv, NEW r \in Requests, NEW f \in Files, NEW pc, Comes(r, f, pc)
  PROVE  \E o \in OpStates : /\ Works(r, f, o) /\ o = [op[r] EXCEPT !.pc = pc] /\ op'[r] = o
                             /\ o.pc = pc /\ o.kind = op[r].kind /\ o.size = op[r].size
                             /\ o.firstDone = op[r].firstDone /\ o.err = op[r].err
                             /\ o.inode = op[r].inode
<1>1. op \in [Requests -> OpStates] /\ op[r] \in OpStates
  BY DEF KvIInv, KvTypes
<1>2. PICK o \in OpStates : o = [op[r] EXCEPT !.pc = pc]
  BY <1>1 DEF OpStates, Comes
<1>3. /\ o.pc = pc /\ o.kind = op[r].kind /\ o.size = op[r].size /\ o.firstDone = op[r].firstDone
      /\ o.err = op[r].err /\ o.inode = op[r].inode /\ o.file = f
  BY <1>1, <1>2 DEF OpStates, Comes
<1>4. op' = [op EXCEPT ![r] = o] /\ op'[r] = o
  BY <1>1, <1>2 DEF Comes
<1>5. Works(r, f, o)
  BY <1>3, <1>4 DEF Works, Comes, KvIInv, KvTypes, Sending
<1>. QED
  BY <1>2, <1>3, <1>4, <1>5

LEMMA ReadSendStep == ASSUME KvIInv, NEW r \in Requests, ReadSend(r) PROVE KvIInv'
<1>1. PICK t \in {"inode", "data"} :
        /\ op[r].pc = "start" /\ op[r].kind \in {"getattr", "read"}
        /\ rpc' = rpc \cup {Rpc(r, t, FALSE)} /\ op' = [op EXCEPT ![r].pc = "base"]
        /\ UNCHANGED <<inode, data, handler, completions, poll, early, fs, mixed, dirVars>>
  BY DEF ReadSend, At, tables, halVars, ghosts
<1>2. PICK f \in Files : f = op[r].file
  BY <1>1, UnderWay
<1>3. RpcsOf(r) = {} /\ poll # r
  BY <1>1, Waiting
<1>4. PICK x : /\ rpc' \subseteq Rpcs /\ \A q \in Requests : q # r => RpcsOf(q)' = RpcsOf(q)
               /\ RpcsOf(r)' = {x} /\ x.write = FALSE /\ x.val = None
  <2>1. /\ rpc' \subseteq Rpcs /\ \A q \in Requests : q # r => RpcsOf(q)' = RpcsOf(q)
        /\ RpcsOf(r)' = RpcsOf(r) \cup {Rpc(r, t, FALSE)}
        /\ Rpc(r, t, FALSE).write = FALSE /\ Rpc(r, t, FALSE).val = None
    BY <1>1, Sends
  <2>. QED
    BY <1>3, <2>1
<1>5. PICK o \in OpStates : Works(r, f, o) /\ op'[r] = o /\ o.pc = "base" /\ o.kind = op[r].kind
  <2>1. Comes(r, f, "base")
    BY <1>1, <1>2, <1>4 DEF Comes, Sending
  <2>. QED
    BY <2>1, Constructs
<1>6. Advances(r, f)
  BY <1>1 DEF Advances, Mutations
<1>7. RpcOK(r)'
  BY <1>1, <1>4, <1>5 DEF RpcOK, Sending
<1>8. WriteOK(r)' /\ PollOK(r)'
  BY <1>1, <1>3, <1>5 DEF WriteOK, PollOK
<1>. QED
  BY <1>5, <1>6, <1>7, <1>8, WorkStep

LEMMA WriteSendStep == ASSUME KvIInv, NEW r \in Requests, WriteSend(r) PROVE KvIInv'
<1>1. /\ op[r].pc = "start" /\ op[r].kind = "write"
      /\ rpc' = rpc \cup {Rpc(r, "data", TRUE)} /\ op' = [op EXCEPT ![r].pc = "base"]
      /\ UNCHANGED <<inode, data, handler, completions, poll, early, fs, mixed, dirVars>>
  BY DEF WriteSend, At, tables, halVars, ghosts
<1>2. PICK f \in Files : f = op[r].file
  BY <1>1, UnderWay
<1>3. RpcsOf(r) = {} /\ poll # r /\ RequestOK(r)
  BY <1>1, Waiting, UnderWay
<1>4. PICK x : /\ rpc' \subseteq Rpcs /\ \A q \in Requests : q # r => RpcsOf(q)' = RpcsOf(q)
               /\ RpcsOf(r)' = {x} /\ x.write = TRUE /\ x.val = None /\ x.table = "data"
               /\ x.st = "sent"
  <2>1. PICK x : x = Rpc(r, "data", TRUE)
    OBVIOUS
  <2>2. /\ rpc' \subseteq Rpcs /\ \A q \in Requests : q # r => RpcsOf(q)' = RpcsOf(q)
        /\ RpcsOf(r)' = RpcsOf(r) \cup {x} /\ x.write = TRUE /\ x.val = None /\ x.table = "data"
        /\ x.st = "sent"
    BY <1>1, <2>1, Sends
  <2>. QED
    BY <1>3, <2>2
<1>5. PICK o \in OpStates : /\ Works(r, f, o) /\ op'[r] = o /\ o.pc = "base" /\ o.kind = op[r].kind
                            /\ o.firstDone = op[r].firstDone
  <2>1. Comes(r, f, "base")
    BY <1>1, <1>2, <1>4 DEF Comes, Sending
  <2>. QED
    BY <2>1, Constructs
<1>6. Advances(r, f)
  <2>1. f \notin mixed => Progress(r, f)
    BY <1>1, <1>2, UnderWay DEF Mutations
  <2>2. WritesOK(r, f) => WritesOK(r, f)'
    BY <1>1, <1>4, <1>5 DEF WritesOK
  <2>. QED
    BY <1>1, <1>5, <2>1, <2>2 DEF Advances, Mutations, Progress
<1>7. RpcOK(r)'
  BY <1>1, <1>4, <1>5 DEF RpcOK, Sending
<1>8. WriteOK(r)' /\ PollOK(r)'
  BY <1>1, <1>3, <1>4, <1>5 DEF RequestOK, WriteOK, PollOK
<1>. QED
  BY <1>5, <1>6, <1>7, <1>8, WorkStep

LEMMA WriteGetAttrStep == ASSUME KvIInv, NEW r \in Requests, WriteGetAttr(r) PROVE KvIInv'
<1>1. /\ op[r].pc = "init" /\ op[r].kind = "write"
      /\ rpc' = rpc \cup {Rpc(r, "inode", FALSE)} /\ op' = [op EXCEPT ![r].pc = "member"]
      /\ UNCHANGED <<inode, data, handler, completions, poll, early, fs, mixed, dirVars>>
  BY DEF WriteGetAttr, At, tables, halVars, ghosts
<1>2. PICK f \in Files : f = op[r].file
  BY <1>1, UnderWay
<1>3. RequestOK(r) /\ \A z \in RpcsOf(r) : z.table = "data"
  BY <1>1, UnderWay DEF RequestOK, WriteOK
<1>4. PICK x : /\ rpc' \subseteq Rpcs /\ \A q \in Requests : q # r => RpcsOf(q)' = RpcsOf(q)
               /\ RpcsOf(r)' = RpcsOf(r) \cup {x} /\ x.write = FALSE /\ x.val = None
               /\ x.table = "inode" /\ x.st = "sent"
  BY <1>1, Sends
<1>5. PICK o \in OpStates : /\ Works(r, f, o) /\ op'[r] = o /\ o.pc = "member" /\ o.kind = op[r].kind
                            /\ o.firstDone = op[r].firstDone /\ o.err = op[r].err
                            /\ o.size = op[r].size
  <2>1. Comes(r, f, "member")
    BY <1>1, <1>2, <1>4 DEF Comes, Sending
  <2>. QED
    BY <2>1, Constructs
<1>6. Advances(r, f)
  <2>1. f \notin mixed => Progress(r, f)
    BY <1>1, <1>2, UnderWay DEF Mutations
  <2>2. WritesOK(r, f) => WritesOK(r, f)'
    BY <1>1, <1>4, <1>5 DEF WritesOK, Sending
  <2>. QED
    BY <1>1, <1>5, <2>1, <2>2 DEF Advances, Mutations, Progress
<1>7. RpcOK(r)'
  BY <1>1, <1>3, <1>4, <1>5 DEF RequestOK, RpcOK, Sending
<1>8. WriteOK(r)' /\ PollOK(r)'
  BY <1>1, <1>3, <1>4, <1>5 DEF RequestOK, WriteOK, PollOK
<1>. QED
  BY <1>5, <1>6, <1>7, <1>8, WorkStep

LEMMA BaseDoneStep == ASSUME KvIInv, NEW r \in Requests, BaseDone(r) PROVE KvIInv'
<1>1. PICK pc \in {"init", "member_init"} :
        /\ (op[r].pc = "base" /\ pc = "init") \/ (op[r].pc = "member" /\ pc = "member_init")
        /\ op' = [op EXCEPT ![r].pc = pc]
        /\ UNCHANGED <<inode, data, handler, completions, rpc, poll, early, fs, mixed, dirVars>>
  BY DEF BaseDone, At, tables, halVars, ghosts
<1>2. PICK f \in Files : f = op[r].file
  BY <1>1, UnderWay
<1>3. RequestOK(r) /\ op[r].kind \notin {"mknod", "unlink"} /\ rpc \subseteq Rpcs
  BY <1>1, UnderWay DEF RequestOK, OpOK, KvIInv, KvTypes
<1>4. \A q \in Requests : RpcsOf(q)' = RpcsOf(q)
  BY <1>1 DEF RpcsOf
<1>5. PICK o \in OpStates : /\ Works(r, f, o) /\ op'[r] = o /\ o.pc = pc
                            /\ o.kind = op[r].kind /\ o.size = op[r].size
                            /\ o.firstDone = op[r].firstDone /\ o.err = op[r].err
                            /\ o.inode = op[r].inode
  <2>1. Comes(r, f, pc)
    BY <1>1, <1>2, <1>3, <1>4 DEF Comes, Sending
  <2>. QED
    BY <2>1, Constructs
<1>6. Advances(r, f)
  <2>1. op[r].kind \in Mutations /\ f \notin mixed => Progress(r, f)
    BY <1>1, <1>2, UnderWay DEF Mutations
  <2>2. op[r].kind = "write" /\ WritesOK(r, f) => WritesOK(r, f)'
    BY <1>1, <1>4, <1>5 DEF WritesOK, Sending
  <2>3. Exact(f) => Exact(f)'
    BY <1>1 DEF Exact
  <2>. QED
    BY <1>1, <1>3, <1>5, <2>1, <2>2, <2>3 DEF Advances, Mutations, Progress
<1>7. RpcOK(r)'
  BY <1>1, <1>3, <1>4, <1>5 DEF RequestOK, RpcOK, Sending
<1>8. WriteOK(r)' /\ PollOK(r)'
  BY <1>1, <1>3, <1>4, <1>5 DEF RequestOK, WriteOK, PollOK
<1>. QED
  BY <1>5, <1>6, <1>7, <1>8, WorkStep

LEMMA ConstructedStep == ASSUME KvIInv, NEW r \in Requests, Constructed(r) PROVE KvIInv'
<1>1. /\ (op[r].pc = "init" /\ op[r].kind # "write") \/ op[r].pc = "member_init"
      /\ op' = [op EXCEPT ![r].pc = "constructed"]
      /\ UNCHANGED <<inode, data, handler, completions, rpc, poll, early, fs, mixed, dirVars>>
  BY DEF Constructed, At, tables, halVars, ghosts
<1>2. PICK f \in Files : f = op[r].file
  BY <1>1, UnderWay
<1>3. RequestOK(r) /\ op[r].kind \notin {"mknod", "unlink"} /\ rpc \subseteq Rpcs
  BY <1>1, UnderWay DEF RequestOK, OpOK, KvIInv, KvTypes
<1>4. \A q \in Requests : RpcsOf(q)' = RpcsOf(q)
  BY <1>1 DEF RpcsOf
<1>5. PICK o \in OpStates : /\ Works(r, f, o) /\ op'[r] = o /\ o.pc = "constructed"
                            /\ o.kind = op[r].kind /\ o.size = op[r].size
                            /\ o.firstDone = op[r].firstDone /\ o.err = op[r].err
                            /\ o.inode = op[r].inode
  <2>1. Comes(r, f, "constructed")
    BY <1>1, <1>2, <1>3, <1>4 DEF Comes, Sending
  <2>. QED
    BY <2>1, Constructs
<1>6. Advances(r, f)
  <2>1. op[r].kind \in Mutations /\ f \notin mixed => Progress(r, f)
    BY <1>1, <1>2, UnderWay DEF Mutations
  <2>2. op[r].kind = "write" /\ WritesOK(r, f) => WritesOK(r, f)'
    BY <1>1, <1>4, <1>5 DEF WritesOK, Sending
  <2>3. Exact(f) => Exact(f)'
    BY <1>1 DEF Exact
  <2>. QED
    BY <1>1, <1>3, <1>5, <2>1, <2>2, <2>3 DEF Advances, Mutations, Progress
<1>7. RpcOK(r)'
  BY <1>1, <1>3, <1>4, <1>5 DEF RequestOK, RpcOK, Sending
<1>8. WriteOK(r)' /\ PollOK(r)'
  BY <1>1, <1>3, <1>4, <1>5 DEF RequestOK, WriteOK, PollOK
<1>. QED
  BY <1>5, <1>6, <1>7, <1>8, WorkStep

-----------------------------------------------------------------------------
(* Responses. *)

LEMMA Sent ==
  ASSUME KvIInv, NEW x \in rpc
  PROVE  /\ x.req \in Requests /\ x \in Rpcs /\ x \in RpcsOf(x.req)
         /\ op[x.req].pc \in Sending
         /\ op[x.req].kind \in {"getattr", "read", "write"}
         /\ op[x.req].file \in Files /\ op[x.req] \in OpStates /\ RequestOK(x.req)
<1>1. x \in Rpcs
  BY DEF KvIInv, KvTypes
<1>2. x.req \in Requests /\ x \in RpcsOf(x.req)
  BY <1>1 DEF Rpcs, RpcsOf
<1>3. RequestOK(x.req)
  BY <1>2 DEF KvIInv, AnswersOK
<1>4. /\ op[x.req].pc \in Sending
      /\ op[x.req].kind \in {"getattr", "read", "write"}
  BY <1>2, <1>3 DEF RequestOK, RpcOK
<1>. QED
  BY <1>1, <1>2, <1>3, <1>4, UnderWay DEF Sending

LEMMA Removes ==
  ASSUME KvIInv, NEW x \in rpc, rpc' = rpc \ {x}
  PROVE  /\ rpc' \subseteq Rpcs /\ RpcsOf(x.req)' = RpcsOf(x.req) \ {x}
         /\ \A q \in Requests : q # x.req => RpcsOf(q)' = RpcsOf(q)
  BY DEF KvIInv, KvTypes, RpcsOf

(* The response y to x is in. *)
Replaces(x, y) ==
  /\ x.st = "sent" /\ y \in Rpcs /\ y.req = x.req /\ y.table = x.table /\ y.write = x.write
  /\ rpc' = (rpc \ {x}) \cup {y}

LEMMA Replaced ==
  ASSUME KvIInv, NEW x \in rpc, NEW y, Replaces(x, y)
  PROVE  /\ rpc' \subseteq Rpcs /\ RpcsOf(x.req)' = (RpcsOf(x.req) \ {x}) \cup {y}
         /\ \A q \in Requests : q # x.req => RpcsOf(q)' = RpcsOf(q)
  BY DEF KvIInv, KvTypes, RpcsOf, Replaces

LEMMA ApplyLeads ==
  ASSUME KvIInv, NEW x \in rpc, Apply(x)
  PROVE  /\ UNCHANGED <<inode, handler, completions, op, poll, early, fs, mixed, dirVars>>
         /\ \E y \in Rpcs :
              /\ Replaces(x, y)
              /\ \/ /\ x.write /\ data' = [data EXCEPT ![op[x.req].file] = op[x.req].size]
                    /\ y.st = "ok" /\ y.val = x.val
                 \/ /\ ~x.write /\ y.st = "ok" /\ UNCHANGED data
                    /\ y.val = IF x.table = "inode" THEN inode[op[x.req].file] ELSE data[op[x.req].file]
                 \/ y.st = "failed" /\ UNCHANGED data /\ y.val = x.val
<1>1. x \in Rpcs /\ op[x.req].file \in Files
  BY Sent
<1>2. /\ inode[op[x.req].file] \in Inodes \cup {None} /\ data[op[x.req].file] \in Sizes \cup {None}
  BY <1>1 DEF KvIInv, KvTypes
<1>3. UNCHANGED <<inode, handler, completions, op, poll, early, fs, mixed, dirVars>> /\ x.st = "sent"
  BY DEF Apply, halVars, ghosts
<1>4. CASE /\ x.write /\ data' = [data EXCEPT ![op[x.req].file] = op[x.req].size]
           /\ rpc' = (rpc \ {x}) \cup {[x EXCEPT !.st = "ok"]}
  <2>1. PICK y \in Rpcs : y = [x EXCEPT !.st = "ok"]
    BY <1>1 DEF Rpcs
  <2>2. y.st = "ok" /\ y.val = x.val /\ y.req = x.req /\ y.table = x.table /\ y.write = x.write
    BY <1>1, <2>1 DEF Rpcs
  <2>. QED
    BY <1>3, <1>4, <2>1, <2>2 DEF Replaces
<1>5. CASE /\ ~x.write /\ UNCHANGED data
           /\ rpc' = (rpc \ {x}) \cup {[x EXCEPT !.st = "ok", !.val =
                IF x.table = "inode" THEN inode[op[x.req].file] ELSE data[op[x.req].file]]}
  <2>1. PICK v \in Inodes \cup Sizes \cup {None} :
          v = IF x.table = "inode" THEN inode[op[x.req].file] ELSE data[op[x.req].file]
    BY <1>2
  <2>2. PICK y \in Rpcs : y = [x EXCEPT !.st = "ok", !.val = v]
    BY <1>1 DEF Rpcs
  <2>3. y.st = "ok" /\ y.val = v /\ y.req = x.req /\ y.table = x.table /\ y.write = x.write
    BY <1>1, <2>2 DEF Rpcs
  <2>. QED
    BY <1>3, <1>5, <2>1, <2>2, <2>3 DEF Replaces
<1>6. CASE rpc' = (rpc \ {x}) \cup {[x EXCEPT !.st = "failed"]} /\ UNCHANGED data
  <2>1. PICK y \in Rpcs : y = [x EXCEPT !.st = "failed"]
    BY <1>1 DEF Rpcs
  <2>2. y.st = "failed" /\ y.val = x.val /\ y.req = x.req /\ y.table = x.table /\ y.write = x.write
    BY <1>1, <2>1 DEF Rpcs
  <2>. QED
    BY <1>3, <1>6, <2>1, <2>2 DEF Replaces
<1>. QED
  BY <1>4, <1>5, <1>6 DEF Apply

LEMMA ApplyKeeps == ASSUME KvIInv, NEW x \in rpc, Apply(x) PROVE KvIInv'
<1>1. PICK r \in Requests, f \in Files : r = x.req /\ f = op[r].file
  BY Sent
<1>2. /\ x \in Rpcs /\ x \in RpcsOf(r) /\ op[r].pc \in Sending
      /\ op[r].kind \in {"getattr", "read", "write"} /\ op[r] \in OpStates /\ RequestOK(r)
  BY <1>1, Sent
<1>3. PICK y \in Rpcs :
              /\ Replaces(x, y)
              /\ \/ x.write /\ data' = [data EXCEPT ![f] = op[r].size] /\ y.st = "ok" /\ y.val = x.val
                 \/ /\ ~x.write /\ y.st = "ok" /\ UNCHANGED data
                    /\ y.val = IF x.table = "inode" THEN inode[f] ELSE data[f]
                 \/ y.st = "failed" /\ UNCHANGED data /\ y.val = x.val
  BY <1>1, ApplyLeads
<1>4. UNCHANGED <<inode, handler, completions, op, poll, early, fs, mixed, dirVars>>
  BY ApplyLeads
<1>5. /\ rpc' \subseteq Rpcs /\ RpcsOf(r)' = (RpcsOf(r) \ {x}) \cup {y}
      /\ \A q \in Requests : q # r => RpcsOf(q)' = RpcsOf(q)
  BY <1>1, <1>3, Replaced
<1>6. y.table = x.table /\ y.write = x.write /\ x.st = "sent"
  BY <1>3 DEF Replaces
<1>7. x.write <=> op[r].kind = "write" /\ x.table = "data"
  BY <1>2 DEF RequestOK, RpcOK
<1>8. op[r].kind = "write" => op[r].size \in Sizes
  BY <1>2, UnderWay DEF Sending
<1>9. inode \in [Files -> Inodes \cup {None}] /\ data' \in [Files -> Sizes \cup {None}]
      /\ \A g \in Files : g # f => data'[g] = data[g]
  BY <1>3, <1>7, <1>8 DEF KvIInv, KvTypes
<1>10. PICK o : o = op[r]
  OBVIOUS
<1>11. Works(r, f, o)
  <2>1. op' = [op EXCEPT ![r] = o] /\ poll \in Requests \cup {None}
    BY <1>4, <1>10 DEF KvIInv, KvTypes
  <2>. QED
    BY <1>1, <1>2, <1>4, <1>5, <1>9, <1>10, <2>1 DEF Works, Sending
<1>12. Advances(r, f)
  <2>1. op[r].kind = "write" /\ f \notin mixed => Progress(r, f)
    BY <1>1, <1>2, UnderWay DEF Mutations, Sending
  <2>2. ASSUME op[r].kind = "write", WritesOK(r, f) PROVE WritesOK(r, f)'
    <3>1. x.table = "data" \/ x.table = "inode"
      BY <1>2 DEF Rpcs
    <3>2. \A z \in RpcsOf(r) : z.table = x.table => z = x
      BY <1>2 DEF RequestOK, RpcOK
    <3>3. data'[f] = IF x.table = "data" /\ y.st = "ok" THEN op[r].size ELSE data[f]
      BY <1>3, <1>7, <1>9, <2>2 DEF KvIInv, KvTypes
    <3>4. \A z \in RpcsOf(r)' :
            /\ z.table = "data" => data'[f] = IF z.st = "ok" THEN op[r].size ELSE fs[f].data
            /\ z.table = "inode" /\ z.st = "ok" => z.val = fs[f].inode
      <4>1. /\ x.table = "data" => data[f] = fs[f].data
            /\ inode[f] = fs[f].inode
        BY <1>2, <1>6, <2>2 DEF WritesOK
      <4>2. /\ y.table = "data" => data'[f] = IF y.st = "ok" THEN op[r].size ELSE fs[f].data
            /\ y.table = "inode" /\ y.st = "ok" => y.val = fs[f].inode
        BY <1>3, <1>6, <1>7, <2>2, <3>3, <4>1
      <4>3. ASSUME NEW z \in RpcsOf(r), z # x
            PROVE  /\ z.table = "data" => data'[f] = IF z.st = "ok" THEN op[r].size ELSE fs[f].data
                   /\ z.table = "inode" /\ z.st = "ok" => z.val = fs[f].inode
        BY <2>2, <3>2, <3>3, <4>3 DEF WritesOK
      <4>. QED
        BY <1>5, <4>2, <4>3
    <3>5. /\ (\A z \in RpcsOf(r)' : z.table # "data") => x.table # "data" /\ \A z \in RpcsOf(r) : z.table # "data"
          /\ (\A z \in RpcsOf(r)' : z.table # "inode") => \A z \in RpcsOf(r) : z.table # "inode"
      BY <1>5, <1>6
    <3>. QED
      BY <1>2, <1>4, <2>2, <3>3, <3>4, <3>5 DEF WritesOK, Sending
  <2>3. op[r].kind # "write" => data'[f] = data[f]
    BY <1>3, <1>7
  <2>. QED
    BY <1>2, <1>4, <2>1, <2>2, <2>3 DEF Advances, Mutations, Progress
<1>13. RpcOK(r)'
  <2>1. y.table = "inode" => y.val \in Inodes \cup {None}
    BY <1>2, <1>3, <1>6, <1>7, <1>9 DEF RequestOK, RpcOK
  <2>2. y.write => y.val = None
    BY <1>2, <1>3, <1>6 DEF RequestOK, RpcOK
  <2>3. \A z \in RpcsOf(r)' :
       /\ op[r].pc \in Sending
       /\ op[r].kind \in {"getattr", "read", "write"}
       /\ z.write <=> op[r].kind = "write" /\ z.table = "data"
       /\ z.table = "inode" => z.val \in Inodes \cup {None}
       /\ z.write => z.val = None
    BY <1>2, <1>5, <1>6, <1>7, <2>1, <2>2 DEF RequestOK, RpcOK
  <2>4. \A v, w \in RpcsOf(r)' : v.table = w.table \/ op[r].kind # "write" => v = w
    <3>1. \A v, w \in RpcsOf(r) : v.table = w.table \/ op[r].kind # "write" => v = w
      BY <1>2 DEF RequestOK, RpcOK
    <3>. QED
      BY <1>2, <1>5, <1>6, <3>1
  <2>. QED
    BY <1>4, <2>3, <2>4 DEF RpcOK
<1>14. WriteOK(r)' /\ PollOK(r)'
  <2>1. WriteOK(r) /\ PollOK(r)
    BY <1>2 DEF RequestOK
  <2>2. (\A v, w \in RpcsOf(r) : v = w) => \A v, w \in RpcsOf(r)' : v = w
    BY <1>2, <1>5
  <2>3. /\ (\A z \in RpcsOf(r) : z.table = "data") => \A z \in RpcsOf(r)' : z.table = "data"
        /\ (\A z \in RpcsOf(r)' : z.table # "inode") => \A z \in RpcsOf(r) : z.table # "inode"
    BY <1>2, <1>5, <1>6
  <2>4. WriteOK(r)'
    BY <1>2, <1>4, <2>1, <2>2, <2>3 DEF WriteOK
  <2>5. poll # r
    BY <1>2, <2>1 DEF PollOK
  <2>. QED
    BY <1>4, <2>4, <2>5 DEF PollOK
<1>. QED
  BY <1>11, <1>12, <1>13, <1>14, WorkStep

LEMMA CompletedEarlyStep == ASSUME KvIInv, NEW x \in rpc, CompletedEarly(x) PROVE KvIInv'
<1>1. PICK r \in Requests, f \in Files : r = x.req /\ f = op[r].file
  BY Sent
<1>2. /\ x \in Rpcs /\ x \in RpcsOf(r) /\ op[r].pc \in Sending
      /\ op[r].kind \in {"getattr", "read", "write"} /\ op[r] \in OpStates /\ RequestOK(r)
  BY <1>1, Sent
<1>3. /\ poll = None /\ rpc' = rpc \ {x} /\ early' = early \cup {r}
      /\ op[r].pc \in {"base", "init"} \/ (op[r].pc = "member" /\ x.table = "inode")
      /\ UNCHANGED <<inode, data, handler, completions, op, poll, fs, mixed, dirVars>>
  <2>1. x.write => x.table = "data"
    BY <1>2 DEF RequestOK, RpcOK
  <2>. QED
    BY <1>1, <2>1 DEF CompletedEarly, InBase, Uninitialised, tables, halVars
<1>4. /\ rpc' \subseteq Rpcs /\ RpcsOf(r)' = RpcsOf(r) \ {x}
      /\ \A q \in Requests : q # r => RpcsOf(q)' = RpcsOf(q)
  BY <1>1, <1>3, Removes
<1>5. PICK o : o = op[r]
  OBVIOUS
<1>6. Works(r, f, o)
  <2>1. op' = [op EXCEPT ![r] = o] /\ inode \in [Files -> Inodes \cup {None}]
        /\ data \in [Files -> Sizes \cup {None}]
    BY <1>3, <1>5 DEF KvIInv, KvTypes
  <2>2. OpOK(r)
    BY <1>2 DEF RequestOK
  <2>. QED
    BY <1>1, <1>2, <1>3, <1>4, <1>5, <2>1, <2>2 DEF Works, OpOK
<1>7. Advances(r, f)
  <2>1. op[r].kind = "write" /\ f \notin mixed => Progress(r, f)
    BY <1>1, <1>2, UnderWay DEF Mutations, Sending
  <2>2. op[r].kind = "write" /\ WritesOK(r, f) => WritesOK(r, f)'
    BY <1>2, <1>3, <1>4 DEF WritesOK
  <2>. QED
    BY <1>2, <1>3, <2>1, <2>2 DEF Advances, Mutations, Progress
<1>8. RpcOK(r)'
  BY <1>2, <1>3, <1>4 DEF RequestOK, RpcOK
<1>9. WriteOK(r)'
  <2>. SUFFICES ASSUME op[r].kind = "write" PROVE WriteOK(r)'
    BY <1>3 DEF WriteOK
  <2>1. WriteOK(r)
    BY <1>2 DEF RequestOK
  <2>2. \A v, w \in RpcsOf(r) : v.table = w.table => v = w
    BY <1>2 DEF RequestOK, RpcOK
  <2>3. op[r].pc \in {"base", "init"} => RpcsOf(r)' = {} /\ ~op[r].firstDone
    BY <1>2, <1>4, <2>1, <2>2 DEF WriteOK
  <2>4. \A v \in RpcsOf(r) : v.table = "inode" \/ v.table = "data"
    BY DEF KvIInv, KvTypes, RpcsOf, Rpcs
  <2>5. \A v, w \in RpcsOf(r)' : v = w
    BY <1>2, <1>3, <1>4, <2>2, <2>3, <2>4
  <2>6. op[r].firstDone => RpcsOf(r)' = {}
    BY <1>2, <1>4, <2>1 DEF WriteOK
  <2>. QED
    BY <1>2, <1>3, <2>3, <2>5, <2>6 DEF WriteOK
<1>10. PollOK(r)'
  BY <1>3, KvAssumption DEF PollOK
<1>. QED
  BY <1>6, <1>7, <1>8, <1>9, <1>10, WorkStep

LEMMA CompletedReadStep == ASSUME KvIInv, NEW x \in rpc, CompletedRead(x) PROVE KvIInv'
<1>1. PICK r \in Requests, f \in Files : r = x.req /\ f = op[r].file
  BY Sent
<1>2. /\ x \in RpcsOf(r) /\ op[r].pc \in Sending
      /\ op[r].kind \in {"getattr", "read"} /\ RequestOK(r)
  BY <1>1, Sent DEF CompletedRead
<1>3. PICK err \in BOOLEAN : Complete(r, err)
  BY <1>1 DEF CompletedRead
<1>4. poll = None /\ rpc' = rpc \ {x} /\ UNCHANGED <<inode, data, handler, poll, early, dirVars>>
  BY DEF CompletedRead, tables
<1>5. /\ rpc' \subseteq rpc /\ RpcsOf(r)' = RpcsOf(r) \ {x}
      /\ \A q \in Requests : q # r => RpcsOf(q)' = RpcsOf(q)
  BY <1>1, <1>4, Removes
<1>6. RpcsOf(r)' = {}
  BY <1>2, <1>5 DEF RequestOK, RpcOK
<1>7. Ends(r, f, err)
  <2>1. inode \in [Files -> Inodes \cup {None}] /\ data \in [Files -> Sizes \cup {None}]
    BY DEF KvIInv, KvTypes
  <2>. QED
    BY <1>1, <1>2, <1>3, <1>4, <1>5, <1>6, <2>1, Completes DEF Sending
<1>8. Settles(r, f)
  BY <1>2, <1>4 DEF Settles, Mutations
<1>. QED
  BY <1>7, <1>8, AnswerStep

LEMMA CompletedWriteStep == ASSUME KvIInv, NEW x \in rpc, CompletedWrite(x) PROVE KvIInv'
<1>1. PICK r \in Requests, f \in Files : r = x.req /\ f = op[r].file
  BY Sent
<1>2. /\ x \in Rpcs /\ x \in RpcsOf(r) /\ op[r].kind = "write" /\ op[r] \in OpStates /\ RequestOK(r)
      /\ op[r].pc = "constructed" \/ (op[r].pc \in {"member", "member_init"} /\ x.table # "inode")
  BY <1>1, Sent DEF CompletedWrite, Ready, InBase, Uninitialised, Sending
<1>3. /\ poll = None /\ x.st # "sent" /\ rpc' = rpc \ {x}
      /\ Done(r, x.st = "failed" \/ (~x.write /\ x.val = None), x.val)
      /\ UNCHANGED <<inode, data, handler, completions, early, fs, mixed, dirVars>>
  BY <1>1 DEF CompletedWrite, Ready, tables, halVars, ghosts
<1>4. /\ rpc' \subseteq Rpcs /\ RpcsOf(r)' = RpcsOf(r) \ {x}
      /\ \A q \in Requests : q # r => RpcsOf(q)' = RpcsOf(q)
  BY <1>1, <1>3, Removes
<1>5. /\ x.write <=> x.table = "data"
      /\ x.table = "inode" => x.val \in Inodes \cup {None}
      /\ x.write => x.val = None
      /\ x.table = "inode" \/ x.table = "data"
      /\ x.st = "ok" \/ x.st = "failed"
  BY <1>2, <1>3 DEF RequestOK, RpcOK, Rpcs
<1>6. PICK failed \in BOOLEAN : failed = (x.st = "failed" \/ (~x.write /\ x.val = None))
  OBVIOUS
<1>7. PICK i \in Inodes \cup {None} : i = IF x.val # None THEN x.val ELSE op[r].inode
  BY <1>2, <1>5 DEF OpStates
<1>8. PICK o \in OpStates : o = [op[r] EXCEPT !.err = @ \/ failed, !.inode = i, !.firstDone = TRUE]
  BY <1>2 DEF OpStates
<1>9. /\ o.err = (op[r].err \/ failed) /\ o.inode = i /\ o.firstDone = TRUE /\ o.pc = op[r].pc
      /\ o.kind = "write" /\ o.file = f /\ o.size = op[r].size
  BY <1>1, <1>2, <1>8 DEF OpStates
<1>10. /\ op' = [op EXCEPT ![r] = o] /\ op'[r] = o
       /\ poll' = IF op[r].firstDone THEN r ELSE None
  <2>1. op \in [Requests -> OpStates]
    BY DEF KvIInv, KvTypes
  <2>2. op' = [op EXCEPT ![r].err = @ \/ failed, ![r].inode = i, ![r].firstDone = TRUE]
    BY <1>3, <1>6, <1>7 DEF Done
  <2>3. op' = [op EXCEPT ![r] = o]
    BY <1>8, <2>1, <2>2
  <2>. QED
    BY <1>3, <2>1, <2>3 DEF Done
<1>11. Works(r, f, o)
  <2>1. /\ inode \in [Files -> Inodes \cup {None}] /\ data \in [Files -> Sizes \cup {None}]
    BY DEF KvIInv, KvTypes
  <2>. QED
    BY <1>1, <1>2, <1>3, <1>4, <1>9, <1>10, <2>1, KvAssumption DEF Works
<1>12. WriteOK(r) /\ \A v, w \in RpcsOf(r) : v.table = w.table => v = w
  BY <1>2 DEF RequestOK, RpcOK
<1>13. Advances(r, f)
  <2>1. f \notin mixed => Progress(r, f)
    BY <1>1, <1>2, UnderWay DEF Mutations
  <2>2. ASSUME WritesOK(r, f) PROVE WritesOK(r, f)'
    <3>1. /\ inode[f] = fs[f].inode
          /\ \A z \in RpcsOf(r)' :
               /\ z.table = "data" => data[f] = IF z.st = "ok" THEN op[r].size ELSE fs[f].data
               /\ z.table = "inode" /\ z.st = "ok" => z.val = fs[f].inode
      BY <1>4, <2>2 DEF WritesOK
    <3>2. ASSUME r \notin early, ~o.err, \A z \in RpcsOf(r)' : z.table # "data"
          PROVE  data[f] = op[r].size
      <4>1. ~failed /\ ~op[r].err
        BY <1>9, <3>2
      <4>2. CASE x.table = "data"
        BY <1>2, <1>5, <1>6, <2>2, <4>1, <4>2 DEF WritesOK
      <4>3. CASE x.table # "data"
        <5>1. \A z \in RpcsOf(r) : z.table # "data"
          BY <1>4, <3>2, <4>3
        <5>. QED
          BY <1>2, <2>2, <3>2, <4>1, <5>1 DEF WritesOK, Sending
      <4>. QED
        BY <4>2, <4>3
    <3>3. ASSUME r \notin early, ~o.err, \A z \in RpcsOf(r)' : z.table # "inode"
          PROVE  i = fs[f].inode /\ fs[f].inode # None
      <4>1. ~failed /\ ~op[r].err
        BY <1>9, <3>3
      <4>2. CASE x.table = "inode"
        BY <1>2, <1>5, <1>6, <1>7, <2>2, <4>1, <4>2 DEF WritesOK
      <4>3. CASE x.table # "inode"
        <5>1. \A z \in RpcsOf(r) : z.table # "inode"
          BY <1>4, <3>3, <4>3
        <5>. QED
          BY <1>2, <1>5, <1>7, <2>2, <3>3, <4>1, <4>3, <5>1 DEF WritesOK, Sending
      <4>. QED
        BY <4>2, <4>3
    <3>. QED
      BY <1>2, <1>3, <1>9, <1>10, <3>1, <3>2, <3>3 DEF WritesOK
  <2>. QED
    BY <1>2, <1>9, <1>10, <2>1, <2>2 DEF Advances, Mutations, Progress
<1>14. RpcOK(r)'
  BY <1>2, <1>4, <1>9, <1>10 DEF RequestOK, RpcOK
<1>15. WriteOK(r)'
  <2>1. \A v \in RpcsOf(r) : v.table = "inode" \/ v.table = "data"
    BY DEF KvIInv, KvTypes, RpcsOf, Rpcs
  <2>2. \A v, w \in RpcsOf(r)' : v = w
    BY <1>2, <1>4, <1>12, <2>1
  <2>3. r \in early => RpcsOf(r)' = {}
    BY <1>2, <1>4, <1>12 DEF WriteOK
  <2>4. ASSUME r \notin early, ~o.err, \A z \in RpcsOf(r)' : z.table # "inode" PROVE i # None
    <3>1. ~failed /\ ~op[r].err
      BY <1>9, <2>4
    <3>2. CASE x.table = "inode"
      BY <1>5, <1>6, <1>7, <3>1, <3>2
    <3>3. CASE x.table # "inode"
      <4>1. \A z \in RpcsOf(r) : z.table # "inode"
        BY <1>4, <2>4, <3>3
      <4>. QED
        BY <1>2, <1>5, <1>7, <1>12, <2>4, <3>1, <3>3, <4>1 DEF WriteOK
    <3>. QED
      BY <3>2, <3>3
  <2>. QED
    BY <1>2, <1>3, <1>9, <1>10, <2>2, <2>3, <2>4 DEF WriteOK
<1>16. PollOK(r)'
  <2>. SUFFICES ASSUME op[r].firstDone PROVE PollOK(r)'
    BY <1>10, KvAssumption DEF PollOK
  <2>1. r \notin early /\ RpcsOf(r)' = {}
    BY <1>2, <1>4, <1>12 DEF WriteOK
  <2>. QED
    BY <1>2, <1>3, <1>9, <1>10, <2>1 DEF PollOK
<1>. QED
  BY <1>11, <1>13, <1>14, <1>15, <1>16, WorkStep

LEMMA FinishStep == ASSUME KvIInv, NEW r \in Requests, Finish(r) PROVE KvIInv'
<1>1. poll = r /\ poll' = None /\ UNCHANGED <<data, handler, rpc, early, dirVars>>
  BY DEF Finish
<1>2. /\ RequestOK(r) /\ op[r].kind = "write" /\ op[r].pc \in {"member", "member_init", "constructed"}
      /\ RpcsOf(r) = {} /\ r \notin early
  BY <1>1 DEF KvIInv, AnswersOK, RequestOK, PollOK
<1>3. PICK f \in Files : f = op[r].file
  BY <1>2, UnderWay
<1>4. /\ inode \in [Files -> Inodes \cup {None}] /\ data \in [Files -> Sizes \cup {None}]
      /\ fs \in [Files -> FileStates] /\ (f \notin mixed => Progress(r, f))
      /\ op[r].inode \in Inodes \cup {None} /\ op[r].size \in Sizes
  BY <1>2, <1>3, UnderWay DEF Mutations, OpStates
<1>5. ~op[r].err => op[r].inode \in Inodes
  BY <1>2, <1>4 DEF RequestOK, WriteOK
<1>6. PICK i : i = [op[r].inode EXCEPT !.size = op[r].size]
  OBVIOUS
<1>7. ~op[r].err => i \in Inodes /\ (op[r].inode.size = op[r].size => i = op[r].inode)
  BY <1>4, <1>5, <1>6 DEF Inodes
<1>8. PICK err \in BOOLEAN :
        /\ Complete(r, err) /\ (~err => ~op[r].err)
        /\ inode' = IF err \/ op[r].inode.size = op[r].size THEN inode ELSE [inode EXCEPT ![f] = i]
  BY <1>3, <1>6 DEF Finish
<1>9. /\ inode' \in [Files -> Inodes \cup {None}] /\ data' \in [Files -> Sizes \cup {None}]
      /\ \A g \in Files : g # f => inode'[g] = inode[g] /\ data'[g] = data[g]
  BY <1>1, <1>4, <1>7, <1>8
<1>10. Ends(r, f, err)
  <2>1. \A q \in Requests : RpcsOf(q)' = RpcsOf(q)
    BY <1>1 DEF RpcsOf
  <2>. QED
    BY <1>1, <1>2, <1>3, <1>8, <1>9, <2>1, Completes
<1>11. Settles(r, f)
  <2>1. SUFFICES ASSUME f \notin mixed' PROVE Exact(f)'
    BY <1>2 DEF Settles, Mutations
  <2>2. f \notin mixed /\ ~err
    BY <1>2, <1>3, <1>8, <2>1 DEF Complete, Account
  <2>3. fs' = [fs EXCEPT ![f] = Effect(op[r], @)]
    BY <1>3, <1>8, <2>2 DEF Complete, Account
  <2>4. /\ inode[f] = fs[f].inode /\ data[f] = op[r].size
        /\ op[r].inode = fs[f].inode /\ fs[f].inode # None
    BY <1>2, <1>4, <1>8, <2>2 DEF Progress, WritesOK, Sending
  <2>5. Effect(op[r], fs[f]) = [inode |-> i, data |-> op[r].size]
    BY <1>2, <1>6, <2>4 DEF Effect
  <2>. QED
    BY <1>1, <1>4, <1>7, <1>8, <2>2, <2>3, <2>4, <2>5 DEF Exact
<1>. QED
  BY <1>10, <1>11, AnswerStep

-----------------------------------------------------------------------------
(* Delivery and the return of EWOULDBLOCK. *)

LEMMA OverlapsMutates ==
  ASSUME KvIInv, NEW f \in Files
  PROVE  Overlaps(f) <=> \E r \in Requests : Mutates(r, f)
<1>1. ASSUME NEW r \in Requests PROVE InProgress(r) <=> op[r].pc # "none"
  <2>1. /\ op[r].pc # "none" <=> handler[r] \in {"running", "deferred"} /\ completions[r] = 0
        /\ handler[r] \in {"queued", "running", "handled", "deferred"} /\ completions[r] \in 0..1
    BY DEF KvIInv, KvTypes, AnswersOK, RequestOK, OpOK
  <2>. QED
    BY <2>1 DEF InProgress, Answered
<1>. QED
  BY <1>1 DEF Overlaps, Mutates

LEMMA DeliverStep ==
  ASSUME KvIInv, NEW r \in Requests, NEW k \in Kinds, NEW f \in Files, NEW s \in Sizes \cup {None},
         Deliver(r, k, f, s)
  PROVE  KvIInv'
<1>1. /\ handler[r] = "queued" /\ handler' = [handler EXCEPT ![r] = "running"]
      /\ k = "write" => s # None
      /\ mixed' = IF k \in Mutations /\ Overlaps(f) THEN mixed \cup {f} ELSE mixed
      /\ UNCHANGED <<inode, data, completions, rpc, poll, early, fs, dirVars>>
  BY DEF Deliver, tables
<1>2. RequestOK(r) /\ op \in [Requests -> OpStates]
  BY DEF KvIInv, KvTypes, AnswersOK
<1>3. op[r].pc = "none" /\ completions[r] = 0 /\ r \notin early /\ RpcsOf(r) = {} /\ poll # r
  BY <1>1, <1>2 DEF RequestOK, OpOK, RpcOK, PollOK, Sending
<1>4. PICK o \in OpStates : o = [NoOp EXCEPT !.kind = k, !.file = f, !.size = s, !.pc = "start",
                                             !.left = {"inode", "data"}]
  BY DEF NoOp, OpStates, Kinds
<1>5. /\ o.kind = k /\ o.file = f /\ o.size = s /\ o.pc = "start" /\ o.left = {"inode", "data"}
      /\ o.firstDone = FALSE /\ o.err = FALSE
  BY <1>4 DEF NoOp
<1>6. op' = [op EXCEPT ![r] = o] /\ op'[r] = o /\ \A q \in Requests : q # r => op'[q] = op[q]
  BY <1>2, <1>4 DEF Deliver
<1>7. KvTypes'
  BY <1>1, <1>6 DEF KvIInv, KvTypes
<1>8. \A q \in Requests : RpcsOf(q)' = RpcsOf(q)
  BY <1>1 DEF RpcsOf
<1>9. RequestOK(r)'
  <2>1. handler'[r] = "running" /\ completions'[r] = 0
    BY <1>1, <1>3 DEF KvIInv, KvTypes
  <2>2. OpOK(r)'
    BY <1>1, <1>5, <1>6, <2>1 DEF OpOK
  <2>3. RpcOK(r)' /\ PollOK(r)'
    BY <1>1, <1>3, <1>8 DEF RpcOK, PollOK
  <2>4. WriteOK(r)'
    BY <1>1, <1>3, <1>5, <1>6, <1>8 DEF WriteOK
  <2>. QED
    BY <2>2, <2>3, <2>4 DEF RequestOK
<1>10. \A q \in Requests : q # r => Apart(q)
  BY <1>1, <1>6, <1>8 DEF Apart
<1>11. AnswersOK'
  <2>1. \A q \in Requests : q # r => handler'[q] = handler[q] /\ completions'[q] = completions[q]
    BY <1>1 DEF KvIInv, KvTypes
  <2>. QED
    BY <1>9, <1>10, <2>1, QuietRequest DEF KvIInv, AnswersOK
<1>12. \A g \in Files : SameFile(g) /\ FileOK(g) /\ (g \in mixed => g \in mixed')
  BY <1>1 DEF SameFile, KvIInv, FilesOK
<1>13. \A g \in Files : ~Mutates(r, g) /\ (Mutates(r, g)' <=> g = f /\ k \in Mutations)
  BY <1>3, <1>5, <1>6 DEF Mutates
<1>14. ASSUME NEW g \in Files, g # f \/ k \notin Mutations PROVE FileOK(g)'
  <2>1. \A q \in Requests : Apart(q) \/ (~Mutates(q, g) /\ ~Mutates(q, g)')
    BY <1>10, <1>13, <1>14
  <2>. QED
    BY <1>12, <2>1, QuietFile
<1>15. ASSUME k \in Mutations PROVE FileOK(f)'
  <2>. SUFFICES ASSUME f \notin mixed' PROVE FileOK(f)'
    BY DEF FileOK
  <2>1. f \notin mixed /\ \A q \in Requests : ~Mutates(q, f)
    BY <1>1, <1>15, OverlapsMutates
  <2>2. Exact(f) /\ Exact(f)'
    BY <1>1, <1>12, <2>1 DEF FileOK, Exact
  <2>3. \A q \in Requests : q # r => ~Mutates(q, f)'
    BY <1>10, <2>1 DEF Apart, Mutates
  <2>4. Progress(r, f)'
    <3>1. UnlinkOK(r, f)'
      BY <1>5, <1>6, <2>2 DEF UnlinkOK, Exact
    <3>2. WritesOK(r, f)'
      BY <1>3, <1>5, <1>6, <1>8, <2>2 DEF WritesOK, Exact, Sending
    <3>. QED
      BY <1>5, <1>6, <2>2, <3>1, <3>2 DEF Progress
  <2>. QED
    BY <1>13, <1>15, <2>3, <2>4 DEF FileOK
<1>16. DirOK'
  BY <1>1, QuietDir DEF KvIInv
<1>. QED
  BY <1>7, <1>11, <1>14, <1>15, <1>16 DEF KvIInv, FilesOK

LEMMA ReturnDeferredStep == ASSUME KvIInv, NEW r \in Requests, ReturnDeferred(r) PROVE KvIInv'
<1>1. /\ handler[r] = "running" /\ handler' = [handler EXCEPT ![r] = "deferred"]
      /\ UNCHANGED <<inode, data, completions, op, rpc, poll, early, fs, mixed, dirVars>>
  BY DEF ReturnDeferred, tables, ghosts
<1>2. KvTypes'
  BY <1>1 DEF KvIInv, KvTypes
<1>3. \A q \in Requests : Apart(q)
  BY <1>1 DEF Apart, RpcsOf
<1>4. AnswersOK'
  <2>1. RequestOK(r)'
    <3>1. RequestOK(r) /\ handler'[r] = "deferred" /\ RpcsOf(r)' = RpcsOf(r)
      BY <1>1, <1>3 DEF KvIInv, KvTypes, AnswersOK, Apart
    <3>2. OpOK(r)'
      BY <1>1, <3>1 DEF RequestOK, OpOK
    <3>3. RpcOK(r)' /\ WriteOK(r)' /\ PollOK(r)'
      BY <1>1, <3>1 DEF RequestOK, RpcOK, WriteOK, PollOK
    <3>. QED
      BY <3>2, <3>3 DEF RequestOK
  <2>2. \A q \in Requests : q # r => handler'[q] = handler[q] /\ completions'[q] = completions[q]
    BY <1>1 DEF KvIInv, KvTypes
  <2>. QED
    BY <1>3, <2>1, <2>2, QuietRequest DEF KvIInv, AnswersOK
<1>5. FilesOK'
  <2>1. \A g \in Files : SameFile(g) /\ FileOK(g) /\ (g \in mixed => g \in mixed')
    BY <1>1 DEF SameFile, KvIInv, FilesOK
  <2>. QED
    BY <1>3, <2>1, QuietFile DEF FilesOK
<1>6. DirOK'
  BY <1>1, QuietDir DEF KvIInv
<1>. QED
  BY <1>2, <1>4, <1>5, <1>6 DEF KvIInv

-----------------------------------------------------------------------------
(* Directories. *)

LEMMA TodoTail ==
  ASSUME NEW T \in Seq(Files), NEW P, TodoOK(T, P), T # <<>>
  PROVE  /\ Head(T) \in Files /\ Head(T) \notin P /\ Tail(T) \in Seq(Files)
         /\ TodoOK(Tail(T), P \cup {Head(T)}) /\ TodoOK(Tail(T), P)
<1>1. /\ Len(T) \in Nat /\ Len(T) > 0 /\ Head(T) = T[1] /\ Head(T) \in Files /\ Tail(T) \in Seq(Files)
      /\ Len(Tail(T)) = Len(T) - 1 /\ \A i \in 1..Len(Tail(T)) : Tail(T)[i] = T[i + 1]
  OBVIOUS
<1>2. \A i \in 1..Len(Tail(T)) : i + 1 \in 1..Len(T) /\ i + 1 # 1
  BY <1>1
<1>. QED
  BY <1>1, <1>2 DEF TodoOK

LEMMA Appended ==
  ASSUME NEW L \in Seq(Entries), NEW e \in Entries
  PROVE  /\ Append(L, e) \in Seq(Entries) /\ Len(Append(L, e)) = Len(L) + 1 /\ Len(L) \in Nat
         /\ \A i \in 1..Len(L) : Append(L, e)[i] = L[i]
         /\ Append(L, e)[Len(L) + 1] = e
         /\ \A i \in 1..(Len(L) + 1) : i \in 1..Len(L) \/ i = Len(L) + 1
  OBVIOUS

LEMMA ListedAppend ==
  ASSUME NEW L \in Seq(Entries), NEW P, NEW C, ListedOK(L, P, C), NEW e \in Entries,
         e.off = Len(L) + 1, e.file \notin P
  PROVE  ListedOK(Append(L, e), P \cup {e.file}, C)
<1>1. /\ Len(Append(L, e)) = Len(L) + 1 /\ Len(L) \in Nat
      /\ \A i \in 1..Len(L) : Append(L, e)[i] = L[i]
      /\ Append(L, e)[Len(L) + 1] = e
      /\ \A i \in 1..(Len(L) + 1) : i \in 1..Len(L) \/ i = Len(L) + 1
  BY Appended
<1>2. \A i \in 1..Len(L) : L[i].file # e.file
  BY DEF ListedOK
<1>3. \A i \in 1..Len(Append(L, e)) : Append(L, e)[i].off = i
  BY <1>1 DEF ListedOK
<1>4. \A i, j \in 1..Len(Append(L, e)) : Append(L, e)[i].file = Append(L, e)[j].file => i = j
  BY <1>1, <1>2 DEF ListedOK
<1>5. {Append(L, e)[i].file : i \in 1..Len(Append(L, e))} = {L[i].file : i \in 1..Len(L)} \cup {e.file}
  BY <1>1
<1>. QED
  BY <1>3, <1>4, <1>5 DEF ListedOK

LEMMA OpendirStep == ASSUME DirOK, Opendir PROVE DirOK'
<1>1. PICK S : S = {f \in Files : inode[f] # None}
  OBVIOUS
<1>2. IsFiniteSet(S) /\ Cardinality(S) \in Nat
  BY <1>1, KvAssumption, FS_Subset, FS_CardinalityType
<1>3. PICK s \in SetToSeqs(S) : dir' = [Closed EXCEPT !.pc = "open", !.todo = s]
  BY <1>1 DEF Opendir
<1>4. /\ s \in [1..Cardinality(S) -> S]
      /\ \A i, j \in 1..Cardinality(S) : i # j => s[i] # s[j]
  BY <1>3 DEF SetToSeqs
<1>5. s \in Seq(Files) /\ Len(s) = Cardinality(S)
  <2>1. s \in Seq(S)
    BY <1>2, <1>4
  <2>2. S \subseteq Files
    BY <1>1
  <2>. QED
    BY <1>2, <1>4, <2>1, <2>2
<1>6. dir' \in DirRecords
  <2>1. dir' = [pc |-> "open", todo |-> s, plus |-> FALSE, off |-> 0, from |-> 0, listed |-> <<>>,
                cut |-> {}, passed |-> {}]
    BY <1>3 DEF Closed
  <2>2. <<>> \in Seq(Entries)
    OBVIOUS
  <2>. QED
    BY <1>5, <2>1, <2>2 DEF DirRecords
<1>7. /\ dir'.listed = <<>> /\ dir'.todo = s /\ dir'.passed = {} /\ dir'.cut = {} /\ dir'.pc = "open"
      /\ dir'.from = 0
  BY <1>3 DEF Closed
<1>8. TodoOK(s, {}) /\ ListedOK(<<>>, {}, {})
  BY <1>4, <1>5 DEF TodoOK, ListedOK
<1>9. ListingOK'
  BY <1>6, <1>7, <1>8 DEF ListingOK
<1>10. dir.pc = "closed" /\ iov' = iov /\ copy' = copy
  BY DEF Opendir
<1>11. EntriesIntact(iov, <<>>, 0)
  BY DEF EntriesIntact
<1>12. ReplyOK'
  BY <1>7, <1>10, <1>11 DEF DirOK, ReplyOK
<1>. QED
  BY <1>9, <1>12 DEF DirOK

LEMMA ReaddirStep ==
  ASSUME DirOK, NEW ends \in Iovecs, NEW plus \in BOOLEAN, Readdir(ends, plus) PROVE DirOK'
<1>1. PICK l, n : l = dir.listed /\ n = Len(l)
  OBVIOUS
<1>2. /\ dir \in DirRecords /\ ListedOK(l, dir.passed, dir.cut) /\ TodoOK(dir.todo, dir.passed)
      /\ l \in Seq(Entries)
  BY <1>1 DEF DirOK, ListingOK, DirRecords
<1>3. n \in Nat /\ (l # <<>> => Last(l).off = n) /\ (l = <<>> => n = 0)
  <2>1. n \in Nat /\ (l # <<>> => n \in 1..n) /\ (l = <<>> => n = 0)
    BY <1>1, <1>2
  <2>. QED
    BY <1>1, <1>2, <2>1 DEF ListedOK, Last
<1>4. dir' = [dir EXCEPT !.pc = "reading", !.plus = plus, !.from = n, !.off = n + 1]
  <2>1. PICK k : k = 1 + IF l = <<>> THEN 0 ELSE Last(l).off
    OBVIOUS
  <2>2. k = n + 1
    BY <1>3, <2>1
  <2>3. dir' = [dir EXCEPT !.pc = "reading", !.plus = plus, !.from = n, !.off = k]
    BY <1>1, <2>1 DEF Readdir
  <2>. QED
    BY <2>2, <2>3
<1>5. /\ dir' \in DirRecords /\ dir'.listed = l /\ dir'.passed = dir.passed /\ dir'.pc = "reading"
      /\ dir'.cut = dir.cut /\ dir'.todo = dir.todo /\ dir'.off = n + 1 /\ dir'.from = n
  <2>1. n + 1 \in Nat
    BY <1>3
  <2>. QED
    BY <1>1, <1>2, <1>3, <1>4, <2>1 DEF DirRecords
<1>6. ListingOK'
  BY <1>1, <1>2, <1>5 DEF ListingOK
<1>7. dir.pc = "open" /\ iov' = iov_init(ends) /\ copy' = copy
  BY DEF Readdir
<1>8. IsIov(iov') /\ Pos(iov') = 0 /\ Written(iov') = 0
  BY <1>7, IovStarts, IovecsAssumption DEF Ascending
<1>9. EntriesIntact(iov', l, n)
  BY <1>1, <1>3 DEF EntriesIntact
<1>10. ReplyOK'
  BY <1>5, <1>7, <1>8, <1>9 DEF DirOK, ReplyOK
<1>. QED
  BY <1>6, <1>10 DEF DirOK

LEMMA ReaddirEntryStep == ASSUME DirOK, ReaddirEntry PROVE DirOK'
<1>1. PICK e, len, at : e = Head(dir.todo) /\ len = DirentLen(e, dir.plus) /\ at = Written(iov)
  OBVIOUS
<1>2. /\ dir \in DirRecords /\ ListedOK(dir.listed, dir.passed, dir.cut) /\ TodoOK(dir.todo, dir.passed)
      /\ dir.off = Len(dir.listed) + 1 /\ dir.todo # <<>> /\ dir.pc = "reading" /\ iov' = iov
      /\ dir.todo \in Seq(Files) /\ dir.plus \in BOOLEAN /\ dir.off \in Nat
  BY DEF DirOK, ListingOK, DirRecords, ReaddirEntry
<1>3. /\ e \in Files /\ e \notin dir.passed /\ Tail(dir.todo) \in Seq(Files)
      /\ TodoOK(Tail(dir.todo), dir.passed \cup {e}) /\ TodoOK(Tail(dir.todo), dir.passed)
  BY <1>1, <1>2, TodoTail
<1>4. len \in Nat
  BY <1>1, <1>2, <1>3, IovecsAssumption
<1>5. IsIov(iov) /\ EntriesIntact(iov, dir.listed, dir.from) /\ copy = NoCopy /\ Pos(iov) = Written(iov)
  BY <1>2 DEF DirOK, ReplyOK
<1>6. CASE Fits(iov, len)
  <2>1. PICK x : x = [file |-> e, off |-> dir.off, len |-> len, at |-> at]
    OBVIOUS
  <2>2. /\ dir' = [dir EXCEPT !.todo = Tail(@), !.pc = "copying"]
        /\ copy' = [ent |-> x, rem |-> len]
    BY <1>1, <1>6, <2>1 DEF ReaddirEntry
  <2>3. /\ dir' \in DirRecords /\ dir'.listed = dir.listed /\ dir'.passed = dir.passed
        /\ dir'.cut = dir.cut /\ dir'.todo = Tail(dir.todo) /\ dir'.off = dir.off
        /\ dir'.pc = "copying" /\ dir'.from = dir.from
    BY <1>2, <1>3, <2>2 DEF DirRecords
  <2>4. at \in Nat
    BY <1>1, <1>5, IovNumbers
  <2>5. x \in Entries /\ x.file = e /\ x.off = dir.off /\ x.len = len /\ x.at = at
    BY <1>2, <1>3, <1>4, <2>1, <2>4 DEF Entries
  <2>6. copy'.ent = x /\ copy'.rem = len /\ copy' \in [ent : Entries, rem : Nat]
    BY <1>4, <2>2, <2>5
  <2>7. ListingOK'
    BY <1>2, <1>3, <2>3, <2>5, <2>6 DEF ListingOK
  <2>8. CopyOK(iov, copy')
    BY <1>1, <1>4, <1>5, <1>6, <2>4, <2>5, <2>6 DEF CopyOK, IsIov, Fits
  <2>9. ReplyOK'
    BY <1>2, <1>5, <2>3, <2>8 DEF ReplyOK
  <2>. QED
    BY <2>7, <2>9 DEF DirOK
<1>7. CASE ~Fits(iov, len)
  <2>1. /\ dir' = [dir EXCEPT !.todo = Tail(@), !.pc = "full", !.cut = @ \cup {e}, !.passed = @ \cup {e}]
        /\ copy' = copy
    BY <1>1, <1>7 DEF ReaddirEntry
  <2>2. /\ dir' \in DirRecords /\ dir'.listed = dir.listed /\ dir'.pc = "full"
        /\ dir'.passed = dir.passed \cup {e} /\ dir'.cut = dir.cut \cup {e}
        /\ dir'.todo = Tail(dir.todo) /\ dir'.from = dir.from
    BY <1>2, <1>3, <2>1 DEF DirRecords
  <2>3. ListedOK(dir.listed, dir.passed \cup {e}, dir.cut \cup {e})
    BY <1>2 DEF ListedOK
  <2>4. ListingOK'
    BY <1>3, <2>2, <2>3 DEF ListingOK
  <2>5. ReplyOK'
    BY <1>2, <1>5, <2>1, <2>2 DEF ReplyOK
  <2>. QED
    BY <2>4, <2>5 DEF DirOK
<1>. QED
  BY <1>6, <1>7

(* What a round of the copy loop of iov_write_buf does: it moves forward by what it copied, and    *)
(* leaves what was written before alone.  There is always an iovec to go on in, and it is the one  *)
(* that holds the next unit, unless it is full or empty.                                           *)
LEMMA RoundCopies ==
  ASSUME NEW v, IsIov(v), NEW e, NEW rem \in Nat, rem # 0, Pos(v) + rem <= v.total,
         NEW w, w = CopyRound(v, e, rem), NEW n, n = to_cpy(v, rem)
  PROVE  /\ v.idx \in 1..Len(v.ends)
         /\ n \in Nat /\ n <= rem
         /\ n = rem \/ Pos(v) + n = Before(v.ends, v.idx + 1)
         /\ Pos(v) + n <= Before(v.ends, v.idx + 1)
         /\ IsIov(w) /\ w.ends = v.ends /\ w.total = v.total /\ w.unused = v.unused
         /\ Pos(w) = Pos(v) + n
         /\ \A u \in 1..v.total : u <= Pos(v) => w.mem[u] = v.mem[u]
         /\ \A u \in 1..v.total : u > Pos(v) /\ u <= Pos(v) + n => w.mem[u] = <<e, u - Pos(v)>>
<1>1. /\ v.ends \in Seq(Nat) /\ Ascending(v.ends) /\ v.total = Before(v.ends, Len(v.ends) + 1)
      /\ v.idx \in 1..(Len(v.ends) + 1) /\ v.at \in Nat /\ DOMAIN v.mem = 1..v.total
      /\ v.at = 0 \/ (v.idx <= Len(v.ends) /\ Pos(v) < Before(v.ends, v.idx + 1))
      /\ v.unused \in Nat /\ v.unused <= v.total
  BY DEF IsIov
<1>2. PICK N \in Nat : N = Len(v.ends)
  BY <1>1
<1>3. /\ \A i \in 1..(N + 1) : Before(v.ends, i) \in Nat
      /\ \A i, j \in 1..(N + 1) : i <= j => Before(v.ends, i) <= Before(v.ends, j)
  BY <1>1, <1>2, BeforeAscends
<1>4. PICK b \in Nat : b = Before(v.ends, v.idx) /\ Pos(v) = b + v.at
  BY <1>1, <1>2, <1>3 DEF Pos
<1>5. v.idx \in 1..N /\ v.idx + 1 \in 1..(N + 1) /\ v.total \in Nat
  <2>1. v.total \in Nat
    BY <1>1, <1>2, <1>3
  <2>2. v.idx = N + 1 => Pos(v) = v.total
    BY <1>1, <1>2, <1>3, <1>4
  <2>3. v.idx # N + 1
    BY <2>1, <2>2
  <2>. QED
    BY <1>1, <1>2, <2>1, <2>3
<1>6. PICK c \in Nat : c = Before(v.ends, v.idx + 1) /\ b <= c /\ b + v.at <= c /\ c <= v.total
  <2>1. v.idx <= v.idx + 1 /\ v.idx + 1 <= N + 1 /\ N + 1 \in 1..(N + 1) /\ v.idx \in 1..(N + 1)
    BY <1>2, <1>5
  <2>2. PICK c \in Nat : c = Before(v.ends, v.idx + 1)
    BY <1>3, <1>5
  <2>3. b <= c /\ c <= v.total
    BY <1>1, <1>2, <1>3, <1>4, <1>5, <2>1, <2>2
  <2>4. b + v.at <= c
    BY <1>1, <1>4, <2>2, <2>3
  <2>. QED
    BY <2>2, <2>3, <2>4
<1>7. iov_len(v) = c - b
  BY <1>4, <1>6 DEF iov_len
<1>8. /\ n \in Nat /\ n <= rem /\ n <= c - b - v.at /\ (n = rem \/ n = c - b - v.at)
  <2>1. PICK d \in Nat : d = c - b - v.at
    BY <1>1, <1>6
  <2>2. n = Min({rem, d})
    BY <1>7, <2>1 DEF to_cpy
  <2>3. \E x \in {rem, d} : \A y \in {rem, d} : x <= y
    BY <2>1
  <2>4. n \in {rem, d} /\ \A y \in {rem, d} : n <= y
    BY <2>2, <2>3 DEF Min
  <2>. QED
    BY <2>1, <2>4
<1>9. PICK m : /\ m = [u \in 1..v.total |-> IF u > b + v.at /\ u <= b + v.at + n
                                              THEN <<e, u - (b + v.at)>> ELSE v.mem[u]]
               /\ m = Copied(v, e, rem)
  BY <1>1, <1>4 DEF Copied
<1>10. PICK i, a : /\ w = [v EXCEPT !.idx = i, !.at = a, !.mem = m]
                   /\ IF v.at + n = c - b THEN i = v.idx + 1 /\ a = 0 ELSE i = v.idx /\ a = v.at + n
  <2>1. CASE v.at + n = c - b
    BY <1>7, <1>9, <2>1 DEF CopyRound
  <2>2. CASE v.at + n # c - b
    <3>1. w = [v EXCEPT !.at = v.at + n, !.mem = m]
      BY <1>7, <1>9, <2>2 DEF CopyRound
    <3>2. w = [v EXCEPT !.idx = v.idx, !.at = v.at + n, !.mem = m]
      BY <3>1 DEF IsIov
    <3>. QED
      BY <2>2, <3>2
  <2>. QED
    BY <2>1, <2>2
<1>11. w = [ends |-> v.ends, idx |-> i, at |-> a, total |-> v.total, unused |-> v.unused, mem |-> m]
  BY <1>10 DEF IsIov
<1>12. /\ i \in 1..(N + 1) /\ a \in Nat /\ Before(v.ends, i) + a = b + v.at + n
       /\ a = 0 \/ (i <= N /\ Before(v.ends, i) + a < Before(v.ends, i + 1))
  <2>1. CASE v.at + n = c - b
    <3>1. i = v.idx + 1 /\ a = 0
      BY <1>10, <2>1
    <3>2. PICK q \in Nat : q = v.at /\ q + n = c - b /\ n \in Nat
      BY <1>1, <1>8, <2>1
    <3>3. c + 0 = b + q + n
      BY <3>2
    <3>. QED
      BY <1>5, <1>6, <3>1, <3>2, <3>3
  <2>2. CASE v.at + n # c - b
    <3>1. i = v.idx /\ a = v.at + n /\ a \in Nat /\ v.idx \in 1..(N + 1) /\ v.idx <= N
      <4>1. i = v.idx /\ a = v.at + n
        BY <1>10, <2>2
      <4>2. v.at + n \in Nat
        BY <1>1, <1>8
      <4>3. v.idx \in 1..(N + 1) /\ v.idx <= N
        BY <1>5
      <4>. QED
        BY <4>1, <4>2, <4>3
    <3>2. b + (v.at + n) < c
      <4>1. PICK q \in Nat : q = v.at
        BY <1>1
      <4>2. n <= c - b - q /\ q + n # c - b
        BY <1>8, <2>2, <4>1
      <4>3. n \in Nat /\ b + (q + n) < c
        BY <1>8, <4>2
      <4>. QED
        BY <4>1, <4>3
    <3>3. b + a = b + v.at + n
      BY <1>1, <1>8, <3>1
    <3>. QED
      BY <1>4, <1>6, <3>1, <3>2, <3>3
  <2>. QED
    BY <2>1, <2>2
<1>13. Pos(w) = Pos(v) + n
  BY <1>4, <1>11, <1>12 DEF Pos
<1>14. IsIov(w)
  <2>1. DOMAIN m = 1..v.total
    BY <1>9
  <2>. QED
    BY <1>1, <1>2, <1>11, <1>12, <2>1 DEF IsIov, Pos
<1>15. /\ \A u \in 1..v.total : u <= Pos(v) => m[u] = v.mem[u]
       /\ \A u \in 1..v.total : u > Pos(v) /\ u <= Pos(v) + n => m[u] = <<e, u - Pos(v)>>
  <2>1. PICK p \in Nat : p = b + v.at /\ Pos(v) = p
    BY <1>1, <1>4
  <2>2. m = [u \in 1..v.total |-> IF u > p /\ u <= p + n THEN <<e, u - p>> ELSE v.mem[u]]
    BY <1>9, <2>1
  <2>3. \A u \in 1..v.total : u <= p => m[u] = v.mem[u]
    <3>1. \A u \in 1..v.total : u <= p => ~(u > p)
      BY <1>5
    <3>. QED
      BY <2>2, <3>1
  <2>4. \A u \in 1..v.total : u > p /\ u <= p + n => m[u] = <<e, u - p>>
    BY <2>2
  <2>. QED
    BY <2>1, <2>3, <2>4
<1>16. (n = rem \/ Pos(v) + n = c) /\ Pos(v) + n <= c
  <2>1. PICK q \in Nat : q = v.at
    BY <1>1
  <2>2. n \in Nat /\ n <= c - b - q /\ (n = rem \/ n = c - b - q) /\ Pos(v) = b + q
    BY <1>4, <1>8, <2>1
  <2>. QED
    BY <2>2
<1>. QED
  BY <1>2, <1>5, <1>6, <1>8, <1>11, <1>13, <1>14, <1>15, <1>16

(* The entry that is being copied has room in the iovecs. *)
LEMMA CopyStaysInside ==
  ASSUME NEW v, IsIov(v), NEW c, CopyOK(v, c), c.rem # 0
  PROVE  /\ v.idx \in 1..Len(v.ends) /\ v.total \in Nat /\ Pos(v) \in Nat /\ Pos(v) + c.rem <= v.total
<1>1. PICK x \in Entries, rem \in Nat : c.ent = x /\ c.rem = rem /\ x.at \in Nat /\ x.len \in Nat
  BY DEF CopyOK, Entries
<1>2. PICK tot \in Nat, free \in Nat : tot = v.total /\ free = v.unused /\ free <= tot /\ Len(v.ends) \in Nat
  BY IovNumbers
<1>3. PICK xa \in Nat, xl \in Nat : xa = x.at /\ xl = x.len
  BY <1>1
<1>4. Pos(v) \in Nat /\ Pos(v) + rem <= tot
  <2>1. xa = tot - free /\ xl <= free /\ rem <= xl /\ Pos(v) = xa + xl - rem
    BY <1>1, <1>2, <1>3 DEF CopyOK, Written
  <2>2. PICK p \in Nat : p = xa + xl - rem /\ p + rem <= tot
    <3>1. xa = tot - free /\ xl <= free /\ rem <= xl
      BY <2>1
    <3>2. xa + xl <= tot /\ rem <= xl
      BY <3>1
    <3>. QED
      BY <3>2
  <2>. QED
    BY <2>1, <2>2
<1>5. v.idx # Len(v.ends) + 1
  <2>1. v.idx = Len(v.ends) + 1 => Pos(v) = tot
    BY <1>2 DEF IsIov, Pos
  <2>. QED
    BY <1>1, <1>4, <2>1
<1>. QED
  BY <1>1, <1>2, <1>4, <1>5 DEF IsIov

LEMMA ReaddirCopyStep == ASSUME DirOK, ReaddirCopy PROVE DirOK'
<1>1. /\ dir.pc = "copying" /\ dir' = dir /\ IsIov(iov) /\ CopyOK(iov, copy) /\ copy.rem # 0
      /\ EntriesIntact(iov, dir.listed, dir.from)
  BY DEF DirOK, ReplyOK, ReaddirCopy
<1>2. PICK x \in Entries, rem \in Nat : copy = [ent |-> x, rem |-> rem]
  BY <1>1 DEF CopyOK
<1>3. copy.ent = x /\ copy.rem = rem /\ rem # 0
  BY <1>1, <1>2
<1>4. PICK v, w, n : v = iov /\ w = CopyRound(v, x.file, rem) /\ n = to_cpy(v, rem)
  OBVIOUS
<1>5. iov' = w /\ copy' = [ent |-> x, rem |-> rem - n]
  BY <1>2, <1>3, <1>4 DEF ReaddirCopy
<1>6. /\ x.at \in Nat /\ x.len \in Nat /\ v.total \in Nat /\ v.unused \in Nat /\ v.unused <= v.total
      /\ x.at = v.total - v.unused /\ x.len <= v.unused /\ rem <= x.len
      /\ Pos(v) = x.at + x.len - rem
      /\ InOneIovec(v, x.at, x.len) => rem = x.len \/ (rem = 0 /\ Intact(v, x))
  <2>1. x.at \in Nat /\ x.len \in Nat
    BY DEF Entries
  <2>2. v.total \in Nat
    BY <1>1, <1>4, IovNumbers
  <2>. QED
    BY <1>1, <1>3, <1>4, <2>1, <2>2 DEF CopyOK, IsIov, Written
<1>7. IsIov(v) /\ Pos(v) \in Nat /\ Pos(v) + rem <= v.total
  BY <1>1, <1>4, <1>6
<1>8. /\ v.idx \in 1..Len(v.ends)
      /\ n \in Nat /\ n <= rem
      /\ n = rem \/ Pos(v) + n = Before(v.ends, v.idx + 1)
      /\ Pos(v) + n <= Before(v.ends, v.idx + 1)
      /\ IsIov(w) /\ w.ends = v.ends /\ w.total = v.total /\ w.unused = v.unused
      /\ Pos(w) = Pos(v) + n
      /\ \A u \in 1..v.total : u <= Pos(v) => w.mem[u] = v.mem[u]
      /\ \A u \in 1..v.total : u > Pos(v) /\ u <= Pos(v) + n => w.mem[u] = <<x.file, u - Pos(v)>>
  BY <1>3, <1>4, <1>7, RoundCopies
<1>9. PICK r \in Nat : r = rem - n
  BY <1>8
<1>10. copy' = [ent |-> x, rem |-> r] /\ copy'.ent = x /\ copy'.rem = r
  BY <1>5, <1>9
<1>11. Written(w) = Written(v) /\ Written(v) = x.at
  BY <1>6, <1>8 DEF Written
<1>12. EntriesIntact(w, dir.listed, dir.from)
  <2>. SUFFICES ASSUME NEW i \in (dir.from + 1)..Len(dir.listed)
                PROVE  /\ dir.listed[i].at + dir.listed[i].len <= Written(w)
                       /\ Intact(w, dir.listed[i])
    BY DEF EntriesIntact
  <2>1. PICK y : y = dir.listed[i]
    OBVIOUS
  <2>2. y \in Entries /\ y.at \in Nat /\ y.len \in Nat
    <3>1. dir.listed \in Seq(Entries) /\ dir.from \in Nat
      BY DEF DirOK, ListingOK, DirRecords
    <3>2. i \in 1..Len(dir.listed)
      BY <3>1
    <3>3. y \in Entries
      BY <2>1, <3>1, <3>2
    <3>. QED
      BY <3>3 DEF Entries
  <2>3. y.at + y.len <= Written(v) /\ Intact(v, y)
    BY <1>1, <1>4, <2>1 DEF EntriesIntact
  <2>4. InOneIovec(w, y.at, y.len) => InOneIovec(v, y.at, y.len)
    BY <1>8 DEF InOneIovec
  <2>5. \A k \in 1..y.len : w.mem[y.at + k] = v.mem[y.at + k]
    <3>1. PICK ya \in Nat, yl \in Nat, p \in Nat, tot \in Nat :
            ya = y.at /\ yl = y.len /\ p = Pos(v) /\ tot = v.total
      BY <1>6, <1>7, <2>2
    <3>2. ya + yl <= p /\ p <= tot
      <4>1. x.at <= p
        BY <1>6, <3>1
      <4>2. ya + yl <= x.at
        BY <1>11, <2>3, <3>1
      <4>3. p <= tot
        BY <1>7, <3>1
      <4>. QED
        BY <1>6, <4>1, <4>2, <4>3
    <3>3. \A k \in 1..yl : ya + k \in 1..tot /\ ya + k <= p
      BY <3>2
    <3>. QED
      BY <1>8, <3>1, <3>3
  <2>6. Intact(w, y)
    BY <2>3, <2>4, <2>5 DEF Intact, Holds
  <2>. QED
    BY <1>11, <2>1, <2>3, <2>6
<1>13. InOneIovec(w, x.at, x.len) => r = x.len \/ (r = 0 /\ Intact(w, x))
  <2>. SUFFICES ASSUME InOneIovec(w, x.at, x.len), n # 0 PROVE r = 0 /\ Intact(w, x)
    <3>1. n = 0 => r = rem
      BY <1>9
    <3>2. InOneIovec(w, x.at, x.len) => InOneIovec(v, x.at, x.len)
      BY <1>8 DEF InOneIovec
    <3>. QED
      BY <1>3, <1>6, <3>1, <3>2
  <2>1. PICK i \in 1..Len(v.ends) : Before(v.ends, i) <= x.at /\ x.at + x.len <= Before(v.ends, i + 1)
    BY <1>8 DEF InOneIovec
  <2>2. rem = x.len /\ Pos(v) = x.at
    <3>1. InOneIovec(v, x.at, x.len)
      BY <2>1 DEF InOneIovec
    <3>. QED
      BY <1>3, <1>6, <3>1
  <2>3. PICK N \in Nat : /\ N = Len(v.ends)
                         /\ \A j \in 1..(N + 1) : Before(v.ends, j) \in Nat
                         /\ \A j, k \in 1..(N + 1) : j <= k => Before(v.ends, j) <= Before(v.ends, k)
    <3>1. v.ends \in Seq(Nat) /\ Ascending(v.ends)
      BY <1>7 DEF IsIov
    <3>2. Len(v.ends) \in Nat
      BY <3>1
    <3>. QED
      BY <3>1, <3>2, BeforeAscends
  <2>4. Before(v.ends, v.idx) <= Pos(v)
    <3>1. v.idx \in 1..(N + 1) /\ v.at \in Nat
      BY <1>8, <2>3, <1>7 DEF IsIov
    <3>2. PICK b \in Nat, a \in Nat : b = Before(v.ends, v.idx) /\ a = v.at
      BY <2>3, <3>1
    <3>3. b <= b + a
      OBVIOUS
    <3>. QED
      BY <3>2, <3>3 DEF Pos
  <2>5. v.idx = i
    <3>1. v.idx \in 1..N /\ i \in 1..N /\ v.idx + 1 \in 1..(N + 1) /\ i + 1 \in 1..(N + 1)
          /\ v.idx \in 1..(N + 1) /\ i \in 1..(N + 1)
      <4>1. v.idx \in 1..N /\ i \in 1..N
        BY <1>8, <2>1, <2>3
      <4>. QED
        BY <4>1
    <3>2. /\ Before(v.ends, i) \in Nat /\ Before(v.ends, i + 1) \in Nat
          /\ Before(v.ends, v.idx) \in Nat /\ Before(v.ends, v.idx + 1) \in Nat
      BY <2>3, <3>1
    <3>3. ~(i < v.idx)
      <4>1. i < v.idx => Before(v.ends, i + 1) <= Before(v.ends, v.idx)
        BY <2>3, <3>1
      <4>2. Before(v.ends, i + 1) > x.at /\ Before(v.ends, v.idx) <= x.at
        <5>1. x.len > 0 /\ x.at \in Nat /\ x.len \in Nat
          BY <1>3, <1>6, <2>2
        <5>. QED
          BY <2>1, <2>2, <2>4, <3>2, <5>1
      <4>. QED
        BY <1>6, <3>2, <4>1, <4>2
    <3>4. ~(v.idx < i)
      <4>1. v.idx < i => Before(v.ends, v.idx + 1) <= Before(v.ends, i)
        BY <2>3, <3>1
      <4>2. Before(v.ends, v.idx + 1) > x.at
        <5>1. n > 0 /\ n \in Nat /\ x.at \in Nat /\ x.at + n <= Before(v.ends, v.idx + 1)
          BY <1>6, <1>8, <2>2
        <5>. QED
          BY <3>2, <5>1
      <4>. QED
        BY <1>6, <2>1, <3>2, <4>1, <4>2
    <3>. QED
      BY <3>1, <3>3, <3>4
  <2>6. n = rem
    BY <1>6, <1>8, <2>1, <2>2, <2>5
  <2>7. \A k \in 1..x.len : w.mem[x.at + k] = <<x.file, k>>
    <3>. SUFFICES ASSUME NEW k \in 1..x.len PROVE w.mem[x.at + k] = <<x.file, k>>
      OBVIOUS
    <3>1. PICK xa \in Nat, xl \in Nat, tot \in Nat, free \in Nat :
            /\ xa = x.at /\ xl = x.len /\ tot = v.total /\ free = v.unused
            /\ xa = tot - free /\ xl <= free /\ free <= tot
      BY <1>6
    <3>2. Pos(v) = xa /\ n = xl /\ k \in Nat /\ 1 <= k /\ k <= xl /\ xa + xl <= tot
      BY <2>2, <2>6, <3>1
    <3>3. PICK u \in 1..tot : u = xa + k /\ u > xa /\ u <= xa + xl /\ u - xa = k
      BY <3>2
    <3>4. w.mem[u] = <<x.file, u - xa>>
      BY <1>8, <3>1, <3>2, <3>3
    <3>. QED
      BY <3>1, <3>3, <3>4
  <2>. QED
    BY <1>9, <2>6, <2>7 DEF Intact, Holds
<1>14. CopyOK(w, copy')
  <2>1. Pos(w) = x.at + x.len - r
    BY <1>6, <1>8, <1>9
  <2>2. r <= x.len /\ x.len <= w.unused /\ x.at = Written(w)
    BY <1>6, <1>8, <1>9, <1>11
  <2>3. copy' \in [ent : Entries, rem : Nat]
    BY <1>10
  <2>. QED
    BY <1>10, <1>13, <2>1, <2>2, <2>3 DEF CopyOK
<1>15. ReplyOK'
  BY <1>1, <1>5, <1>8, <1>12, <1>14 DEF ReplyOK
<1>16. ListingOK'
  BY <1>1, <1>3, <1>10 DEF DirOK, ListingOK
<1>. QED
  BY <1>15, <1>16 DEF DirOK

LEMMA ReaddirCopiedStep == ASSUME DirOK, ReaddirCopied PROVE DirOK'
<1>1. /\ dir.pc = "copying" /\ IsIov(iov) /\ CopyOK(iov, copy) /\ copy.rem = 0 /\ copy' = NoCopy
      /\ EntriesIntact(iov, dir.listed, dir.from)
  BY DEF DirOK, ReplyOK, ReaddirCopied
<1>2. PICK x \in Entries : copy.ent = x /\ x.at \in Nat /\ x.len \in Nat
  BY <1>1 DEF CopyOK, Entries
<1>3. PICK l \in Seq(Entries), n \in Nat : l = dir.listed /\ n = Len(l)
  BY DEF DirOK, ListingOK, DirRecords
<1>4. /\ dir \in DirRecords /\ ListedOK(l, dir.passed, dir.cut) /\ dir.off = n + 1 /\ x.off = n + 1
      /\ TodoOK(dir.todo, dir.passed \cup {x.file}) /\ x.file \notin dir.passed /\ dir.from \in Nat
  BY <1>1, <1>2, <1>3 DEF DirOK, ListingOK, DirRecords
<1>5. PICK m \in Seq(Entries) : m = Append(l, x)
  BY Appended
<1>6. PICK d \in SUBSET Files : d = dir.passed \cup {x.file}
  BY <1>4 DEF DirRecords, Entries
<1>7. dir' = [dir EXCEPT !.pc = "reading", !.off = n + 2, !.listed = m, !.passed = d]
  <2>1. dir' = [dir EXCEPT !.pc = "reading", !.off = @ + 1, !.listed = Append(@, x),
                           !.passed = @ \cup {x.file}]
    BY <1>2 DEF ReaddirCopied
  <2>2. dir.off + 1 = n + 2
    BY <1>4
  <2>. QED
    BY <1>3, <1>5, <1>6, <2>1, <2>2
<1>8. /\ dir' \in DirRecords /\ dir'.listed = m /\ dir'.passed = d /\ dir'.pc = "reading"
      /\ dir'.cut = dir.cut /\ dir'.todo = dir.todo /\ dir'.off = n + 2 /\ dir'.from = dir.from
  <2>1. PICK k \in Nat : k = n + 2
    OBVIOUS
  <2>2. dir' = [dir EXCEPT !.pc = "reading", !.off = k, !.listed = m, !.passed = d]
    BY <1>7, <2>1
  <2>. QED
    BY <1>4, <2>1, <2>2 DEF DirRecords
<1>9. ListedOK(m, d, dir.cut)
  BY <1>3, <1>4, <1>5, <1>6, ListedAppend
<1>10. Len(m) = n + 1 /\ (\A i \in 1..n : m[i] = l[i]) /\ m[n + 1] = x
  BY <1>3, <1>5, Appended
<1>11. ListingOK'
  BY <1>4, <1>6, <1>8, <1>9, <1>10 DEF ListingOK
<1>12. PICK v : v = iov
  OBVIOUS
<1>13. PICK w : w = [v EXCEPT !.unused = v.unused - x.len] /\ iov' = w
  BY <1>2, <1>12 DEF ReaddirCopied
<1>14. /\ v.total \in Nat /\ v.unused \in Nat /\ v.unused <= v.total /\ x.len <= v.unused
       /\ x.at = v.total - v.unused /\ Pos(v) = x.at + x.len
  <2>1. v.total \in Nat
    BY <1>1, <1>12, IovNumbers
  <2>. QED
    BY <1>1, <1>2, <1>12, <2>1 DEF CopyOK, IsIov, Written
<1>15. /\ w = [ends |-> v.ends, idx |-> v.idx, at |-> v.at, total |-> v.total,
               unused |-> v.unused - x.len, mem |-> v.mem]
  BY <1>1, <1>12, <1>13 DEF IsIov
<1>16. PICK k \in Nat : k = v.unused - x.len /\ k <= v.total
  BY <1>2, <1>14
<1>17. IsIov(w)
  BY <1>1, <1>12, <1>15, <1>16 DEF IsIov, Pos
<1>18. Pos(w) = Pos(v) /\ Written(w) = x.at + x.len /\ Written(v) = x.at
  BY <1>2, <1>14, <1>15, <1>16 DEF Pos, Written
<1>19. \A y : Intact(v, y) => Intact(w, y)
  BY <1>15 DEF Intact, InOneIovec, Holds
<1>20. Intact(v, x)
  <2>1. InOneIovec(v, x.at, x.len) => x.len = 0 \/ Intact(v, x)
    BY <1>1, <1>2, <1>12 DEF CopyOK
  <2>2. x.len = 0 => Holds(v, x.at, x.file, x.len)
    BY DEF Holds
  <2>. QED
    BY <2>1, <2>2 DEF Intact
<1>21. EntriesIntact(w, m, dir.from)
  <2>. SUFFICES ASSUME NEW i \in (dir.from + 1)..Len(m)
                PROVE  m[i].at + m[i].len <= Written(w) /\ Intact(w, m[i])
    BY DEF EntriesIntact
  <2>1. CASE i = n + 1
    BY <1>2, <1>10, <1>18, <1>19, <1>20, <2>1
  <2>2. CASE i # n + 1
    <3>1. i \in (dir.from + 1)..Len(l) /\ i \in 1..n
      BY <1>3, <1>4, <1>10, <2>2
    <3>2. l[i].at + l[i].len <= x.at /\ Intact(v, l[i])
      BY <1>1, <1>3, <1>12, <1>18, <3>1 DEF EntriesIntact
    <3>3. l[i].at \in Nat /\ l[i].len \in Nat
      <4>1. l[i] \in Entries
        BY <1>3, <3>1
      <4>. QED
        BY <4>1 DEF Entries
    <3>. QED
      BY <1>2, <1>10, <1>18, <1>19, <3>1, <3>2, <3>3
  <2>. QED
    BY <2>1, <2>2
<1>22. ReplyOK'
  BY <1>1, <1>8, <1>13, <1>14, <1>17, <1>18, <1>21 DEF ReplyOK
<1>. QED
  BY <1>11, <1>22 DEF DirOK

LEMMA ReaddirReturnStep == ASSUME DirOK, ReaddirReturn PROVE DirOK'
<1>1. PICK pc \in {"end", "open"} : dir' = [dir EXCEPT !.pc = pc]
  BY DEF ReaddirReturn
<1>2. dir \in DirRecords /\ iov' = iov /\ copy' = copy /\ dir.pc # "copying"
  BY DEF ReaddirReturn, DirOK, ListingOK
<1>3. /\ dir' \in DirRecords /\ dir'.listed = dir.listed /\ dir'.pc = pc /\ dir'.from = dir.from
      /\ dir'.passed = dir.passed /\ dir'.cut = dir.cut /\ dir'.todo = dir.todo
  BY <1>1, <1>2 DEF DirRecords
<1>4. ListingOK'
  BY <1>3 DEF DirOK, ListingOK
<1>5. ReplyOK'
  BY <1>2, <1>3 DEF DirOK, ReplyOK
<1>. QED
  BY <1>4, <1>5 DEF DirOK

LEMMA ReleasedirStep == ASSUME DirOK, Releasedir PROVE DirOK'
<1>1. dir' = Closed /\ iov' = iov_init(<<>>) /\ copy' = copy /\ dir.pc # "copying"
  BY DEF Releasedir
<1>2. copy' = NoCopy
  BY <1>1 DEF DirOK, ReplyOK
<1>3. (dir = Closed /\ iov = iov_init(<<>>) /\ copy = NoCopy => DirOK)'
  BY ClosedOK, PTL
<1>. QED
  BY <1>1, <1>2, <1>3

-----------------------------------------------------------------------------
LEMMA DirStepKeeps == ASSUME KvIInv, DirStep PROVE KvIInv'
<1>1. UNCHANGED <<inode, data, handler, completions, op, rpc, poll, early, fs, mixed>>
  BY DEF DirStep, Opendir, Readdir, ReaddirEntry, ReaddirCopy, ReaddirCopied,
     ReaddirReturn, Releasedir, tables, halVars, ghosts
<1>2. \A q \in Requests : Apart(q) /\ handler'[q] = handler[q] /\ completions'[q] = completions[q]
  BY <1>1 DEF Apart, RpcsOf
<1>3. KvTypes'
  BY <1>1 DEF KvIInv, KvTypes
<1>4. AnswersOK'
  BY <1>2, QuietRequest DEF KvIInv, AnswersOK
<1>5. FilesOK'
  <2>1. \A g \in Files : SameFile(g) /\ FileOK(g) /\ (g \in mixed => g \in mixed')
    BY <1>1 DEF SameFile, KvIInv, FilesOK
  <2>. QED
    BY <1>2, <2>1, QuietFile DEF FilesOK
<1>6. DirOK'
  <2>1. DirOK
    BY DEF KvIInv
  <2>. QED
    BY <2>1, OpendirStep, ReaddirStep, ReaddirEntryStep, ReaddirCopyStep, ReaddirCopiedStep,
       ReaddirReturnStep, ReleasedirStep DEF DirStep
<1>. QED
  BY <1>3, <1>4, <1>5, <1>6 DEF KvIInv

LEMMA StutterKeeps ==
  ASSUME KvIInv, UNCHANGED kvVars \/ \E x \in rpc : CompletedUninitialised(x)
  PROVE  KvIInv'
<1>1. UNCHANGED <<inode, data, handler, completions, op, rpc, poll, early, fs, mixed, dirVars>>
  BY DEF kvVars, CompletedUninitialised, tables, halVars, ghosts
<1>2. \A q \in Requests : Apart(q) /\ handler'[q] = handler[q] /\ completions'[q] = completions[q]
  BY <1>1 DEF Apart, RpcsOf
<1>3. KvTypes'
  BY <1>1 DEF KvIInv, KvTypes
<1>4. AnswersOK'
  BY <1>2, QuietRequest DEF KvIInv, AnswersOK
<1>5. FilesOK'
  <2>1. \A g \in Files : SameFile(g) /\ FileOK(g) /\ (g \in mixed => g \in mixed')
    BY <1>1 DEF SameFile, KvIInv, FilesOK
  <2>. QED
    BY <1>2, <2>1, QuietFile DEF FilesOK
<1>6. DirOK'
  BY <1>1, QuietDir DEF KvIInv
<1>. QED
  BY <1>3, <1>4, <1>5, <1>6 DEF KvIInv

LEMMA NextKeeps == ASSUME KvIInv, [Next]_kvVars PROVE KvIInv'
<1>1. CASE \E r \in Requests, f \in Files, s \in Sizes \cup {None}, k \in Mutations \cup {"getattr", "read"} :
             Deliver(r, k, f, s)
  BY <1>1, DeliverStep DEF Kinds
<1>2. ASSUME NEW r \in Requests, HandlerStep(r) PROVE KvIInv'
  BY <1>2, MknodStep, SetattrReadStep, SetattrWriteStep, UnlinkRemoveStep, UnlinkReturnStep,
     AnswerAtOnceStep, ReadSendStep, WriteSendStep, BaseDoneStep, WriteGetAttrStep, ConstructedStep,
     ReturnDeferredStep DEF HandlerStep
<1>3. ASSUME NEW r \in Requests, ApplyStep(r) PROVE KvIInv'
  BY <1>3, ApplyKeeps DEF ApplyStep
<1>4. CASE PollStep
  BY <1>4, CompletedEarlyStep, CompletedReadStep, CompletedWriteStep, FinishStep, StutterKeeps
     DEF PollStep
<1>. QED
  BY <1>1, <1>2, <1>3, <1>4, DirStepKeeps, StutterKeeps DEF Next

(* The steps of the file system keep its invariant, whatever the guests ask of it at the same     *)
(* time (dpfs_kv/main.cpp).                                                                       *)
THEOREM Invariance == Spec => []KvIInv
<1>1. Init => KvIInv
  BY InitHolds
<1>2. KvIInv /\ [Next]_kvVars => KvIInv'
  BY NextKeeps
<1>. QED
  BY <1>1, <1>2, PTL DEF Spec

(* A file that no two requests change at once, and on which no write or unlink failed, has in     *)
(* both tables what the answered requests wrote, although write, setattr and unlink change them   *)
(* in several steps (fuse_write, AsyncWriteOp, fuse_setattr, fuse_unlink).                        *)
THEOREM QuietFilesAreExact == Spec => []QuietFilesExact
<1>1. KvIInv => QuietFilesExact
  <2>. SUFFICES ASSUME KvIInv, NEW f \in Files, f \notin mixed, ~Overlaps(f) PROVE Exact(f)
    BY DEF QuietFilesExact, Exact
  <2>. QED
    BY OverlapsMutates DEF KvIInv, FilesOK, FileOK
<1>. QED
  BY <1>1, Invariance, PTL

(* Over any number of replies of any sizes, fuse_readdir gives a guest every entry of the         *)
(* enumerator once and in its place, except for those at which a reply was full.                  *)
THEOREM ListingLosesOnlyTheCut == Spec => []ListingLosesOnlyCut
<1>1. KvIInv => ListingLosesOnlyCut
  <2>. SUFFICES ASSUME KvIInv PROVE ListingLosesOnlyCut
    OBVIOUS
  <2>1. PICK l, c, d : l = dir.listed /\ c = dir.cut /\ d = dir.passed /\ ListedOK(l, d, c)
    BY DEF KvIInv, DirOK, ListingOK
  <2>2. l \in Seq(Entries)
    BY <2>1 DEF KvIInv, DirOK, ListingOK, DirRecords
  <2>3. DOMAIN l = 1..Len(l)
    BY <2>2
  <2>. QED
    BY <2>1, <2>3 DEF ListingLosesOnlyCut, ListedOK
<1>. QED
  BY <1>1, Invariance, PTL

(* Every reply of fuse_readdir is as long as its header says, an entry in it that lies in one      *)
(* iovec is intact, and iov_write_buf never runs out of iovecs: for any lengths of names and       *)
(* iovecs, and any number of replies.                                                              *)
THEOREM DirentsAreIntact == Spec => []DirentsIntact
<1>1. KvIInv => DirentsIntact
  <2>. SUFFICES ASSUME KvIInv PROVE DirentsIntact
    OBVIOUS
  <2>1. IsIov(iov) /\ EntriesIntact(iov, dir.listed, dir.from)
    BY DEF KvIInv, DirOK, ReplyOK
  <2>2. ASSUME copy.rem # 0 PROVE iov.idx \in 1..Len(iov.ends)
    <3>1. CopyOK(iov, copy)
      BY <2>2 DEF KvIInv, DirOK, ReplyOK, NoCopy
    <3>. QED
      BY <2>1, <2>2, <3>1, CopyStaysInside
  <2>. QED
    BY <2>1, <2>2 DEF DirentsIntact, EntriesIntact, Intact
<1>. QED
  BY <1>1, Invariance, PTL

-----------------------------------------------------------------------------
(* Return and Complete are steps of the contract. *)
LEMMA ReturnsHandled ==
  ASSUME KvIInv, NEW r \in Requests, op[r].pc # "none", handler[r] = "running",
         handler' = [handler EXCEPT ![r] = "handled"], UNCHANGED completions
  PROVE  Hal!Next
<1>1. completions[r] = 0
  BY DEF KvIInv, AnswersOK, RequestOK, OpOK
<1>. QED
  BY <1>1 DEF Hal!Next, Hal!ReturnHandled

LEMMA CompletesOnce ==
  ASSUME KvIInv, NEW r \in Requests, op[r].pc # "none", NEW err, Complete(r, err), UNCHANGED handler
  PROVE  Hal!Next
<1>1. completions[r] = 0 /\ handler[r] \in {"running", "deferred"} /\ completions \in [Requests -> 0..1]
  BY DEF KvIInv, KvTypes, AnswersOK, RequestOK, OpOK
<1>2. completions' = [completions EXCEPT ![r] = 1]
  BY <1>1 DEF Complete
<1>. QED
  BY <1>1, <1>2 DEF Hal!Next, Hal!AsyncComplete

LEMMA HalSteps == ASSUME KvIInv, [Next]_kvVars PROVE [Hal!Next]_(Hal!halVars)
<1>1. ASSUME NEW r \in Requests, NEW f, NEW s, NEW k, Deliver(r, k, f, s) PROVE Hal!Next
  BY <1>1 DEF Deliver, Hal!Next, Hal!Deliver
<1>2. ASSUME NEW r \in Requests, HandlerStep(r) PROVE Hal!Next \/ UNCHANGED <<handler, completions>>
  <2>1. ASSUME NEW err, At(r, "start") \/ At(r, "write"), Return(r, err), UNCHANGED completions PROVE Hal!Next
    BY <2>1, ReturnsHandled DEF At, Return
  <2>2. CASE Mknod(r) \/ SetattrWrite(r) \/ UnlinkReturn(r)
    BY <2>1, <2>2 DEF Mknod, SetattrWrite, UnlinkReturn
  <2>3. CASE SetattrRead(r)
    BY <2>1, <2>3 DEF SetattrRead
  <2>4. CASE AnswerAtOnce(r)
    BY <2>4, ReturnsHandled DEF AnswerAtOnce, At
  <2>5. CASE ReturnDeferred(r)
    BY <2>5 DEF ReturnDeferred, Hal!Next, Hal!ReturnDeferred
  <2>6. CASE (\E t \in {"inode", "data"} : UnlinkRemove(r, t)) \/ ReadSend(r) \/ WriteSend(r)
             \/ BaseDone(r) \/ WriteGetAttr(r) \/ Constructed(r)
    BY <2>6 DEF UnlinkRemove, ReadSend, WriteSend, BaseDone, WriteGetAttr, Constructed, halVars
  <2>. QED
    BY <1>2, <2>2, <2>3, <2>4, <2>5, <2>6 DEF HandlerStep
<1>3. ASSUME NEW x \in rpc, CompletedRead(x) PROVE Hal!Next
  BY <1>3, Sent, CompletesOnce DEF CompletedRead, Sending
<1>4. ASSUME NEW r \in Requests, Finish(r) PROVE Hal!Next
  <2>1. op[r].pc # "none"
    BY <1>4 DEF Finish, KvIInv, AnswersOK, RequestOK, PollOK
  <2>. QED
    BY <1>4, <2>1, CompletesOnce DEF Finish
<1>5. ASSUME NEW x \in rpc, \/ CompletedEarly(x) \/ CompletedUninitialised(x)
                             \/ CompletedWrite(x) \/ Apply(x)
      PROVE  UNCHANGED <<handler, completions>>
  BY <1>5 DEF CompletedEarly, CompletedUninitialised, CompletedWrite, Apply, halVars
<1>6. CASE DirStep
  BY <1>6 DEF DirStep, Opendir, Readdir, ReaddirEntry, ReaddirCopy, ReaddirCopied,
     ReaddirReturn, Releasedir, halVars, Hal!halVars
<1>7. CASE UNCHANGED kvVars
  BY <1>7 DEF kvVars, halVars, Hal!halVars
<1>. QED
  BY <1>1, <1>2, <1>3, <1>4, <1>5, <1>6, <1>7 DEF Next, ApplyStep, PollStep, Hal!halVars

(* hal.h: every request is answered at most once, by the return value of its handler or by one    *)
(* dpfs_hal_async_complete, although a write has two completions that the poll thread may run     *)
(* before the handler returned.                                                                   *)
THEOREM KeepsHalContract == Spec => HalSpec
<1>1. Init => Hal!Init
  BY DEF Init, Hal!Init
<1>2. KvIInv /\ [Next]_kvVars => [Hal!Next]_(Hal!halVars)
  BY HalSteps
<1>. QED
  BY <1>1, <1>2, Invariance, PTL DEF Spec, HalSpec, Hal!Spec
=============================================================================
