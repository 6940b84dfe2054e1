---------------------------- MODULE MirrorProofs ----------------------------
(***************************************************************************)
(* Proofs about Mirror: type correctness, exact lookup and open counts,    *)
(* the lifetime of nodeids, how the process can end, and descriptors, for  *)
(* any number of threads, names, inode numbers, descriptors and requests.  *)
(***************************************************************************)
EXTENDS Mirror, FiniteSetTheorems, NaturalsInduction, WellFoundedInduction, TLAPS

-----------------------------------------------------------------------------
(* What a thread knows, by the place it has come to. *)

LookupOps == {"lookup", "unlink", "create", "mknod", "readdirplus"}
LookupPcs == {"lk_open", "lk_table", "lk_known", "lk_new"}
NewFdPcs  == {"lk_table", "lk_known", "lk_new"}
ErasePcs  == {"fg_erase", "fg_free"}
UsePcs    == {"use_read", "use_fd", "op_count", "rl_count"}
OwingPcs  == {"ul_release", "ul_close", "cr_count", "rd_entry"}
NodePcs   == {"lk_known", "lk_new", "fg_count"} \cup OwingPcs \cup ErasePcs \cup UsePcs
Pcs       == {"idle", "cr_open", "mk_node", "rd_lock", "ul_unlinkat", "rl_close", "fg_test",
               "ds_bucket", "ds_inode", "ds_free"}
               \cup LookupPcs \cup NodePcs

Handles  == [nd : Addrs, fh : Fds]
ThStates == [pc : Pcs, op : LookupOps \cup {"open", "setattr", "forget", "release", "destroy", None},
             name : Names \cup {None}, nd : Addrs \cup {None}, ino : Inos \cup {None},
             fd : Fds \cup {Released, None}, fh : Fds \cup {None}, cnt : Nat,
             next : Addrs \cup {None}]

Types == /\ link \in [Names -> Inos \cup {None}]
         /\ fds \in [Fds -> Inos \cup {None}]
         /\ nalloc \in 0..MaxRequests
         /\ table \in SUBSET (1..nalloc)
         /\ alive \in SUBSET (1..nalloc)
         /\ inode \in [Addrs -> InodeRec]
         /\ fm \in Threads \cup {None}
         /\ im \in [Addrs \cup {Root} -> Threads \cup {None}]
         /\ th \in [Threads -> ThStates]
         /\ refs \in [Threads -> [Addrs -> Nat]]
         /\ handles \in [Threads -> SUBSET Handles]
         /\ sent \in Nat
         /\ raced \in BOOLEAN /\ cleared \in BOOLEAN

(* The request of a thread. *)
RequestOK(t) ==
  LET p == th[t] IN
  /\ p.pc \in {"lk_open", "cr_open", "mk_node", "rd_lock"} => p.name \in Names
  /\ p.pc \in LookupPcs \cup {"rd_lock"} => p.op \in LookupOps
  /\ p.pc = "mk_node" => p.op = "mknod"
  /\ p.pc = "rd_lock" => p.op = "readdirplus"
  /\ p.pc \in {"cr_open", "cr_count"} => p.op = "create"
  /\ p.pc = "op_count" => p.op = "open"
  /\ p.pc \in NewFdPcs => p.fd \in Fds /\ p.ino \in Inos
  /\ p.pc \in NodePcs => p.nd \in 1..nalloc
  /\ p.pc \in {"lk_known", "lk_new"} => inode[p.nd].ino = p.ino
  /\ p.pc = "fg_count" => p.cnt > 0
  /\ p.pc \in UsePcs => refs[t][p.nd] > 0
  /\ p.pc \in {"op_count", "cr_count", "rl_count", "rl_close"} => p.fh \in Fds
  /\ p.pc \in LookupPcs /\ p.op = "create" => p.fh \in Fds
  /\ p.pc = "rl_count" => [nd |-> p.nd, fh |-> p.fh] \notin handles[t]

(* The locks it holds. *)
LocksOK(t) == /\ th[t].pc \in {"lk_new", "fg_free"} => fm = t
              /\ th[t].pc \in {"fg_erase", "ul_close"} => im[th[t].nd] = t

(* What its host holds. *)
HostOK(t) == /\ \A a \in Addrs : refs[t][a] > 0 => a <= nalloc
             /\ \A h \in handles[t] : h.nd <= nalloc /\ refs[t][h.nd] > 0

ThreadsOK == \A t \in Threads : RequestOK(t) /\ LocksOK(t) /\ HostOK(t)

-----------------------------------------------------------------------------
(* The counts, and the inodes that have to be in the table. *)

LookupsOK == \A a \in alive : /\ IsFiniteSet(References(a))
                              /\ inode[a].nlookup = Cardinality(References(a))
OpensOK   == \A a \in alive : /\ IsFiniteSet(OpenFiles(a))
                              /\ inode[a].nopen >= Cardinality(OpenFiles(a))
                              /\ ~cleared => inode[a].nopen = Cardinality(OpenFiles(a))

(* An inode without a reference has one thread that is going to free it. *)
Erasing(t) == th[t].pc \in ErasePcs
InTable == /\ \A t \in Threads, a \in Addrs : Holds(t, a) > 0 => a \in alive
           /\ \A t \in Threads : th[t].pc = "lk_new" => th[t].nd \in alive
           /\ \A t \in Threads : Erasing(t) => th[t].nd \in alive /\ inode[th[t].nd].nlookup = 0
           /\ \A t, u \in Threads : Erasing(t) /\ Erasing(u) /\ th[t].nd = th[u].nd => t = u
AliveOK == ~raced /\ ~cleared => InTable

(* A request allocates one inode at most. *)
AllocPcs == {"lk_open", "lk_table", "cr_open", "mk_node", "rd_lock"}
Allocating == {t \in Threads : th[t].pc \in AllocPcs}
BudgetOK == /\ IsFiniteSet(Allocating)
            /\ nalloc + Cardinality(Allocating) <= sent
            /\ sent <= MaxRequests

(* Who closes a descriptor, and the files it may name: an inode, a lookup that has not    *)
(* found the inode yet, a request that opens or closes a file, an open file.              *)
InodeOwns(a)  == IF inode[a].fd \in Fds THEN {<<"inode", a, inode[a].fd, {inode[a].ino}>>} ELSE {}
ThreadOwns(t) == (IF th[t].pc \in NewFdPcs THEN {<<"fd", t, th[t].fd, {th[t].ino}>>} ELSE {})
                   \cup (IF th[t].fh \in Fds THEN {<<"fh", t, th[t].fh, Inos>>} ELSE {})
                   \cup {<<"open", <<t, h>>, h.fh, Inos>> : h \in handles[t]}
Owned == (UNION {InodeOwns(a) : a \in alive}) \cup (UNION {ThreadOwns(t) : t \in Threads})
Once(S)  == \A o, p \in S : o[3] = p[3] => o = p
Open(S, f) == \A o \in S : /\ o[3] \in Fds /\ f[o[3]] # None
                           /\ f[o[3]] \in o[4]
FdsOK == ~cleared => Once(Owned) /\ Open(Owned, fds)

(* Until a DESTROY comes upon inodes the chains hold the inodes that are not freed, one for a  *)
(* number.                                                                                     *)
Destroying(t) == th[t].pc = "ds_free" \/ (th[t].pc = "ds_inode" /\ th[t].next # None)
TableOK == ~cleared => /\ table = alive
                       /\ \A a, b \in alive : inode[a].ino = inode[b].ino => a = b
                       /\ \A t \in Threads : ~Destroying(t)

IInv == /\ TableOK
        /\ Types /\ ThreadsOK /\ LookupsOK /\ OpensOK /\ AliveOK /\ BudgetOK /\ FdsOK
        /\ EndsOnlyByRace
-----------------------------------------------------------------------------
(* Sets of pairs, counted by thread. *)

LEMMA PairsGrow ==
  ASSUME NEW s, NEW s2, NEW t \in Threads, NEW x, x \notin s[t],
         IsFiniteSet(Pairs(s)),
         s2[t] = s[t] \cup {x}, \A u \in Threads \ {t} : s2[u] = s[u]
  PROVE  IsFiniteSet(Pairs(s2)) /\ Cardinality(Pairs(s2)) = Cardinality(Pairs(s)) + 1
<1>1. Pairs(s2) = Pairs(s) \cup {<<t, x>>}
  <2>1. ASSUME NEW y \in Pairs(s2) PROVE y \in Pairs(s) \cup {<<t, x>>}
    <3>1. PICK u \in Threads : y \in {u} \X s2[u]
      BY <2>1 DEF Pairs
    <3>. QED
      BY <3>1 DEF Pairs
  <2>2. ASSUME NEW y \in Pairs(s) PROVE y \in Pairs(s2)
    <3>1. PICK u \in Threads : y \in {u} \X s[u]
      BY <2>2 DEF Pairs
    <3>2. y \in {u} \X s2[u]
      BY <3>1
    <3>. QED
      BY <3>2 DEF Pairs
  <2>3. <<t, x>> \in Pairs(s2)
    <3>1. <<t, x>> \in {t} \X s2[t]
      OBVIOUS
    <3>. QED
      BY <3>1 DEF Pairs
  <2>. QED
    BY <2>1, <2>2, <2>3
<1>2. <<t, x>> \notin Pairs(s)
  BY DEF Pairs
<1>3. /\ IsFiniteSet(Pairs(s) \cup {<<t, x>>})
      /\ Cardinality(Pairs(s) \cup {<<t, x>>}) = Cardinality(Pairs(s)) + 1
  <2>1. \A S, y : IsFiniteSet(S) /\ y \notin S
                 => IsFiniteSet(S \cup {y}) /\ Cardinality(S \cup {y}) = Cardinality(S) + 1
    BY FS_AddElement
  <2>. QED
    BY <1>2, <2>1, Zenon
<1>. QED
  BY <1>1, <1>3, Zenon

LEMMA ColumnCardinality ==
  ASSUME NEW t, NEW D, IsFiniteSet({t} \X D)
  PROVE  IsFiniteSet(D) /\ Cardinality(D) = Cardinality({t} \X D)
<1>1. ExistsBijection({t} \X D, D)
  <2>. DEFINE f == [y \in {t} \X D |-> y[2]]
  <2>1. f \in [{t} \X D -> D]
    OBVIOUS
  <2>2. ASSUME NEW y \in {t} \X D, NEW z \in {t} \X D, f[y] = f[z] PROVE y = z
    BY <2>2
  <2>3. ASSUME NEW d \in D PROVE \E y \in {t} \X D : f[y] = d
    <3>1. <<t, d>> \in {t} \X D /\ f[<<t, d>>] = d
      OBVIOUS
    <3>. QED
      BY <3>1, Zenon
  <2>4. f \in Bijection({t} \X D, D)
    <3>. HIDE DEF f
    <3>. QED
      BY <2>1, <2>2, <2>3 DEF Bijection, Injection, Surjection, IsInjective
  <2>. QED
    BY <2>4 DEF ExistsBijection
<1>. QED
  BY <1>1, FS_Bijection

LEMMA PairsPart ==
  ASSUME NEW s, NEW t \in Threads, NEW D \in SUBSET s[t], IsFiniteSet(Pairs(s))
  PROVE  /\ {t} \X D \subseteq Pairs(s)
         /\ IsFiniteSet(D)
         /\ Cardinality({t} \X D) = Cardinality(D)
         /\ Cardinality(D) <= Cardinality(Pairs(s))
<1>1. {t} \X D \subseteq Pairs(s)
  BY DEF Pairs
<1>2. IsFiniteSet({t} \X D) /\ Cardinality({t} \X D) <= Cardinality(Pairs(s))
  BY <1>1, FS_Subset
<1>. QED
  BY <1>1, <1>2, ColumnCardinality

Loses(s, s2, t, D) == /\ D \subseteq s[t] /\ s2[t] = s[t] \ D
                      /\ \A u \in Threads \ {t} : s2[u] = s[u]
LEMMA PairsShrink ==
  ASSUME NEW s, NEW s2, NEW t \in Threads, NEW D, Loses(s, s2, t, D), IsFiniteSet(Pairs(s))
  PROVE  IsFiniteSet(Pairs(s2)) /\ Cardinality(Pairs(s2)) = Cardinality(Pairs(s)) - Cardinality(D)
<1>. USE DEF Loses
<1>1. Pairs(s2) = Pairs(s) \ ({t} \X D)
  <2>1. ASSUME NEW y \in Pairs(s2) PROVE y \in Pairs(s) \ ({t} \X D)
    <3>1. PICK u \in Threads : y \in {u} \X s2[u]
      BY <2>1 DEF Pairs
    <3>2. y \in {u} \X s[u] /\ y \notin {t} \X D
      BY <3>1
    <3>. QED
      BY <3>2 DEF Pairs
  <2>2. ASSUME NEW y \in Pairs(s), y \notin {t} \X D PROVE y \in Pairs(s2)
    <3>1. PICK u \in Threads : y \in {u} \X s[u]
      BY <2>2 DEF Pairs
    <3>2. y \in {u} \X s2[u]
      BY <2>2, <3>1
    <3>. QED
      BY <3>2 DEF Pairs
  <2>. QED
    BY <2>1, <2>2
<1>2. {t} \X D \subseteq Pairs(s) /\ Cardinality({t} \X D) = Cardinality(D)
  <2>1. {t} \X D \subseteq Pairs(s)
    BY DEF Pairs
  <2>2. IsFiniteSet({t} \X D)
    BY <2>1, FS_Subset
  <2>. QED
    BY <2>1, <2>2, ColumnCardinality
<1>3. PICK P : P = {t} \X D
  OBVIOUS
<1>4. Pairs(s) \cap P = P
  BY <1>2, <1>3, Zenon
<1>5. IsFiniteSet(Pairs(s) \ P) /\ Cardinality(Pairs(s) \ P) = Cardinality(Pairs(s)) - Cardinality(P)
  BY <1>4, FS_Difference
<1>. QED
  BY <1>1, <1>2, <1>3, <1>5, Zenon

LEMMA PairsSame ==
  ASSUME NEW s, NEW s2, \A u \in Threads : s2[u] = s[u]
  PROVE  Pairs(s2) = Pairs(s)
BY DEF Pairs

LEMMA PairsEmpty ==
  ASSUME NEW s, \A u \in Threads : s[u] = {}
  PROVE  IsFiniteSet(Pairs(s)) /\ Cardinality(Pairs(s)) = 0
<1>1. Pairs(s) = {}
  BY DEF Pairs
<1>. QED
  BY <1>1, FS_EmptySet

(* The lowest free descriptor. *)
LEMMA NewFdFree ==
  ASSUME Types, FreeFds # {}
  PROVE  NewFd \in Fds /\ fds[NewFd] = None
<1>1. FreeFds \subseteq Nat
  BY MirrorAssumption DEF FreeFds, Fds
<1>2. \E n \in FreeFds : \A m \in FreeFds : ~(m < n)
  <2>1. PICK n \in FreeFds : \A m \in FreeFds : ~(<<m, n>> \in OpToRel(<, Nat))
    BY <1>1, WFMin, NatLessThanWellFounded
  <2>. QED
    BY <2>1, <1>1 DEF OpToRel
<1>3. \E n \in FreeFds : \A m \in FreeFds : n <= m
  BY <1>1, <1>2
<1>4. NewFd \in FreeFds
  BY <1>3 DEF NewFd
<1>. QED
  BY <1>4 DEF FreeFds
-----------------------------------------------------------------------------
(* A step of thread t, seen by the others. *)

Steps(t) ==
  /\ \A u \in Threads \ {t} : th'[u] = th[u] /\ refs'[u] = refs[u] /\ handles'[u] = handles[u]
  /\ nalloc <= nalloc'
  /\ \A a \in 1..nalloc : inode'[a].ino = inode[a].ino
  /\ fm' = fm \/ fm \in {None, t}
  /\ \A a \in Addrs : im'[a] = im[a] \/ im[a] \in {None, t}

LEMMA OthersKeep ==
  ASSUME Types, Types', ThreadsOK, NEW t \in Threads, Steps(t),
         RequestOK(t)', LocksOK(t)', HostOK(t)'
  PROVE  ThreadsOK'
<1>1. SUFFICES ASSUME NEW u \in Threads \ {t}
               PROVE  (RequestOK(u) /\ LocksOK(u) /\ HostOK(u))'
  BY DEF ThreadsOK
<1>2. RequestOK(u) /\ LocksOK(u) /\ HostOK(u)
  BY <1>1 DEF ThreadsOK
<1>3. th'[u] = th[u] /\ refs'[u] = refs[u] /\ handles'[u] = handles[u]
  BY <1>1 DEF Steps
<1>4. nalloc \in Nat /\ nalloc' \in Nat /\ nalloc <= nalloc' /\ nalloc \in 0..MaxRequests
  BY DEF Types, Steps
<1>5. RequestOK(u)'
  BY <1>2, <1>3, <1>4 DEF RequestOK, Steps, NodePcs
<1>6. LocksOK(u)'
  <2>1. th[u].pc \in {"lk_new", "fg_free"} => fm' = u
    BY <1>1, <1>2, MirrorAssumption DEF LocksOK, Steps
  <2>2. th[u].pc \in {"fg_erase", "ul_close"} => im'[th[u].nd] = u
    <3>1. th[u].pc \in {"fg_erase", "ul_close"} => th[u].nd \in Addrs
      BY <1>2, <1>4, MirrorAssumption DEF RequestOK, NodePcs, ErasePcs, OwingPcs, Addrs
    <3>. QED
      BY <1>1, <1>2, <3>1, MirrorAssumption DEF LocksOK, Steps
  <2>. QED
    BY <1>3, <2>1, <2>2 DEF LocksOK
<1>7. HostOK(u)'
  BY <1>2, <1>3, <1>4 DEF HostOK, Types, Handles, Addrs
<1>. QED
  BY <1>5, <1>6, <1>7

(* Lookups are counted and held, or given back, in the same step. *)
LookupMoves(t, a) ==
  \/ inode'[a].nlookup = inode[a].nlookup + 1 /\ Holds(t, a)' = Holds(t, a) + 1
  \/ \E n \in 0..Holds(t, a) : /\ inode'[a].nlookup = inode[a].nlookup - n
                               /\ Holds(t, a)' = Holds(t, a) - n

LEMMA HoldsNat ==
  ASSUME Types, NEW t \in Threads, NEW a \in Addrs
  PROVE  Holds(t, a) \in Nat /\ Owed(t, a) \in Nat /\ refs[t][a] \in Nat
<1>1. th[t] \in ThStates /\ refs[t][a] \in Nat
  BY DEF Types
<1>2. th[t].cnt \in Nat
  BY <1>1 DEF ThStates
<1>3. Owed(t, a) \in Nat
  BY <1>2 DEF Owed
<1>. QED
  BY <1>1, <1>3 DEF Holds

LEMMA LookupsStep ==
  ASSUME Types, Types', LookupsOK, NEW t \in Threads,
         \A u \in Threads \ {t}, a \in Addrs : Holds(u, a)' = Holds(u, a),
         \A a \in alive' : \/ a \in alive /\ LookupMoves(t, a)
                           \/ inode'[a].nlookup = 0 /\ \A u \in Threads : Holds(u, a)' = 0
  PROVE  LookupsOK'
<1>1. SUFFICES ASSUME NEW a \in alive'
               PROVE  /\ IsFiniteSet(References(a)')
                      /\ inode'[a].nlookup = Cardinality(References(a)')
  BY DEF LookupsOK
<1>2. a \in Addrs
  BY MirrorAssumption DEF Types, Addrs
<1>. DEFINE s == [u \in Threads |-> 1..Holds(u, a)]
            s2 == [u \in Threads |-> 1..Holds(u, a)']
<1>3. References(a) = Pairs(s) /\ References(a)' = Pairs(s2)
  BY DEF References
<1>4. /\ \A u \in Threads : s[u] = 1..Holds(u, a) /\ s2[u] = 1..Holds(u, a)'
      /\ \A u \in Threads \ {t} : s2[u] = s[u]
  BY <1>2
<1>. HIDE DEF s, s2
<1>5. CASE a \in alive /\ LookupMoves(t, a)
  <2>1. IsFiniteSet(Pairs(s)) /\ inode[a].nlookup = Cardinality(Pairs(s))
    BY <1>3, <1>5 DEF LookupsOK
  <2>2. Holds(t, a) \in Nat
    BY <1>2, HoldsNat
  <2>3. CASE inode'[a].nlookup = inode[a].nlookup + 1 /\ Holds(t, a)' = Holds(t, a) + 1
    <3>1. Holds(t, a) + 1 \notin s[t] /\ s2[t] = s[t] \cup {Holds(t, a) + 1}
      BY <1>4, <2>2, <2>3
    <3>2. IsFiniteSet(Pairs(s2)) /\ Cardinality(Pairs(s2)) = Cardinality(Pairs(s)) + 1
      BY <1>4, <2>1, <3>1, PairsGrow
    <3>. QED
      BY <1>3, <2>1, <2>3, <3>2
  <2>4. ASSUME NEW n \in 0..Holds(t, a),
               inode'[a].nlookup = inode[a].nlookup - n, Holds(t, a)' = Holds(t, a) - n
        PROVE  IsFiniteSet(Pairs(s2)) /\ inode'[a].nlookup = Cardinality(Pairs(s2))
    <3>. DEFINE D == Holds(t, a) - n + 1 .. Holds(t, a)
    <3>1. D \in SUBSET s[t] /\ s2[t] = s[t] \ D
      BY <1>4, <2>2, <2>4
    <3>2. Cardinality(D) = n
      <4>1. PICK m \in Nat : m = Holds(t, a)
        BY <2>2
      <4>2. n \in Int /\ m - n + 1 \in Int /\ m \in Int /\ n \in 0..m
        BY <2>4, <4>1
      <4>3. Cardinality(m - n + 1 .. m) = n
        BY <4>2, FS_Interval
      <4>. QED
        BY <4>1, <4>3
    <3>. HIDE DEF D
    <3>3. IsFiniteSet(Pairs(s2)) /\ Cardinality(Pairs(s2)) = Cardinality(Pairs(s)) - Cardinality(D)
      <4>1. Loses(s, s2, t, D)
        BY <1>4, <3>1 DEF Loses
      <4>. QED
        BY <2>1, <4>1, PairsShrink
    <3>. QED
      BY <2>1, <2>4, <3>2, <3>3
  <2>. QED
    BY <1>3, <1>5, <2>3, <2>4 DEF LookupMoves
<1>6. CASE inode'[a].nlookup = 0 /\ \A u \in Threads : Holds(u, a)' = 0
  <2>1. \A u \in Threads : s2[u] = {}
    BY <1>4, <1>6
  <2>. QED
    BY <1>3, <1>6, <2>1, PairsEmpty
<1>. QED
  BY <1>5, <1>6

(* The same for the open files of an inode. *)
OpenMoves(t, a) ==
  \/ inode'[a].nopen = inode[a].nopen /\ Opened(t, a)' = Opened(t, a)
  \/ /\ inode'[a].nopen = inode[a].nopen + 1 /\ cleared'
     /\ Opened(t, a)' = Opened(t, a)
  \/ /\ inode'[a].nopen = inode[a].nopen + 1
     /\ \E h : h \notin Opened(t, a) /\ Opened(t, a)' = Opened(t, a) \cup {h}
  \/ /\ inode'[a].nopen = inode[a].nopen - 1
     /\ \E h : h \in Opened(t, a) /\ Opened(t, a)' = Opened(t, a) \ {h}

LEMMA OpensStep ==
  ASSUME Types, Types', OpensOK, NEW t \in Threads, cleared => cleared',
         \A u \in Threads \ {t}, a \in Addrs : Opened(u, a)' = Opened(u, a),
         \A a \in alive' : \/ a \in alive /\ OpenMoves(t, a)
                           \/ inode'[a].nopen = 0 /\ \A u \in Threads : Opened(u, a)' = {}
  PROVE  OpensOK'
<1>1. SUFFICES ASSUME NEW a \in alive'
               PROVE  /\ IsFiniteSet(OpenFiles(a)')
                      /\ inode'[a].nopen >= Cardinality(OpenFiles(a)')
                      /\ ~cleared' => inode'[a].nopen = Cardinality(OpenFiles(a)')
  BY DEF OpensOK
<1>2. a \in Addrs
  BY MirrorAssumption DEF Types, Addrs
<1>. DEFINE s == [u \in Threads |-> Opened(u, a)]
            s2 == [u \in Threads |-> Opened(u, a)']
<1>3. OpenFiles(a) = Pairs(s) /\ OpenFiles(a)' = Pairs(s2)
  BY DEF OpenFiles
<1>4. /\ \A u \in Threads : s[u] = Opened(u, a) /\ s2[u] = Opened(u, a)'
      /\ \A u \in Threads \ {t} : s2[u] = s[u]
  BY <1>2
<1>. HIDE DEF s, s2
<1>5. CASE a \in alive /\ OpenMoves(t, a)
  <2>. DEFINE n == inode[a].nopen
              n2 == inode'[a].nopen
              c == Cardinality(Pairs(s))
              c2 == Cardinality(Pairs(s2))
  <2>1. IsFiniteSet(Pairs(s)) /\ c \in Nat /\ n \in Nat /\ n >= c /\ (~cleared' => n = c)
    <3>1. IsFiniteSet(Pairs(s)) /\ n >= c /\ (~cleared => n = c)
      BY <1>3, <1>5 DEF OpensOK
    <3>2. n \in Nat
      BY <1>2 DEF Types, InodeRec
    <3>. QED
      BY <3>1, <3>2, FS_CardinalityType
  <2>2. CASE n2 \in {n, n + 1} /\ (n2 = n + 1 => cleared') /\ Opened(t, a)' = Opened(t, a)
    <3>1. Pairs(s2) = Pairs(s)
      BY <1>4, <2>2, PairsSame
    <3>. QED
      BY <1>3, <2>1, <2>2, <3>1
  <2>3. ASSUME n2 = n + 1, NEW h, h \notin Opened(t, a), Opened(t, a)' = Opened(t, a) \cup {h}
        PROVE  IsFiniteSet(Pairs(s2)) /\ n2 >= c2 /\ (~cleared' => n2 = c2)
    <3>1. h \notin s[t] /\ s2[t] = s[t] \cup {h}
      BY <1>4, <2>3
    <3>2. IsFiniteSet(Pairs(s2)) /\ c2 = c + 1
      BY <1>4, <2>1, <3>1, PairsGrow
    <3>. HIDE DEF n, n2, c, c2
    <3>. QED
      BY <2>1, <2>3, <3>2
  <2>4. ASSUME n2 = n - 1, NEW h, h \in Opened(t, a), Opened(t, a)' = Opened(t, a) \ {h}
        PROVE  IsFiniteSet(Pairs(s2)) /\ n2 >= c2 /\ (~cleared' => n2 = c2)
    <3>1. {h} \in SUBSET s[t] /\ s2[t] = s[t] \ {h}
      BY <1>4, <2>4
    <3>2. Cardinality({h}) = 1
      BY FS_Singleton
    <3>3. PICK D : D = {h}
      OBVIOUS
    <3>4. IsFiniteSet(Pairs(s2)) /\ c2 = c - Cardinality(D)
      <4>1. Loses(s, s2, t, D)
        BY <1>4, <3>1, <3>3 DEF Loses
      <4>. QED
        BY <2>1, <4>1, PairsShrink
    <3>5. c2 = c - 1
      BY <3>2, <3>3, <3>4
    <3>. HIDE DEF n, n2, c, c2
    <3>. QED
      BY <2>1, <2>4, <3>4, <3>5
  <2>5. CASE inode'[a].nopen = inode[a].nopen /\ Opened(t, a)' = Opened(t, a)
    <3>1. n2 = n /\ n # n + 1
      BY <2>1, <2>5
    <3>. QED
      BY <2>2, <2>5, <3>1
  <2>6. CASE inode'[a].nopen = inode[a].nopen + 1 /\ cleared' /\ Opened(t, a)' = Opened(t, a)
    BY <2>2, <2>6
  <2>7. CASE /\ inode'[a].nopen = inode[a].nopen + 1
             /\ \E h : h \notin Opened(t, a) /\ Opened(t, a)' = Opened(t, a) \cup {h}
    BY <1>3, <2>3, <2>7
  <2>8. CASE /\ inode'[a].nopen = inode[a].nopen - 1
             /\ \E h : h \in Opened(t, a) /\ Opened(t, a)' = Opened(t, a) \ {h}
    BY <1>3, <2>4, <2>8
  <2>. QED
    BY <1>5, <2>5, <2>6, <2>7, <2>8 DEF OpenMoves
<1>6. CASE inode'[a].nopen = 0 /\ \A u \in Threads : Opened(u, a)' = {}
  <2>1. \A u \in Threads : s2[u] = {}
    BY <1>4, <1>6
  <2>. QED
    BY <1>3, <1>6, <2>1, PairsEmpty
<1>. QED
  BY <1>5, <1>6

(* The inodes that have to be in the table stay there. *)
AliveMoves(t) ==
  /\ \A a \in alive \ alive', u \in Threads :
       Holds(u, a) = 0 /\ (u # t /\ th[u].pc \in ErasePcs \cup {"lk_new"} => th[u].nd # a)
  /\ \A a \in Addrs : Holds(t, a)' > 0 => Holds(t, a) > 0 \/ a \in alive'
  /\ th'[t].pc = "lk_new" => th'[t].nd \in alive'
  /\ Erasing(t)' => /\ th'[t].nd \in alive' /\ inode'[th'[t].nd].nlookup = 0
                    /\ \A u \in Threads \ {t} : Erasing(u) => th[u].nd # th'[t].nd
  /\ \A u \in Threads \ {t} : Erasing(u) => inode'[th[u].nd].nlookup = inode[th[u].nd].nlookup

LEMMA AliveStep ==
  ASSUME Types, Types', AliveOK, NEW t \in Threads,
         \A u \in Threads \ {t} : th'[u] = th[u],
         \A u \in Threads \ {t}, a \in Addrs : Holds(u, a)' = Holds(u, a),
         raced => raced', cleared => cleared',
         ~raced' /\ ~cleared' => AliveMoves(t)
  PROVE  AliveOK'
<1>1. SUFFICES ASSUME ~raced', ~cleared' PROVE InTable'
  BY Zenon DEF AliveOK
<1>2. InTable /\ AliveMoves(t)
  BY <1>1, Zenon DEF AliveOK
<1>3. ASSUME NEW u \in Threads, NEW a \in Addrs, Holds(u, a)' > 0 PROVE a \in alive'
  <2>1. CASE u = t
    BY <1>2, <1>3, <2>1, HoldsNat DEF InTable, AliveMoves
  <2>2. CASE u # t
    BY <1>2, <1>3, <2>2, HoldsNat DEF InTable, AliveMoves
  <2>. QED
    BY <2>1, <2>2
<1>4. ASSUME NEW u \in Threads, th'[u].pc = "lk_new" PROVE th'[u].nd \in alive'
  BY <1>2, <1>4 DEF InTable, AliveMoves
<1>5. ASSUME NEW u \in Threads, Erasing(u)' PROVE th'[u].nd \in alive' /\ inode'[th'[u].nd].nlookup = 0
  BY <1>2, <1>5 DEF InTable, AliveMoves, Erasing
<1>6. ASSUME NEW u \in Threads, NEW v \in Threads, Erasing(u)', Erasing(v)', th'[u].nd = th'[v].nd
      PROVE  u = v
  BY <1>2, <1>6 DEF InTable, AliveMoves, Erasing
<1>. QED
  BY <1>3, <1>4, <1>5, <1>6 DEF InTable

LEMMA BudgetStep ==
  ASSUME Types, Types', BudgetOK, NEW t \in Threads,
         \A u \in Threads \ {t} : th'[u] = th[u],
         \/ nalloc' = nalloc /\ sent' = sent + 1 /\ sent < MaxRequests
         \/ /\ sent' = sent
            /\ t \in Allocating' => t \in Allocating /\ nalloc' = nalloc
            /\ nalloc' = nalloc \/ (nalloc' = nalloc + 1 /\ t \in Allocating)
  PROVE  BudgetOK'
<1>. USE MirrorAssumption
<1>. DEFINE A == Allocating
            B == Allocating'
<1>1. /\ IsFiniteSet(A) /\ Cardinality(A) \in Nat
      /\ nalloc + Cardinality(A) <= sent /\ sent <= MaxRequests
  BY FS_CardinalityType DEF BudgetOK
<1>2. nalloc \in Nat /\ nalloc' \in Nat /\ sent \in Nat /\ sent' \in Nat
  BY DEF Types
<1>3. \/ B = A
      \/ t \notin A /\ B = A \cup {t}
      \/ t \in A /\ B = A \ {t}
  BY DEF Allocating
<1>4. t \in Allocating <=> t \in A
  OBVIOUS
<1>5. t \in Allocating' <=> t \in B
  OBVIOUS
<1>. HIDE DEF A, B
<1>6. CASE B = A
  BY <1>1, <1>2, <1>4, <1>5, <1>6 DEF BudgetOK, A, B
<1>7. CASE t \notin A /\ B = A \cup {t}
  <2>1. IsFiniteSet(B) /\ Cardinality(B) = Cardinality(A) + 1
    BY <1>1, <1>7, FS_AddElement
  <2>. QED
    BY <1>1, <1>2, <1>4, <1>5, <1>7, <2>1 DEF BudgetOK, A, B
<1>8. CASE t \in A /\ B = A \ {t}
  <2>1. IsFiniteSet(B) /\ Cardinality(B) = Cardinality(A) - 1
    BY <1>1, <1>8, FS_RemoveElement
  <2>. QED
    BY <1>1, <1>2, <1>4, <1>5, <1>8, <2>1 DEF BudgetOK, A, B
<1>. QED
  BY <1>3, <1>6, <1>7, <1>8

-----------------------------------------------------------------------------
(* Descriptors: S and f before, T and g after a step. *)

LEMMA FdKeep ==
  ASSUME NEW S, NEW T, NEW f, NEW g, Once(S), Open(S, f),
         T \subseteq S, \A o \in T : g[o[3]] = f[o[3]]
  PROVE  Once(T) /\ Open(T, g)
BY DEF Once, Open

FdOpens(S, T, f, g, n, i, x) ==
  /\ T \subseteq S \cup {x} /\ x[3] = n /\ i \in x[4]
  /\ n \in Fds /\ f[n] = None /\ i # None /\ g = [f EXCEPT ![n] = i]
LEMMA FdOpened ==
  ASSUME NEW V, NEW S, NEW T, NEW f \in [Fds -> V], NEW g, NEW n, NEW i, NEW x,
         Once(S), Open(S, f), FdOpens(S, T, f, g, n, i, x)
  PROVE  Once(T) /\ Open(T, g)
BY DEF Once, Open, FdOpens

FdCloses(S, T, f, g, x) == T \subseteq S \ {x} /\ x \in S /\ g = [f EXCEPT ![x[3]] = None]
LEMMA FdClosed ==
  ASSUME NEW V, NEW S, NEW T, NEW f \in [Fds -> V], NEW g, NEW x,
         Once(S), Open(S, f), FdCloses(S, T, f, g, x)
  PROVE  Once(T) /\ Open(T, g)
BY DEF Once, Open, FdCloses

FdPasses(S, T, x, y) == /\ T \subseteq (S \ {x}) \cup {y} /\ x \in S
                        /\ y[3] = x[3] /\ y[4] = x[4]
LEMMA FdPassed ==
  ASSUME NEW S, NEW T, NEW f, NEW x, NEW y, Once(S), Open(S, f), FdPasses(S, T, x, y)
  PROVE  Once(T) /\ Open(T, f)
BY DEF Once, Open, FdPasses

LEMMA OwnedStep ==
  ASSUME NEW t \in Threads, \A u \in Threads \ {t} : ThreadOwns(u)' = ThreadOwns(u),
         NEW X, ThreadOwns(t)' \subseteq X,
         \A a \in alive' : InodeOwns(a)' \subseteq X,
         \A u \in Threads \ {t} : ThreadOwns(u) \subseteq X
  PROVE  Owned' \subseteq X
<1>1. ASSUME NEW o \in Owned' PROVE o \in X
  <2>1. CASE \E a \in alive' : o \in InodeOwns(a)'
    BY <2>1
  <2>2. CASE \E u \in Threads : o \in ThreadOwns(u)'
    BY <2>2
  <2>3. (\E a \in alive' : o \in InodeOwns(a)') \/ (\E u \in Threads : o \in ThreadOwns(u)')
    <3>1. \/ o \in UNION {InodeOwns(a)' : a \in alive'}
          \/ o \in UNION {ThreadOwns(u)' : u \in Threads}
      BY <1>1 DEF Owned
    <3>. QED
      BY <3>1, Zenon
  <2>. QED
    BY <2>1, <2>2, <2>3
<1>. QED
  BY <1>1
-----------------------------------------------------------------------------
(* The request of a thread after a step. *)

Now(t, l, nd, ino, fd, fh, cnt) ==
  /\ th' \in [Threads -> ThStates]
  /\ \A u \in Threads \ {t} : th'[u] = th[u]
  /\ th'[t].pc = l /\ th'[t].op = th[t].op /\ th'[t].name = th[t].name
  /\ th'[t].nd = nd /\ th'[t].ino = ino /\ th'[t].fd = fd /\ th'[t].fh = fh /\ th'[t].cnt = cnt
NowIdle(t) == /\ th' \in [Threads -> ThStates]
              /\ \A u \in Threads \ {t} : th'[u] = th[u]
              /\ th'[t] = NoRequest

LEMMA RecordNow ==
  ASSUME Types, NEW t \in Threads, NEW r \in ThStates, th' = [th EXCEPT ![t] = r]
  PROVE  /\ th' \in [Threads -> ThStates] /\ th'[t] = r
         /\ \A u \in Threads \ {t} : th'[u] = th[u]
BY DEF Types

LEMMA IdleNow ==
  ASSUME Types, NEW t \in Threads, Idle(t)
  PROVE  NowIdle(t)
<1>1. NoRequest \in ThStates
  BY DEF NoRequest, ThStates, Pcs
<1>. QED
  BY <1>1 DEF Idle, NowIdle, Types

LEMMA FieldTypes ==
  ASSUME NEW p \in ThStates
  PROVE  /\ p.pc \in Pcs /\ p.name \in Names \cup {None} /\ p.nd \in Addrs \cup {None}
         /\ p.ino \in Inos \cup {None} /\ p.fd \in Fds \cup {Released, None}
         /\ p.fh \in Fds \cup {None} /\ p.cnt \in Nat
         /\ p.op \in LookupOps \cup {"open", "setattr", "forget", "release", "destroy", None}
BY DEF ThStates

LEMMA GotoNow ==
  ASSUME Types, NEW t \in Threads, NEW l \in Pcs,
         Goto(t, l)
  PROVE  Now(t, l, th[t].nd, th[t].ino, th[t].fd, th[t].fh, th[t].cnt)
<1>1. PICK p \in ThStates : p = th[t]
  BY DEF Types
<1>2. l \in Pcs
  OBVIOUS
<1>3. PICK r : r = [p EXCEPT !.pc = l]
  OBVIOUS
<1>4. r \in ThStates
  BY <1>2, <1>3 DEF ThStates
<1>5. /\ r.pc = l /\ r.op = p.op /\ r.name = p.name /\ r.nd = p.nd
      /\ r.ino = p.ino /\ r.fd = p.fd /\ r.fh = p.fh /\ r.cnt = p.cnt
  BY <1>3 DEF ThStates
<1>6. th' = [th EXCEPT ![t] = r]
  BY <1>1, <1>3 DEF Types, Goto
<1>. QED
  BY <1>1, <1>4, <1>5, <1>6, RecordNow DEF Now

LEMMA OwesNow ==
  ASSUME Types, NEW t \in Threads,
         th' = [th EXCEPT ![t].pc = "fg_count", ![t].cnt = 1]
  PROVE  Now(t, "fg_count", th[t].nd, th[t].ino, th[t].fd, th[t].fh, 1)
<1>1. PICK p \in ThStates : p = th[t]
  BY DEF Types
<1>2. "fg_count" \in Pcs
  BY DEF Pcs, NodePcs
<1>3. PICK r : r = [p EXCEPT !.pc = "fg_count", !.cnt = 1]
  OBVIOUS
<1>4. r \in ThStates
  BY <1>2, <1>3 DEF ThStates
<1>5. /\ r.pc = "fg_count" /\ r.op = p.op /\ r.name = p.name /\ r.nd = p.nd
      /\ r.ino = p.ino /\ r.fd = p.fd /\ r.fh = p.fh /\ r.cnt = 1
  BY <1>3 DEF ThStates
<1>6. th' = [th EXCEPT ![t] = r]
  BY <1>1, <1>3 DEF Types, Goto
<1>. QED
  BY <1>1, <1>4, <1>5, <1>6, RecordNow DEF Now

LEMMA NodeNow ==
  ASSUME Types, NEW t \in Threads, NEW l \in Pcs, NEW a \in Addrs,
         th' = [th EXCEPT ![t].nd = a, ![t].pc = l]
  PROVE  Now(t, l, a, th[t].ino, th[t].fd, th[t].fh, th[t].cnt)
<1>1. PICK p \in ThStates : p = th[t]
  BY DEF Types
<1>2. l \in Pcs
  OBVIOUS
<1>3. PICK r : r = [p EXCEPT !.nd = a, !.pc = l]
  OBVIOUS
<1>4. r \in ThStates
  BY <1>2, <1>3 DEF ThStates
<1>5. /\ r.pc = l /\ r.op = p.op /\ r.name = p.name /\ r.nd = a
      /\ r.ino = p.ino /\ r.fd = p.fd /\ r.fh = p.fh /\ r.cnt = p.cnt
  BY <1>3 DEF ThStates
<1>6. th' = [th EXCEPT ![t] = r]
  BY <1>1, <1>3 DEF Types, Goto
<1>. QED
  BY <1>1, <1>4, <1>5, <1>6, RecordNow DEF Now

LEMMA NewFdNow ==
  ASSUME Types, NEW t \in Threads, NEW n \in Fds, NEW i \in Inos,
         th' = [th EXCEPT ![t].pc = "lk_table", ![t].fd = n, ![t].ino = i]
  PROVE  Now(t, "lk_table", th[t].nd, i, n, th[t].fh, th[t].cnt)
<1>1. PICK p \in ThStates : p = th[t]
  BY DEF Types
<1>2. "lk_table" \in Pcs
  BY DEF Pcs, LookupPcs
<1>3. PICK r : r = [p EXCEPT !.pc = "lk_table", !.fd = n, !.ino = i]
  OBVIOUS
<1>4. r \in ThStates
  BY <1>2, <1>3 DEF ThStates
<1>5. /\ r.pc = "lk_table" /\ r.op = p.op /\ r.name = p.name /\ r.nd = p.nd
      /\ r.ino = i /\ r.fd = n /\ r.fh = p.fh /\ r.cnt = p.cnt
  BY <1>3 DEF ThStates
<1>6. th' = [th EXCEPT ![t] = r]
  BY <1>1, <1>3 DEF Types, Goto
<1>. QED
  BY <1>1, <1>4, <1>5, <1>6, RecordNow DEF Now

LEMMA ReadFdNow ==
  ASSUME Types, NEW t \in Threads, NEW n \in Fds \cup {Released, None},
         th' = [th EXCEPT ![t].fd = n, ![t].pc = "use_fd"]
  PROVE  Now(t, "use_fd", th[t].nd, th[t].ino, n, th[t].fh, th[t].cnt)
<1>1. PICK p \in ThStates : p = th[t]
  BY DEF Types
<1>2. "use_fd" \in Pcs
  BY DEF Pcs, NodePcs, UsePcs
<1>3. PICK r : r = [p EXCEPT !.fd = n, !.pc = "use_fd"]
  OBVIOUS
<1>4. r \in ThStates
  BY <1>2, <1>3 DEF ThStates
<1>5. /\ r.pc = "use_fd" /\ r.op = p.op /\ r.name = p.name /\ r.nd = p.nd
      /\ r.ino = p.ino /\ r.fd = n /\ r.fh = p.fh /\ r.cnt = p.cnt
  BY <1>3 DEF ThStates
<1>6. th' = [th EXCEPT ![t] = r]
  BY <1>1, <1>3 DEF Types, Goto
<1>. QED
  BY <1>1, <1>4, <1>5, <1>6, RecordNow DEF Now

LEMMA FhNow ==
  ASSUME Types, NEW t \in Threads, NEW l \in Pcs, NEW n \in Fds,
         th' = [th EXCEPT ![t].fh = n, ![t].pc = l]
  PROVE  Now(t, l, th[t].nd, th[t].ino, th[t].fd, n, th[t].cnt)
<1>1. PICK p \in ThStates : p = th[t]
  BY DEF Types
<1>2. l \in Pcs
  OBVIOUS
<1>3. PICK r : r = [p EXCEPT !.fh = n, !.pc = l]
  OBVIOUS
<1>4. r \in ThStates
  BY <1>2, <1>3 DEF ThStates
<1>5. /\ r.pc = l /\ r.op = p.op /\ r.name = p.name /\ r.nd = p.nd
      /\ r.ino = p.ino /\ r.fd = p.fd /\ r.fh = n /\ r.cnt = p.cnt
  BY <1>3 DEF ThStates
<1>6. th' = [th EXCEPT ![t] = r]
  BY <1>1, <1>3 DEF Types, Goto
<1>. QED
  BY <1>1, <1>4, <1>5, <1>6, RecordNow DEF Now

LEMMA AfterLookupNow ==
  ASSUME Types, NEW t \in Threads, NEW a \in Addrs, AfterLookup(t, a), th[t].op \in LookupOps
  PROVE  \/ /\ th[t].op \in {"unlink", "create", "readdirplus"} /\ refs' = refs
            /\ Now(t, CASE th[t].op = "unlink" -> "ul_release" [] th[t].op = "create" -> "cr_count"
                        [] OTHER -> "rd_entry",
                   th[t].nd, th[t].ino, None, th[t].fh, th[t].cnt)
         \/ /\ th[t].op \in {"lookup", "mknod"} /\ refs' = [refs EXCEPT ![t][a] = @ + 1]
            /\ NowIdle(t)
<1>1. PICK p \in ThStates : p = th[t]
  BY DEF Types
<1>2. ASSUME NEW l \in {"ul_release", "cr_count", "rd_entry"},
             th' = [th EXCEPT ![t] = [p EXCEPT !.pc = l, !.fd = None]]
      PROVE  Now(t, l, th[t].nd, th[t].ino, None, th[t].fh, th[t].cnt)
  <2>1. l \in Pcs
    BY DEF Pcs, NodePcs, OwingPcs
  <2>2. PICK r : r = [p EXCEPT !.pc = l, !.fd = None]
    OBVIOUS
  <2>3. r \in ThStates
    BY <2>1, <2>2 DEF ThStates
  <2>4. /\ r.pc = l /\ r.op = p.op /\ r.name = p.name /\ r.nd = p.nd
        /\ r.ino = p.ino /\ r.fd = None /\ r.fh = p.fh /\ r.cnt = p.cnt
    BY <2>2 DEF ThStates
  <2>. QED
    BY <1>1, <1>2, <2>2, <2>3, <2>4, RecordNow DEF Now
<1>3. CASE th[t].op = "unlink"
  BY <1>1, <1>2, <1>3 DEF AfterLookup, Types
<1>4. CASE th[t].op = "create"
  BY <1>1, <1>2, <1>4 DEF AfterLookup, Types
<1>5. CASE th[t].op = "readdirplus"
  BY <1>1, <1>2, <1>5 DEF AfterLookup, Types
<1>6. CASE th[t].op \in {"lookup", "mknod"}
  <2>1. Idle(t) /\ refs' = [refs EXCEPT ![t][a] = @ + 1]
    BY <1>1, <1>6 DEF AfterLookup, Types, Idle
  <2>. QED
    BY <1>6, <2>1, IdleNow
<1>. QED
  BY <1>3, <1>4, <1>5, <1>6 DEF LookupOps
-----------------------------------------------------------------------------
(* Steps that leave the inodes alone. *)

LEMMA OthersSame ==
  ASSUME NEW t \in Threads, Steps(t), NEW u \in Threads \ {t}
  PROVE  /\ th'[u] = th[u] /\ ThreadOwns(u)' = ThreadOwns(u)
         /\ \A a \in Addrs : Holds(u, a)' = Holds(u, a) /\ Opened(u, a)' = Opened(u, a)
<1>1. th'[u] = th[u] /\ refs'[u] = refs[u] /\ handles'[u] = handles[u]
  BY DEF Steps
<1>2. ThreadOwns(u)' = ThreadOwns(u)
  BY <1>1 DEF ThreadOwns
<1>3. \A a \in Addrs : Holds(u, a)' = Holds(u, a)
  BY <1>1 DEF Holds, Owed
<1>4. \A a \in Addrs : Opened(u, a)' = Opened(u, a)
  BY <1>1 DEF Opened
<1>. QED
  BY <1>1, <1>2, <1>3, <1>4

BudgetMoves(t) == \/ nalloc' = nalloc /\ sent' = sent + 1 /\ sent < MaxRequests
                  \/ /\ sent' = sent
                     /\ t \in Allocating' => t \in Allocating /\ nalloc' = nalloc
                     /\ nalloc' = nalloc \/ (nalloc' = nalloc + 1 /\ t \in Allocating)

Quiet(t) ==
  /\ UNCHANGED <<table, alive, nalloc, inode, raced, cleared>> /\ ended' = "no"
  /\ Types' /\ Steps(t) /\ RequestOK(t)' /\ LocksOK(t)' /\ HostOK(t)'
  /\ \A a \in Addrs : Holds(t, a)' = Holds(t, a) /\ Opened(t, a)' = Opened(t, a)
  /\ th'[t].pc = "lk_new" => cleared \/ th'[t].nd \in alive
  /\ Erasing(t)' => Erasing(t) /\ th'[t].nd = th[t].nd
  /\ th'[t].pc \notin {"ds_inode", "ds_free"}
  /\ BudgetMoves(t)
  /\ FdsOK'

LEMMA EndsNot ==
  ASSUME ended' = "no"
  PROVE  EndsOnlyByRace'
BY DEF EndsOnlyByRace

(* A step that leaves the chains alone, or frees what it takes from them. *)
LEMMA TableStep ==
  ASSUME IInv, NEW t \in Threads, Steps(t), cleared => cleared',
         ~cleared' /\ TableOK => table' = alive' /\ alive' \subseteq alive /\ ~Destroying(t)'
  PROVE  TableOK'
<1>1. SUFFICES ASSUME ~cleared'
               PROVE  /\ table' = alive'
                      /\ \A a, b \in alive' : inode'[a].ino = inode'[b].ino => a = b
                      /\ \A u \in Threads : ~Destroying(u)'
  BY Zenon DEF TableOK
<1>2. ~cleared /\ TableOK /\ Types
  BY <1>1, Zenon DEF IInv
<1>3. /\ \A a, b \in alive : inode[a].ino = inode[b].ino => a = b
      /\ \A u \in Threads : ~Destroying(u)
  BY <1>2, Zenon DEF TableOK
<1>4. table' = alive' /\ alive' \subseteq alive /\ ~Destroying(t)'
  BY <1>1, <1>2, Zenon
<1>5. \A a \in alive : inode'[a].ino = inode[a].ino
  <2>1. alive \subseteq 1..nalloc
    BY <1>2 DEF Types
  <2>. QED
    BY <2>1 DEF Steps
<1>6. ASSUME NEW u \in Threads \ {t} PROVE ~Destroying(u)'
  <2>1. th'[u] = th[u]
    BY DEF Steps
  <2>. QED
    BY <1>3, <2>1 DEF Destroying
<1>. QED
  BY <1>3, <1>4, <1>5, <1>6, Zenon

LEMMA TableStays ==
  ASSUME IInv, NEW t \in Threads, Steps(t), UNCHANGED <<table, alive, cleared>>,
         th'[t].pc \notin {"ds_inode", "ds_free"}
  PROVE  TableOK'
<1>1. ~Destroying(t)'
  BY DEF Destroying
<1>2. ~cleared' /\ TableOK => table' = alive' /\ alive' \subseteq alive
  BY Zenon DEF TableOK
<1>. QED
  BY <1>1, <1>2, TableStep, Zenon

LEMMA QuietStep ==
  ASSUME IInv, NEW t \in Threads, Quiet(t)
  PROVE  IInv'
<1>1. /\ Types /\ ThreadsOK /\ LookupsOK /\ OpensOK /\ AliveOK /\ BudgetOK /\ FdsOK
      /\ Types' /\ Steps(t) /\ RequestOK(t)' /\ LocksOK(t)' /\ HostOK(t)' /\ FdsOK'
  BY DEF IInv, Quiet
<1>2. ThreadsOK'
  BY <1>1, OthersKeep
<1>3. alive' = alive /\ alive \subseteq Addrs /\ inode' = inode /\ nalloc' = nalloc
  BY <1>1, MirrorAssumption DEF Quiet, Types, Addrs
<1>4. LookupsOK'
  <2>1. \A a \in alive : LookupMoves(t, a)
    <3>1. SUFFICES ASSUME NEW a \in alive PROVE LookupMoves(t, a)
      OBVIOUS
    <3>2. a \in Addrs /\ Holds(t, a)' = Holds(t, a) /\ Holds(t, a) \in Nat
      BY <1>1, <1>3, HoldsNat DEF Quiet
    <3>3. inode[a].nlookup \in Nat
      BY <1>1, <3>2 DEF Types, InodeRec
    <3>. QED
      BY <1>3, <3>2, <3>3 DEF LookupMoves
  <2>. QED
    BY <1>1, <1>3, <2>1, OthersSame, LookupsStep
<1>5. OpensOK'
  <2>1. \A a \in alive : OpenMoves(t, a)
    BY <1>3 DEF OpenMoves, Quiet
  <2>2. cleared' = cleared
    BY DEF Quiet
  <2>. QED
    BY <1>1, <1>3, <2>1, <2>2, OthersSame, OpensStep
<1>6. AliveOK'
  <2>1. /\ (raced => raced') /\ (cleared => cleared')
        /\ \A u \in Threads \ {t} : th'[u] = th[u]
        /\ \A u \in Threads \ {t}, a \in Addrs : Holds(u, a)' = Holds(u, a)
    BY <1>1, OthersSame, Zenon DEF Quiet
  <2>2. ASSUME ~raced', ~cleared' PROVE AliveMoves(t)
    <3>1. InTable
      BY <1>1, <2>2, Zenon DEF AliveOK, Quiet
    <3>2. \A a \in Addrs : Holds(t, a)' = Holds(t, a)
      BY DEF Quiet
    <3>3. \A u \in Threads \ {t} : Erasing(t)' /\ Erasing(u) => th[u].nd # th'[t].nd
      BY <3>1 DEF InTable, Quiet
    <3>4. Erasing(t)' => th'[t].nd \in alive /\ inode[th'[t].nd].nlookup = 0
      BY <3>1 DEF InTable, Quiet
    <3>5. th'[t].pc = "lk_new" => th'[t].nd \in alive
      BY <2>2, Zenon DEF Quiet
    <3>. QED
      BY <1>3, <3>2, <3>3, <3>4, <3>5 DEF AliveMoves, Quiet
  <2>. QED
    BY <1>1, <2>1, <2>2, AliveStep
<1>7. BudgetOK'
  BY <1>1, OthersSame, BudgetStep DEF BudgetMoves, Quiet
<1>8. EndsOnlyByRace'
  BY EndsNot DEF Quiet
<1>9. TableOK'
  BY <1>1, TableStays DEF Quiet
<1>. QED
  BY <1>1, <1>2, <1>4, <1>5, <1>6, <1>7, <1>8, <1>9 DEF IInv

(* The end of a behaviour changes nothing else. *)
LEMMA EndKeeps ==
  ASSUME IInv, EndsOnlyByRace',
         UNCHANGED <<link, fds, table, alive, nalloc, inode, fm, im, th, refs, handles, sent, raced, cleared>>
  PROVE  IInv'
<1>1. Types' /\ BudgetOK'
  BY DEF IInv, Types, BudgetOK, Allocating
<1>2. ThreadsOK'
  BY DEF IInv, ThreadsOK, RequestOK, LocksOK, HostOK
<1>3. LookupsOK' /\ OpensOK'
  <2>1. \A t \in Threads : \A a : Holds(t, a)' = Holds(t, a) /\ Opened(t, a)' = Opened(t, a)
    BY DEF Holds, Owed, Opened
  <2>2. \A a : References(a)' = References(a) /\ OpenFiles(a)' = OpenFiles(a)
    BY <2>1 DEF References, OpenFiles, Pairs
  <2>. QED
    BY <2>2 DEF IInv, LookupsOK, OpensOK
<1>4. AliveOK'
  BY DEF IInv, AliveOK, InTable, Holds, Owed, Erasing
<1>5. FdsOK'
  BY DEF IInv, FdsOK, Owned, InodeOwns, ThreadOwns, Once, Open
<1>6. TableOK'
  BY DEF IInv, TableOK, Destroying
<1>. QED
  BY <1>1, <1>2, <1>3, <1>4, <1>5, <1>6 DEF IInv

(* An access to a freed inode only ends the process. *)
LEMMA TouchFreedStep ==
  ASSUME IInv, NEW t \in Threads, TouchFreed(t),
         raced \/ cleared \/ (th[t].pc = "lk_known" /\ Freed(th[t].nd))
  PROVE  IInv'
<1>1. /\ UNCHANGED <<link, fds, table, alive, nalloc, inode, fm, im, th, refs, handles, sent, raced, cleared>>
      /\ ended' = "freed"
  BY DEF TouchFreed, hostVars
<1>2. EndsOnlyByRace'
  BY <1>1, Zenon DEF EndsOnlyByRace, Freed
<1>. QED
  BY <1>1, <1>2, EndKeeps

(* Descriptors stay with their owners when t takes none. *)
LEMMA FdsStay ==
  ASSUME IInv, NEW t \in Threads, Steps(t), UNCHANGED <<alive, inode, fds, cleared>>,
         ThreadOwns(t)' \subseteq ThreadOwns(t)
  PROVE  FdsOK'
<1>1. FdsOK
  BY DEF IInv
<1>2. /\ \A u \in Threads : ThreadOwns(u) \subseteq Owned
      /\ \A a \in alive : InodeOwns(a) \subseteq Owned
  BY DEF Owned
<1>3. \A a \in alive' : InodeOwns(a)' \subseteq Owned
  BY <1>2 DEF InodeOwns
<1>4. Owned' \subseteq Owned
  BY <1>2, <1>3, OthersSame, OwnedStep
<1>. QED
  BY <1>1, <1>4, FdKeep DEF FdsOK
LEMMA NoneIsNo ==
  /\ None \notin Fds /\ None \notin Addrs /\ None \notin Threads /\ None \notin Inos
  /\ Released \notin Fds /\ Root \notin Addrs
BY MirrorAssumption DEF Fds, Addrs, Released, Root

(* A step that changes no more than the request of t, its locks, the directory and descriptors. *)
Frame(t) ==
  /\ UNCHANGED <<table, alive, nalloc, inode, refs, handles, raced, cleared>> /\ ended' = "no"
  /\ th' \in [Threads -> ThStates] /\ \A u \in Threads \ {t} : th'[u] = th[u]
  /\ link' \in [Names -> Inos \cup {None}]
  /\ fds' \in [Fds -> Inos \cup {None}]
  /\ fm' \in Threads \cup {None} /\ (fm' = fm \/ fm \in {None, t})
  /\ im' \in [Addrs \cup {Root} -> Threads \cup {None}]
  /\ \A a \in Addrs : im'[a] = im[a] \/ im[a] \in {None, t}
  /\ RequestOK(t)' /\ LocksOK(t)'
  /\ \A a \in Addrs : Owed(t, a)' = Owed(t, a)
  /\ th[t].pc # "rl_count" /\ th'[t].pc \notin {"rl_count", "ds_inode", "ds_free"}
  /\ th'[t].pc = "lk_new" => cleared \/ th'[t].nd \in alive
  /\ Erasing(t)' => Erasing(t) /\ th'[t].nd = th[t].nd
  /\ BudgetMoves(t)

LEMMA FrameSteps ==
  ASSUME IInv, NEW t \in Threads, Frame(t)
  PROVE  Steps(t)
<1>1. Types
  BY DEF IInv
<1>. QED
  BY <1>1 DEF Steps, Frame, Types

LEMMA FrameStep ==
  ASSUME IInv, NEW t \in Threads, Frame(t), FdsOK'
  PROVE  IInv'
<1>1. Types /\ HostOK(t) /\ BudgetOK
  BY DEF IInv, ThreadsOK
<1>2. Types'
  BY <1>1, MirrorAssumption DEF Types, Frame, BudgetMoves
<1>3. Steps(t)
  BY FrameSteps
<1>4. HostOK(t)'
  BY <1>1 DEF HostOK, Frame
<1>5. \A a \in Addrs : Holds(t, a)' = Holds(t, a) /\ Opened(t, a)' = Opened(t, a)
  BY DEF Frame, Holds, Opened
<1>6. Quiet(t)
  BY <1>2, <1>3, <1>4, <1>5 DEF Quiet, Frame
<1>. QED
  BY <1>6, QuietStep

Plain(t) == Frame(t) /\ UNCHANGED fds /\ ThreadOwns(t)' \subseteq ThreadOwns(t)
LEMMA PlainStep ==
  ASSUME IInv, NEW t \in Threads, Plain(t)
  PROVE  IInv'
<1>1. Steps(t)
  BY FrameSteps DEF Plain
<1>2. FdsOK'
  BY <1>1, FdsStay DEF Plain, Frame
<1>. QED
  BY <1>2, FrameStep DEF Plain

(* A step that opens a descriptor, n, of the file i. *)
Takes(t, n, i, x) ==
  /\ Frame(t) /\ n \in Fds /\ fds[n] = None /\ i \in Inos /\ fds' = [fds EXCEPT ![n] = i]
  /\ ThreadOwns(t)' \subseteq ThreadOwns(t) \cup {x}
  /\ x[3] = n /\ i \in x[4]
LEMMA TakesStep ==
  ASSUME IInv, NEW t \in Threads, NEW n, NEW i, NEW x, Takes(t, n, i, x)
  PROVE  IInv'
<1>1. FdsOK /\ fds \in [Fds -> Inos \cup {None}]
  BY DEF IInv, Types
<1>2. Steps(t) /\ UNCHANGED <<alive, inode, cleared>>
  BY FrameSteps DEF Takes, Frame
<1>3. PICK S : S = Owned
  OBVIOUS
<1>4. Owned' \subseteq S \cup {x}
  <2>1. /\ \A u \in Threads : ThreadOwns(u) \subseteq Owned
        /\ \A a \in alive : InodeOwns(a) \subseteq Owned
    BY DEF Owned
  <2>2. \A a \in alive' : InodeOwns(a)' \subseteq S \cup {x}
    BY <1>2, <1>3, <2>1 DEF InodeOwns
  <2>3. /\ ThreadOwns(t)' \subseteq S \cup {x}
        /\ \A u \in Threads \ {t} : ThreadOwns(u) \subseteq S \cup {x}
    BY <1>3, <2>1 DEF Takes
  <2>. QED
    BY <1>2, <2>2, <2>3, OthersSame, OwnedStep
<1>5. FdOpens(Owned, Owned', fds, fds', n, i, x)
  BY <1>3, <1>4, NoneIsNo DEF FdOpens, Takes
<1>6. FdsOK'
  BY <1>1, <1>2, <1>5, FdOpened DEF FdsOK
<1>. QED
  BY <1>6, FrameStep DEF Takes

LEMMA IdleIs ==
  ASSUME NEW t \in Threads, NowIdle(t)
  PROVE  /\ RequestOK(t)' /\ LocksOK(t)' /\ ~Erasing(t)' /\ th'[t].pc = "idle"
         /\ t \notin Allocating'
         /\ \A a : Owed(t, a)' = 0
         /\ ThreadOwns(t)' = {<<"open", <<t, h>>, h.fh, Inos>> : h \in handles'[t]}
<1>1. /\ th'[t].pc = "idle" /\ th'[t].op = None /\ th'[t].fh = None
  BY DEF NowIdle, NoRequest
<1>2. RequestOK(t)'
  BY <1>1 DEF RequestOK, LookupPcs, NewFdPcs, NodePcs, UsePcs, OwingPcs, ErasePcs
<1>3. LocksOK(t)' /\ ~Erasing(t)' /\ t \notin Allocating'
  BY <1>1 DEF LocksOK, Erasing, ErasePcs, Allocating, AllocPcs
<1>4. \A a : Owed(t, a)' = 0
  BY <1>1 DEF Owed
<1>5. ThreadOwns(t)' = {<<"open", <<t, h>>, h.fh, Inos>> : h \in handles'[t]}
  BY <1>1, NoneIsNo DEF ThreadOwns, NewFdPcs
<1>. QED
  BY <1>1, <1>2, <1>3, <1>4, <1>5

(* A request that is given up. *)
LEMMA GivesUp ==
  ASSUME IInv, NEW t \in Threads, ended = "no",
         UNCHANGED <<fds, table, alive, nalloc, inode, refs, handles, flagVars>>,
         Idle(t), \A a \in Addrs : Owed(t, a) = 0, th[t].pc # "rl_count",
         link' \in [Names -> Inos \cup {None}],
         fm' \in Threads \cup {None}, fm' = fm \/ fm = None,
         im' = im \/ im' = UnlockedDir(t)
  PROVE  IInv'
<1>1. Types
  BY DEF IInv
<1>2. NowIdle(t)
  BY <1>1, IdleNow
<1>3. /\ im' \in [Addrs \cup {Root} -> Threads \cup {None}]
      /\ \A a \in Addrs : im'[a] = im[a]
  BY <1>1, NoneIsNo DEF UnlockedDir, Types
<1>4. ThreadOwns(t)' \subseteq ThreadOwns(t)
  <2>1. handles'[t] = handles[t]
    OBVIOUS
  <2>. QED
    BY <1>2, <2>1, IdleIs DEF ThreadOwns
<1>5. BudgetMoves(t)
  BY <1>2, IdleIs DEF BudgetMoves, flagVars
<1>6. Plain(t)
  BY <1>1, <1>2, <1>3, <1>4, <1>5, IdleIs DEF Plain, Frame, Types, NowIdle, flagVars
<1>. QED
  BY <1>6, PlainStep
(* Without a race, a thread comes upon a freed inode only after a lookup that found it. *)
LEMMA NotFreed ==
  ASSUME IInv, NEW t \in Threads, th[t].pc \in NodePcs, th[t].pc # "lk_known", Freed(th[t].nd)
  PROVE  raced \/ cleared
<1>1. SUFFICES ASSUME ~raced, ~cleared PROVE FALSE
  OBVIOUS
<1>2. InTable /\ RequestOK(t) /\ Types
  BY <1>1, Zenon DEF IInv, AliveOK, ThreadsOK
<1>3. th[t].nd \in Addrs /\ th[t].nd \notin alive
  BY <1>2, MirrorAssumption DEF RequestOK, Types, Addrs, Freed
<1>4. /\ Holds(t, th[t].nd) = 0 /\ Owed(t, th[t].nd) \in Nat /\ refs[t][th[t].nd] \in Nat
  BY <1>2, <1>3, HoldsNat DEF InTable
<1>5. CASE th[t].pc \in OwingPcs \/ th[t].pc = "fg_count"
  <2>1. th[t].cnt \in Nat
    BY <1>2, FieldTypes DEF Types
  <2>2. Owed(t, th[t].nd) > 0
    BY <1>2, <1>5, <2>1 DEF Owed, RequestOK, OwingPcs
  <2>. QED
    BY <1>4, <2>2 DEF Holds
<1>6. CASE th[t].pc \in UsePcs
  <2>1. refs[t][th[t].nd] > 0
    BY <1>2, <1>6 DEF RequestOK
  <2>. QED
    BY <1>4, <2>1 DEF Holds
<1>7. CASE th[t].pc \in ErasePcs \/ th[t].pc = "lk_new"
  BY <1>2, <1>3, <1>7 DEF InTable, Erasing
<1>. QED
  BY <1>5, <1>6, <1>7 DEF NodePcs

LEMMA FreedStep ==
  ASSUME IInv, NEW t \in Threads, th[t].pc \in NodePcs, Freed(th[t].nd), TouchFreed(t)
  PROVE  IInv'
BY NotFreed, TouchFreedStep

-----------------------------------------------------------------------------
(* The steps of a thread. *)

LEMMA KeepFgErase ==
  ASSUME IInv, NEW t \in Threads, FgErase(t)
  PROVE  IInv'
<1>1. th[t].pc = "fg_erase" /\ ended = "no" /\ Types /\ RequestOK(t)
  BY DEF FgErase, At, IInv, ThreadsOK
<1>2. CASE Freed(th[t].nd) /\ TouchFreed(t)
  BY <1>1, <1>2, FreedStep DEF NodePcs, ErasePcs
<1>3. CASE ~(Freed(th[t].nd) /\ TouchFreed(t))
  <2>1. /\ fm = None /\ fm' = t /\ im' = [im EXCEPT ![th[t].nd] = None] /\ Goto(t, "fg_free")
        /\ UNCHANGED <<link, fds, table, alive, nalloc, inode, hostVars, flagVars>>
    BY <1>3 DEF FgErase
  <2>2. Now(t, "fg_free", th[t].nd, th[t].ino, th[t].fd, th[t].fh, th[t].cnt)
    <3>1. "fg_free" \in Pcs
      BY DEF Pcs, NodePcs, ErasePcs
    <3>. QED
      BY <1>1, <2>1, <3>1, GotoNow
  <2>3. RequestOK(t)' /\ LocksOK(t)'
    BY <1>1, <2>1, <2>2 DEF Now, RequestOK, LocksOK, LookupPcs, NewFdPcs, NodePcs, UsePcs, OwingPcs, ErasePcs
  <2>4. \A a \in Addrs : Owed(t, a)' = Owed(t, a)
    BY <1>1, <2>2 DEF Now, Owed
  <2>5. ThreadOwns(t)' \subseteq ThreadOwns(t)
    BY <1>1, <2>1, <2>2 DEF Now, ThreadOwns, NewFdPcs, hostVars
  <2>6. BudgetMoves(t)
    BY <1>1, <2>1, <2>2 DEF Now, BudgetMoves, Allocating, AllocPcs, flagVars
  <2>7. \A a \in Addrs : im'[a] = im[a] \/ im[a] \in {None, t}
    <3>1. LocksOK(t)
      BY DEF IInv, ThreadsOK
    <3>. QED
      BY <1>1, <2>1, <3>1 DEF LocksOK, Types
  <2>8. Plain(t)
    BY <1>1, <2>1, <2>2, <2>3, <2>4, <2>5, <2>6, <2>7
       DEF Plain, Frame, Now, Types, Erasing, ErasePcs, hostVars, flagVars
  <2>. QED
    BY <2>8, PlainStep
<1>. QED
  BY <1>2, <1>3
(* A request that goes on to its next place. *)
Continues(t, l, nd, ino, fd, cnt) ==
  /\ ended = "no" /\ UNCHANGED <<fds, table, alive, nalloc, inode, hostVars, flagVars>>
  /\ Now(t, l, nd, ino, fd, th[t].fh, cnt)
  /\ RequestOK(t)' /\ LocksOK(t)' /\ \A a \in Addrs : Owed(t, a)' = Owed(t, a)
  /\ th[t].pc # "rl_count" /\ l \notin {"rl_count", "ds_inode", "ds_free"} /\ l \notin ErasePcs
  /\ l \in NewFdPcs => th[t].pc \in NewFdPcs /\ fd = th[t].fd /\ ino = th[t].ino
  /\ l \in AllocPcs => th[t].pc \in AllocPcs
  /\ l = "lk_new" => cleared \/ nd \in alive
  /\ link' \in [Names -> Inos \cup {None}]
  /\ fm' \in Threads \cup {None} /\ (fm' = fm \/ fm \in {None, t})
  /\ im' \in [Addrs \cup {Root} -> Threads \cup {None}]
  /\ \A a \in Addrs : im'[a] = im[a] \/ im[a] \in {None, t}

LEMMA GoesOn ==
  ASSUME IInv, NEW t \in Threads, NEW l, NEW nd, NEW ino, NEW fd, NEW cnt,
         Continues(t, l, nd, ino, fd, cnt)
  PROVE  IInv'
<1>. USE DEF Continues
<1>1. ThreadOwns(t)' \subseteq ThreadOwns(t)
  <2>1. handles'[t] = handles[t]
    BY DEF hostVars
  <2>. QED
    BY <2>1 DEF Now, ThreadOwns
<1>2. BudgetMoves(t)
  BY DEF Now, BudgetMoves, Allocating, flagVars
<1>3. Plain(t)
  BY <1>1, <1>2 DEF Plain, Frame, IInv, Types, Now, Erasing, hostVars, flagVars
<1>. QED
  BY <1>3, PlainStep

LEMMA KeepUlRelease ==
  ASSUME IInv, NEW t \in Threads, UlRelease(t)
  PROVE  IInv'
<1>1. th[t].pc = "ul_release" /\ ended = "no" /\ Types /\ RequestOK(t)
  BY DEF UlRelease, At, IInv, ThreadsOK
<1>2. CASE Freed(th[t].nd) /\ TouchFreed(t)
  BY <1>1, <1>2, FreedStep DEF NodePcs, OwingPcs
<1>. DEFINE a == th[t].nd
<1>3. CASE ~(Freed(a) /\ TouchFreed(t))
  <2>1. /\ im[a] = None /\ UNCHANGED <<link, fds, table, alive, nalloc, inode, fm, hostVars, flagVars>>
        /\ \/ im' = [im EXCEPT ![a] = t] /\ Goto(t, "ul_close")
           \/ th' = [th EXCEPT ![t].pc = "fg_count", ![t].cnt = 1] /\ UNCHANGED im
    BY <1>3 DEF UlRelease
  <2>2. a \in Addrs
    BY <1>1, MirrorAssumption DEF RequestOK, NodePcs, OwingPcs, Types, Addrs
  <2>3. CASE im' = [im EXCEPT ![a] = t] /\ Goto(t, "ul_close")
    <3>1. Now(t, "ul_close", th[t].nd, th[t].ino, th[t].fd, th[t].fh, th[t].cnt)
      <4>1. "ul_close" \in Pcs
        BY DEF Pcs, NodePcs, OwingPcs
      <4>. QED
        BY <1>1, <2>3, <4>1, GotoNow
    <3>2. RequestOK(t)' /\ LocksOK(t)'
      BY <1>1, <2>1, <2>2, <2>3, <3>1
         DEF Types, Now, RequestOK, LocksOK, LookupPcs, NewFdPcs, NodePcs, UsePcs, OwingPcs, ErasePcs
    <3>3. \A b \in Addrs : Owed(t, b)' = Owed(t, b)
      BY <1>1, <3>1 DEF Now, Owed
    <3>9. Continues(t, "ul_close", th[t].nd, th[t].ino, th[t].fd, th[t].cnt)
      BY <1>1, <2>1, <2>2, <2>3, <3>1, <3>2, <3>3 DEF Continues, Types, NewFdPcs, ErasePcs, AllocPcs
    <3>. QED
      BY <3>9, GoesOn
  <2>4. CASE th' = [th EXCEPT ![t].pc = "fg_count", ![t].cnt = 1] /\ UNCHANGED im
    <3>1. Now(t, "fg_count", th[t].nd, th[t].ino, th[t].fd, th[t].fh, 1)
      BY <1>1, <2>4, OwesNow
    <3>2. RequestOK(t)' /\ LocksOK(t)'
      BY <1>1, <2>1, <2>4, <3>1
         DEF Now, RequestOK, LocksOK, LookupPcs, NewFdPcs, NodePcs, UsePcs, OwingPcs, ErasePcs
    <3>3. \A b \in Addrs : Owed(t, b)' = Owed(t, b)
      BY <1>1, <3>1 DEF Now, Owed
    <3>9. Continues(t, "fg_count", th[t].nd, th[t].ino, th[t].fd, 1)
      BY <1>1, <2>1, <2>4, <3>1, <3>2, <3>3 DEF Continues, Types, NewFdPcs, ErasePcs, AllocPcs
    <3>. QED
      BY <3>9, GoesOn
  <2>. QED
    BY <2>1, <2>3, <2>4
<1>. QED
  BY <1>2, <1>3

LEMMA KeepUseRead ==
  ASSUME IInv, NEW t \in Threads, UseRead(t)
  PROVE  IInv'
<1>1. th[t].pc = "use_read" /\ ended = "no" /\ Types /\ RequestOK(t)
  BY DEF UseRead, At, IInv, ThreadsOK
<1>2. CASE Freed(th[t].nd) /\ TouchFreed(t)
  BY <1>1, <1>2, FreedStep DEF NodePcs, UsePcs
<1>. DEFINE a == th[t].nd
<1>3. CASE ~(Freed(a) /\ TouchFreed(t))
  <2>1. /\ UNCHANGED <<link, fds, table, alive, nalloc, inode, fm, im, hostVars, flagVars>>
        /\ Idle(t) \/ th' = [th EXCEPT ![t].fd = inode[a].fd, ![t].pc = "use_fd"]
    BY <1>3 DEF UseRead
  <2>2. CASE Idle(t)
    <3>1. \A b \in Addrs : Owed(t, b) = 0
      BY <1>1 DEF Owed
    <3>. QED
      BY <1>1, <2>1, <2>2, <3>1, GivesUp DEF Types, hostVars
  <2>3. CASE th' = [th EXCEPT ![t].fd = inode[a].fd, ![t].pc = "use_fd"]
    <3>1. PICK n \in Fds \cup {Released, None} : n = inode[a].fd
      <4>1. a \in Addrs
        BY <1>1, MirrorAssumption DEF RequestOK, NodePcs, UsePcs, Types, Addrs
      <4>. QED
        BY <1>1, <4>1 DEF Types, InodeRec
    <3>2. Now(t, "use_fd", th[t].nd, th[t].ino, n, th[t].fh, th[t].cnt)
      BY <1>1, <2>3, <3>1, ReadFdNow
    <3>3. RequestOK(t)' /\ LocksOK(t)'
      BY <1>1, <2>1, <3>2
         DEF Now, RequestOK, LocksOK, LookupPcs, NewFdPcs, NodePcs, UsePcs, OwingPcs, ErasePcs, hostVars
    <3>4. \A b \in Addrs : Owed(t, b)' = Owed(t, b)
      BY <1>1, <3>2 DEF Now, Owed
    <3>9. Continues(t, "use_fd", th[t].nd, th[t].ino, n, th[t].cnt)
      BY <1>1, <2>1, <3>2, <3>3, <3>4 DEF Continues, Types, NewFdPcs, ErasePcs, AllocPcs
    <3>. QED
      BY <3>9, GoesOn
  <2>. QED
    BY <2>1, <2>2, <2>3
<1>. QED
  BY <1>2, <1>3

LEMMA KeepSaApply ==
  ASSUME IInv, NEW t \in Threads, SaApply(t)
  PROVE  IInv'
<1>1. th[t].pc = "use_fd" /\ ended = "no" /\ Types
  BY DEF SaApply, At, IInv
<1>2. CASE Freed(th[t].nd) /\ TouchFreed(t)
  BY <1>1, <1>2, FreedStep DEF NodePcs, UsePcs
<1>3. CASE ~(Freed(th[t].nd) /\ TouchFreed(t))
  <2>1. \A b \in Addrs : Owed(t, b) = 0
    BY <1>1 DEF Owed
  <2>. QED
    BY <1>1, <1>3, <2>1, GivesUp DEF SaApply, Types, hostVars
<1>. QED
  BY <1>2, <1>3

LEMMA KeepUlUnlinkat ==
  ASSUME IInv, NEW t \in Threads, UlUnlinkat(t)
  PROVE  IInv'
<1>1. th[t].pc = "ul_unlinkat" /\ ended = "no" /\ Types
  BY DEF UlUnlinkat, At, IInv
<1>2. \A b \in Addrs : Owed(t, b) = 0
  BY <1>1 DEF Owed
<1>3. link' \in [Names -> Inos \cup {None}]
  BY <1>1 DEF UlUnlinkat, Types
<1>. QED
  BY <1>1, <1>2, <1>3, GivesUp DEF UlUnlinkat, Types, hostVars

LEMMA KeepMkNode ==
  ASSUME IInv, NEW t \in Threads, MkNode(t)
  PROVE  IInv'
<1>1. th[t].pc = "mk_node" /\ ended = "no" /\ Types /\ RequestOK(t)
  BY DEF MkNode, At, IInv, ThreadsOK
<1>2. \A b \in Addrs : Owed(t, b) = 0
  BY <1>1 DEF Owed
<1>3. CASE Idle(t) /\ UNCHANGED link
  BY <1>1, <1>2, <1>3, GivesUp DEF MkNode, Types, hostVars
<1>4. CASE Makes(th[t].name) /\ Goto(t, "lk_open")
  <2>1. UNCHANGED <<fds, table, alive, nalloc, inode, fm, im, hostVars, flagVars>>
    BY DEF MkNode
  <2>2. Now(t, "lk_open", th[t].nd, th[t].ino, th[t].fd, th[t].fh, th[t].cnt)
    <3>1. "lk_open" \in Pcs
      BY DEF Pcs, LookupPcs
    <3>. QED
      BY <1>1, <1>4, <3>1, GotoNow
  <2>3. link' \in [Names -> Inos \cup {None}]
    BY <1>1, <1>4 DEF Makes, Types
  <2>4. RequestOK(t)' /\ LocksOK(t)'
    BY <1>1, <2>1, <2>2
       DEF Now, RequestOK, LocksOK, LookupPcs, LookupOps, NewFdPcs, NodePcs, UsePcs, OwingPcs, ErasePcs
  <2>5. \A b \in Addrs : Owed(t, b)' = Owed(t, b)
    BY <1>1, <2>2 DEF Now, Owed
  <2>9. Continues(t, "lk_open", th[t].nd, th[t].ino, th[t].fd, th[t].cnt)
    BY <1>1, <2>1, <2>2, <2>3, <2>4, <2>5 DEF Continues, Types, NewFdPcs, ErasePcs, AllocPcs
  <2>. QED
    BY <2>9, GoesOn
<1>. QED
  BY <1>3, <1>4 DEF MkNode

LEMMA KeepRdLock ==
  ASSUME IInv, NEW t \in Threads, RdLock(t)
  PROVE  IInv'
<1>1. th[t].pc = "rd_lock" /\ ended = "no" /\ Types /\ RequestOK(t)
  BY DEF RdLock, At, IInv, ThreadsOK
<1>2. /\ im' = [im EXCEPT ![Root] = t] /\ Goto(t, "lk_open")
      /\ UNCHANGED <<link, fds, table, alive, nalloc, inode, fm, hostVars, flagVars>>
  BY DEF RdLock
<1>3. Now(t, "lk_open", th[t].nd, th[t].ino, th[t].fd, th[t].fh, th[t].cnt)
  <2>1. "lk_open" \in Pcs
    BY DEF Pcs, LookupPcs
  <2>. QED
    BY <1>1, <1>2, <2>1, GotoNow
<1>4. RequestOK(t)' /\ LocksOK(t)'
  BY <1>1, <1>2, <1>3
     DEF Now, RequestOK, LocksOK, LookupPcs, LookupOps, NewFdPcs, NodePcs, UsePcs, OwingPcs, ErasePcs
<1>5. \A b \in Addrs : Owed(t, b)' = Owed(t, b)
  BY <1>1, <1>3 DEF Now, Owed
<1>6. im' \in [Addrs \cup {Root} -> Threads \cup {None}] /\ \A b \in Addrs : im'[b] = im[b]
  BY <1>1, <1>2, NoneIsNo DEF Types
<1>9. Continues(t, "lk_open", th[t].nd, th[t].ino, th[t].fd, th[t].cnt)
  BY <1>1, <1>2, <1>3, <1>4, <1>5, <1>6 DEF Continues, Types, NewFdPcs, ErasePcs, AllocPcs
<1>. QED
  BY <1>9, GoesOn
LEMMA KeepLkOpen ==
  ASSUME IInv, NEW t \in Threads, LkOpen(t)
  PROVE  IInv'
<1>1. th[t].pc = "lk_open" /\ ended = "no" /\ Types /\ RequestOK(t)
  BY DEF LkOpen, At, IInv, ThreadsOK
<1>2. UNCHANGED <<link, table, alive, nalloc, inode, fm, hostVars, flagVars>>
  BY DEF LkOpen
<1>3. \A b \in Addrs : Owed(t, b) = 0
  BY <1>1 DEF Owed
<1>4. PICK i \in Inos \cup {None} : i = link[th[t].name]
  BY <1>1 DEF RequestOK, Types
<1>5. CASE LookupFails(t) /\ UNCHANGED fds
  BY <1>1, <1>2, <1>3, <1>5, GivesUp DEF LookupFails, Types, hostVars
<1>6. ASSUME i # None, FreeFds # {}, fds' = [fds EXCEPT ![NewFd] = i], LookupFails(t)
      PROVE  IInv'
  <2>1. PICK n \in Fds : n = NewFd /\ fds[n] = None
    BY <1>1, <1>6, NewFdFree
  <2>2. NowIdle(t)
    BY <1>1, <1>6, IdleNow DEF LookupFails
  <2>3. /\ im' \in [Addrs \cup {Root} -> Threads \cup {None}]
        /\ \A a \in Addrs : im'[a] = im[a]
    BY <1>1, <1>6, NoneIsNo DEF LookupFails, UnlockedDir, Types
  <2>4. ThreadOwns(t)' \subseteq ThreadOwns(t)
    <3>1. handles'[t] = handles[t]
      BY <1>2 DEF hostVars
    <3>. QED
      BY <2>2, <3>1, IdleIs DEF ThreadOwns
  <2>5. BudgetMoves(t)
    BY <1>2, <2>2, IdleIs DEF BudgetMoves, flagVars
  <2>6. fds' \in [Fds -> Inos \cup {None}]
    BY <1>1, <1>6, <2>1 DEF Types
  <2>7. Frame(t)
    BY <1>1, <1>2, <1>3, <2>2, <2>3, <2>5, <2>6, IdleIs
       DEF Frame, Types, NowIdle, flagVars, hostVars
  <2>8. Takes(t, n, i, <<"fd", t, n, Inos>>)
    BY <1>6, <1>4, <2>1, <2>4, <2>7 DEF Takes
  <2>. QED
    BY <2>8, TakesStep
<1>7. ASSUME i # None, FreeFds # {}, fds' = [fds EXCEPT ![NewFd] = i], UNCHANGED im,
             th' = [th EXCEPT ![t].pc = "lk_table", ![t].fd = NewFd, ![t].ino = i]
      PROVE  IInv'
  <2>1. PICK n \in Fds : n = NewFd /\ fds[n] = None
    BY <1>1, <1>7, NewFdFree
  <2>2. Now(t, "lk_table", th[t].nd, i, n, th[t].fh, th[t].cnt)
    <3>1. i \in Inos
      BY <1>7
    <3>. QED
      BY <1>1, <1>7, <2>1, <3>1, NewFdNow
  <2>3. RequestOK(t)' /\ LocksOK(t)'
    BY <1>1, <1>2, <1>7, <2>2
       DEF Now, RequestOK, LocksOK, LookupPcs, NewFdPcs, NodePcs, UsePcs, OwingPcs, ErasePcs
  <2>4. ThreadOwns(t)' \subseteq ThreadOwns(t) \cup {<<"fd", t, n, {i}>>}
    <3>1. handles'[t] = handles[t]
      BY <1>2 DEF hostVars
    <3>. QED
      BY <2>2, <3>1 DEF Now, ThreadOwns
  <2>5. BudgetMoves(t) /\ \A a \in Addrs : Owed(t, a)' = 0
    BY <1>1, <1>2, <2>2 DEF BudgetMoves, Allocating, AllocPcs, Owed, Now, flagVars
  <2>6. fds' \in [Fds -> Inos \cup {None}]
    BY <1>1, <1>7, <2>1 DEF Types
  <2>7. Frame(t)
    BY <1>1, <1>2, <1>3, <1>7, <2>2, <2>3, <2>5, <2>6
       DEF Frame, Types, Now, Erasing, ErasePcs, flagVars, hostVars
  <2>8. Takes(t, n, i, <<"fd", t, n, {i}>>)
    BY <1>7, <1>4, <2>1, <2>4, <2>7 DEF Takes
  <2>. QED
    BY <2>8, TakesStep
<1>. QED
  BY <1>4, <1>5, <1>6, <1>7 DEF LkOpen

LEMMA KeepOpOpen ==
  ASSUME IInv, NEW t \in Threads, OpOpen(t)
  PROVE  IInv'
<1>1. th[t].pc = "use_fd" /\ th[t].op = "open" /\ ended = "no" /\ Types /\ RequestOK(t)
  BY DEF OpOpen, At, IInv, ThreadsOK
<1>2. UNCHANGED <<link, table, alive, nalloc, inode, fm, im, hostVars, flagVars>>
  BY DEF OpOpen
<1>3. \A b \in Addrs : Owed(t, b) = 0
  BY <1>1 DEF Owed
<1>4. CASE Idle(t) /\ UNCHANGED fds
  BY <1>1, <1>2, <1>3, <1>4, GivesUp DEF Types, hostVars
<1>5. ASSUME th[t].fd \in Fds, fds[th[t].fd] # None, FreeFds # {},
             fds' = [fds EXCEPT ![NewFd] = fds[th[t].fd]],
             th' = [th EXCEPT ![t].fh = NewFd, ![t].pc = "op_count"]
      PROVE  IInv'
  <2>1. PICK n \in Fds : n = NewFd /\ fds[n] = None
    BY <1>1, <1>5, NewFdFree
  <2>2. PICK i \in Inos : i = fds[th[t].fd]
    BY <1>1, <1>5 DEF Types
  <2>3. Now(t, "op_count", th[t].nd, th[t].ino, th[t].fd, n, th[t].cnt)
    <3>1. "op_count" \in Pcs
      BY DEF Pcs, NodePcs, UsePcs
    <3>. QED
      BY <1>1, <1>5, <2>1, <3>1, FhNow
  <2>4. RequestOK(t)' /\ LocksOK(t)'
    BY <1>1, <1>2, <2>3
       DEF Now, RequestOK, LocksOK, LookupPcs, NewFdPcs, NodePcs, UsePcs, OwingPcs, ErasePcs, hostVars
  <2>5. ThreadOwns(t)' \subseteq ThreadOwns(t) \cup {<<"fh", t, n, Inos>>}
    <3>1. handles'[t] = handles[t]
      BY <1>2 DEF hostVars
    <3>. QED
      BY <2>3, <3>1 DEF Now, ThreadOwns, NewFdPcs
  <2>6. BudgetMoves(t) /\ \A a \in Addrs : Owed(t, a)' = 0
    BY <1>1, <1>2, <2>3 DEF BudgetMoves, Allocating, AllocPcs, Owed, Now, flagVars
  <2>7. fds' \in [Fds -> Inos \cup {None}]
    BY <1>1, <1>5, <2>1, <2>2 DEF Types
  <2>8. Frame(t)
    BY <1>1, <1>2, <1>3, <2>3, <2>4, <2>6, <2>7
       DEF Frame, Types, Now, Erasing, ErasePcs, flagVars, hostVars
  <2>9. Takes(t, n, i, <<"fh", t, n, Inos>>)
    BY <1>5, <2>1, <2>2, <2>5, <2>8 DEF Takes
  <2>. QED
    BY <2>9, TakesStep
<1>. QED
  BY <1>4, <1>5 DEF OpOpen

LEMMA KeepCrOpen ==
  ASSUME IInv, NEW t \in Threads, CrOpen(t)
  PROVE  IInv'
<1>1. th[t].pc = "cr_open" /\ ended = "no" /\ Types /\ RequestOK(t)
  BY DEF CrOpen, At, IInv, ThreadsOK
<1>2. UNCHANGED <<table, alive, nalloc, inode, fm, im, hostVars, flagVars>>
  BY DEF CrOpen
<1>3. \A b \in Addrs : Owed(t, b) = 0
  BY <1>1 DEF Owed
<1>4. CASE Idle(t) /\ UNCHANGED <<link, fds>>
  BY <1>1, <1>2, <1>3, <1>4, GivesUp DEF Types, hostVars
<1>5. ASSUME FreeFds # {}, Makes(th[t].name), fds' = [fds EXCEPT ![NewFd] = link'[th[t].name]],
             th' = [th EXCEPT ![t].fh = NewFd, ![t].pc = "lk_open"]
      PROVE  IInv'
  <2>1. PICK n \in Fds : n = NewFd /\ fds[n] = None
    BY <1>1, <1>5, NewFdFree
  <2>2. link' \in [Names -> Inos \cup {None}] /\ link'[th[t].name] \in Inos
    <3>1. th[t].name \in Names /\ link \in [Names -> Inos \cup {None}]
      BY <1>1 DEF RequestOK, Types
    <3>. QED
      BY <1>5, <3>1 DEF Makes
  <2>3. PICK i \in Inos : i = link'[th[t].name]
    BY <2>2
  <2>4. Now(t, "lk_open", th[t].nd, th[t].ino, th[t].fd, n, th[t].cnt)
    <3>1. "lk_open" \in Pcs
      BY DEF Pcs, LookupPcs
    <3>. QED
      BY <1>1, <1>5, <2>1, <3>1, FhNow
  <2>5. RequestOK(t)' /\ LocksOK(t)'
    BY <1>1, <1>2, <2>4
       DEF Now, RequestOK, LocksOK, LookupPcs, LookupOps, NewFdPcs, NodePcs, UsePcs, OwingPcs, ErasePcs
  <2>6. ThreadOwns(t)' \subseteq ThreadOwns(t) \cup {<<"fh", t, n, Inos>>}
    <3>1. handles'[t] = handles[t]
      BY <1>2 DEF hostVars
    <3>. QED
      BY <2>4, <3>1 DEF Now, ThreadOwns, NewFdPcs
  <2>7. BudgetMoves(t) /\ \A a \in Addrs : Owed(t, a)' = 0
    BY <1>1, <1>2, <2>4 DEF BudgetMoves, Allocating, AllocPcs, Owed, Now, flagVars
  <2>8. fds' \in [Fds -> Inos \cup {None}]
    BY <1>1, <1>5, <2>1, <2>3 DEF Types
  <2>9. Frame(t)
    BY <1>1, <1>2, <1>3, <2>2, <2>4, <2>5, <2>7, <2>8
       DEF Frame, Types, Now, Erasing, ErasePcs, flagVars, hostVars
  <2>10. Takes(t, n, i, <<"fh", t, n, Inos>>)
    BY <1>5, <2>1, <2>3, <2>6, <2>9 DEF Takes
  <2>. QED
    BY <2>10, TakesStep
<1>. QED
  BY <1>4, <1>5 DEF CrOpen

LEMMA KeepRdEntry ==
  ASSUME IInv, NEW t \in Threads, RdEntry(t)
  PROVE  IInv'
<1>1. th[t].pc = "rd_entry" /\ ended = "no" /\ Types /\ RequestOK(t) /\ HostOK(t)
  BY DEF RdEntry, At, IInv, ThreadsOK
<1>2. UNCHANGED <<link, fds, table, alive, nalloc, inode, fm, handles, flagVars>>
  BY DEF RdEntry
<1>3. PICK a \in Addrs : a = th[t].nd
  BY <1>1, MirrorAssumption DEF RequestOK, NodePcs, OwingPcs, Types, Addrs
<1>4. CASE /\ refs' = [refs EXCEPT ![t][a] = @ + 1]
           /\ Idle(t) /\ im' = UnlockedDir(t)
  <2>1. NowIdle(t)
    BY <1>1, <1>4, IdleNow
  <2>2. /\ im' \in [Addrs \cup {Root} -> Threads \cup {None}]
        /\ \A b \in Addrs : im'[b] = im[b]
    BY <1>1, <1>4, NoneIsNo DEF UnlockedDir, Types
  <2>3. /\ refs' \in [Threads -> [Addrs -> Nat]] /\ \A u \in Threads \ {t} : refs'[u] = refs[u]
        /\ \A b \in Addrs : refs'[t][b] = IF b = a THEN refs[t][a] + 1 ELSE refs[t][b]
    BY <1>1, <1>4 DEF Types
  <2>4. Types'
    BY <1>1, <1>2, <2>1, <2>2, <2>3 DEF Types, NowIdle, flagVars
  <2>5. Steps(t)
    BY <1>1, <1>2, <2>1, <2>2, <2>3 DEF Steps, Types, NowIdle
  <2>6. HostOK(t)'
    <3>1. a <= nalloc /\ refs[t] \in [Addrs -> Nat] /\ handles[t] \subseteq Handles
      BY <1>1, <1>3 DEF RequestOK, NodePcs, OwingPcs, Types
    <3>. QED
      BY <1>1, <1>2, <2>3, <3>1 DEF HostOK, Handles
  <2>7. \A b \in Addrs : Holds(t, b)' = Holds(t, b)
    <3>1. \A b \in Addrs : refs[t][b] \in Nat /\ refs'[t][b] \in Nat
      BY <1>1, <2>3 DEF Types
    <3>2. \A b \in Addrs : Owed(t, b)' = 0 /\ Owed(t, b) = IF b = a THEN 1 ELSE 0
      BY <1>1, <1>3, <2>1, IdleIs DEF Owed
    <3>. QED
      BY <2>3, <3>1, <3>2 DEF Holds
  <2>8. \A b \in Addrs : Opened(t, b)' = Opened(t, b)
    BY <1>1, <1>2, <2>1, IdleIs DEF Opened
  <2>9. ThreadOwns(t)' \subseteq ThreadOwns(t)
    <3>1. handles'[t] = handles[t]
      BY <1>2
    <3>. QED
      BY <2>1, <3>1, IdleIs DEF ThreadOwns
  <2>10. FdsOK'
    BY <1>2, <2>5, <2>9, FdsStay DEF flagVars
  <2>11. BudgetMoves(t)
    BY <1>2, <2>1, IdleIs DEF BudgetMoves, flagVars
  <2>12. Quiet(t)
    BY <1>1, <1>2, <2>1, <2>4, <2>5, <2>6, <2>7, <2>8, <2>10, <2>11, IdleIs DEF Quiet, flagVars
  <2>. QED
    BY <2>12, QuietStep
<1>5. CASE /\ th' = [th EXCEPT ![t].pc = "fg_count", ![t].cnt = 1]
           /\ UNCHANGED <<refs, im>>
  <2>1. Now(t, "fg_count", th[t].nd, th[t].ino, th[t].fd, th[t].fh, 1)
    BY <1>1, <1>5, OwesNow
  <2>2. RequestOK(t)' /\ LocksOK(t)'
    BY <1>1, <1>2, <1>5, <2>1
       DEF Now, RequestOK, LocksOK, LookupPcs, NewFdPcs, NodePcs, UsePcs, OwingPcs, ErasePcs
  <2>3. \A b \in Addrs : Owed(t, b)' = Owed(t, b)
    BY <1>1, <2>1 DEF Now, Owed
  <2>4. Continues(t, "fg_count", th[t].nd, th[t].ino, th[t].fd, 1)
    BY <1>1, <1>2, <1>5, <2>1, <2>2, <2>3
       DEF Continues, Types, NewFdPcs, ErasePcs, AllocPcs, hostVars
  <2>. QED
    BY <2>4, GoesOn
<1>. QED
  BY <1>3, <1>4, <1>5 DEF RdEntry
-----------------------------------------------------------------------------
(* What the hosts send. *)

LEMMA SendNow ==
  ASSUME IInv, NEW t \in Threads, NEW rec \in ThStates, Send(t, rec)
  PROVE  /\ ended = "no" /\ th[t].pc = "idle" /\ BudgetMoves(t)
         /\ th' \in [Threads -> ThStates] /\ th'[t] = rec
         /\ \A u \in Threads \ {t} : th'[u] = th[u]
         /\ UNCHANGED <<link, fds, table, alive, nalloc, inode, fm, im, raced, cleared, ended>>
         /\ \A a \in Addrs : Owed(t, a) = 0
<1>1. Types
  BY DEF IInv
<1>2. th' = [th EXCEPT ![t] = rec] /\ th[t].pc = "idle"
  BY DEF Send
<1>3. \A a \in Addrs : Owed(t, a) = 0
  BY <1>2 DEF Owed
<1>. QED
  BY <1>1, <1>2, <1>3, RecordNow DEF Send, BudgetMoves

(* A request for which the host keeps what it holds. *)
LEMMA PlainSend ==
  ASSUME IInv, NEW t \in Threads, NEW rec \in ThStates, Send(t, rec), UNCHANGED hostVars,
         RequestOK(t)', rec.pc \notin NewFdPcs \cup ErasePcs \cup OwingPcs \cup {"fg_count", "rl_count"},
         rec.pc \notin {"ds_inode", "ds_free"}, rec.fh = None
  PROVE  IInv'
<1>1. Types
  BY DEF IInv
<1>2. LocksOK(t)' /\ ~Erasing(t)'
  BY SendNow DEF LocksOK, NewFdPcs, ErasePcs, OwingPcs, Erasing
<1>3. \A a \in Addrs : Owed(t, a)' = 0
  BY SendNow DEF Owed, OwingPcs
<1>4. ThreadOwns(t)' \subseteq ThreadOwns(t)
  <2>1. handles'[t] = handles[t]
    BY DEF hostVars
  <2>. QED
    BY <2>1, SendNow, NoneIsNo DEF ThreadOwns
<1>5. Frame(t)
  BY <1>1, <1>2, <1>3, SendNow DEF Frame, Types, NewFdPcs, hostVars
<1>6. Plain(t)
  BY <1>4, <1>5, SendNow DEF Plain
<1>. QED
  BY <1>6, PlainStep

LEMMA KeepSendByName ==
  ASSUME IInv, NEW t \in Threads, SendByName(t)
  PROVE  IInv'
<1>1. PICK op \in {"lookup", "unlink", "create", "mknod", "readdirplus"}, n \in Names :
        Send(t, [NoRequest EXCEPT !.op = op, !.name = n,
                 !.pc = CASE op = "create" -> "cr_open" [] op = "mknod" -> "mk_node"
                          [] op = "readdirplus" -> "rd_lock"
                          [] op = "unlink" /\ Cached -> "ul_unlinkat" [] OTHER -> "lk_open"])
  BY DEF SendByName
<1>2. PICK l : l = CASE op = "create" -> "cr_open" [] op = "mknod" -> "mk_node"
                     [] op = "readdirplus" -> "rd_lock"
                     [] op = "unlink" /\ Cached -> "ul_unlinkat" [] OTHER -> "lk_open"
  OBVIOUS
<1>3. /\ l \in {"cr_open", "mk_node", "rd_lock", "ul_unlinkat", "lk_open"}
      /\ l = "cr_open" => op = "create"
      /\ l = "mk_node" => op = "mknod"
      /\ l = "rd_lock" => op = "readdirplus"
      /\ l = "lk_open" => op # "create"
  BY <1>2
<1>4. PICK rec : rec = [NoRequest EXCEPT !.op = op, !.name = n, !.pc = l]
  OBVIOUS
<1>5. l \in Pcs
  BY <1>3 DEF Pcs, LookupPcs
<1>6. rec = [pc |-> l, op |-> op, name |-> n, nd |-> None, ino |-> None, fd |-> None,
             fh |-> None, cnt |-> 0, next |-> None]
  BY <1>4 DEF NoRequest
<1>7. rec \in ThStates
  BY <1>5, <1>6 DEF ThStates, LookupOps
<1>8. Send(t, rec)
  BY <1>1, <1>2, <1>4
<1>9. RequestOK(t)'
  BY <1>3, <1>6, <1>7, <1>8, SendNow
     DEF RequestOK, LookupPcs, LookupOps, NewFdPcs, NodePcs, UsePcs, OwingPcs, ErasePcs
<1>10. rec.pc \notin NewFdPcs \cup ErasePcs \cup OwingPcs \cup {"fg_count", "rl_count"}
      /\ rec.pc \notin {"ds_inode", "ds_free"} /\ rec.fh = None
  BY <1>3, <1>6 DEF NewFdPcs, ErasePcs, OwingPcs
<1>. QED
  BY <1>7, <1>8, <1>9, <1>10, PlainSend DEF SendByName

LEMMA KeepSendByNode ==
  ASSUME IInv, NEW t \in Threads, SendByNode(t)
  PROVE  IInv'
<1>1. PICK op \in {"open", "setattr"}, a \in Addrs :
        refs[t][a] > 0 /\ Send(t, [NoRequest EXCEPT !.op = op, !.nd = a, !.pc = "use_read"])
  BY DEF SendByNode
<1>2. PICK rec : rec = [NoRequest EXCEPT !.op = op, !.nd = a, !.pc = "use_read"]
  OBVIOUS
<1>3. rec = [pc |-> "use_read", op |-> op, name |-> None, nd |-> a, ino |-> None, fd |-> None,
             fh |-> None, cnt |-> 0, next |-> None]
  BY <1>2 DEF NoRequest
<1>4. rec \in ThStates
  BY <1>3 DEF ThStates, Pcs, NodePcs, UsePcs
<1>5. UNCHANGED hostVars /\ Send(t, rec)
  BY <1>1, <1>2 DEF SendByNode
<1>6. a \in 1..nalloc /\ UNCHANGED nalloc
  <2>1. HostOK(t) /\ Types
    BY DEF IInv, ThreadsOK
  <2>. QED
    BY <1>1, <1>4, <1>5, <2>1, SendNow, MirrorAssumption DEF HostOK, Types, Addrs
<1>7. RequestOK(t)'
  BY <1>1, <1>3, <1>4, <1>5, <1>6, SendNow
     DEF RequestOK, LookupPcs, LookupOps, NewFdPcs, NodePcs, UsePcs, OwingPcs, ErasePcs, hostVars
<1>8. rec.pc \notin NewFdPcs \cup ErasePcs \cup OwingPcs \cup {"fg_count", "rl_count"}
      /\ rec.pc \notin {"ds_inode", "ds_free"} /\ rec.fh = None
  BY <1>3 DEF NewFdPcs, ErasePcs, OwingPcs
<1>. QED
  BY <1>4, <1>5, <1>7, <1>8, PlainSend

LEMMA KeepSendDestroy ==
  ASSUME IInv, NEW t \in Threads, SendDestroy(t)
  PROVE  IInv'
<1>1. PICK rec : rec = [NoRequest EXCEPT !.op = "destroy", !.pc = "ds_bucket"]
  OBVIOUS
<1>2. rec = [pc |-> "ds_bucket", op |-> "destroy", name |-> None, nd |-> None, ino |-> None,
             fd |-> None, fh |-> None, cnt |-> 0, next |-> None]
  BY <1>1 DEF NoRequest
<1>3. rec \in ThStates
  BY <1>2 DEF ThStates, Pcs
<1>4. UNCHANGED hostVars /\ Send(t, rec)
  BY <1>1 DEF SendDestroy
<1>5. RequestOK(t)'
  BY <1>2, <1>3, <1>4, SendNow
     DEF RequestOK, LookupPcs, LookupOps, NewFdPcs, NodePcs, UsePcs, OwingPcs, ErasePcs
<1>6. rec.pc \notin NewFdPcs \cup ErasePcs \cup OwingPcs \cup {"fg_count", "rl_count"}
      /\ rec.pc \notin {"ds_inode", "ds_free"} /\ rec.fh = None
  BY <1>2 DEF NewFdPcs, ErasePcs, OwingPcs
<1>. QED
  BY <1>3, <1>4, <1>5, <1>6, PlainSend

LEMMA KeepSendForget ==
  ASSUME IInv, NEW t \in Threads, SendForget(t)
  PROVE  IInv'
<1>1. PICK a \in Addrs :
        /\ refs[t][a] > 0 /\ \A h \in handles[t] : h.nd # a
        /\ Send(t, [NoRequest EXCEPT !.op = "forget", !.nd = a, !.pc = "fg_count",
                    !.cnt = refs[t][a]])
        /\ refs' = [refs EXCEPT ![t][a] = 0] /\ UNCHANGED handles
  BY DEF SendForget
<1>2. Types /\ HostOK(t)
  BY DEF IInv, ThreadsOK
<1>3. PICK c \in Nat : c = refs[t][a]
  BY <1>2 DEF Types
<1>4. PICK rec : rec = [NoRequest EXCEPT !.op = "forget", !.nd = a, !.pc = "fg_count", !.cnt = c]
  OBVIOUS
<1>5. rec = [pc |-> "fg_count", op |-> "forget", name |-> None, nd |-> a, ino |-> None,
             fd |-> None, fh |-> None, cnt |-> c, next |-> None]
  BY <1>4 DEF NoRequest
<1>6. rec \in ThStates
  BY <1>5 DEF ThStates, Pcs, NodePcs
<1>7. Send(t, rec)
  BY <1>1, <1>3, <1>4
<1>8. /\ refs' \in [Threads -> [Addrs -> Nat]] /\ \A u \in Threads \ {t} : refs'[u] = refs[u]
      /\ \A b \in Addrs : refs'[t][b] = IF b = a THEN 0 ELSE refs[t][b]
  BY <1>1, <1>2 DEF Types
<1>9. Types'
  <2>1. sent' \in Nat
    BY <1>2, <1>7 DEF Types, Send
  <2>. QED
    BY <1>1, <1>2, <1>6, <1>7, <1>8, <2>1, SendNow DEF Types
<1>10. Steps(t)
  BY <1>1, <1>2, <1>6, <1>7, <1>8, SendNow DEF Steps, Types
<1>11. a \in 1..nalloc
  BY <1>1, <1>2, MirrorAssumption DEF HostOK, Types, Addrs
<1>12. RequestOK(t)' /\ LocksOK(t)' /\ ~Erasing(t)'
  BY <1>1, <1>3, <1>5, <1>6, <1>7, <1>11, SendNow
     DEF RequestOK, LocksOK, Erasing, LookupPcs, LookupOps, NewFdPcs, NodePcs, UsePcs, OwingPcs, ErasePcs
<1>13. HostOK(t)'
  <2>1. handles[t] \subseteq Handles /\ UNCHANGED nalloc
    BY <1>2, <1>6, <1>7, SendNow DEF Types
  <2>. QED
    BY <1>1, <1>2, <1>8, <2>1 DEF HostOK, Handles
<1>14. \A b \in Addrs : Holds(t, b)' = Holds(t, b)
  <2>1. \A b \in Addrs : refs[t][b] \in Nat
    BY <1>2 DEF Types
  <2>2. \A b \in Addrs : Owed(t, b) = 0
    BY <1>6, <1>7, SendNow
  <2>3. \A b \in Addrs : Owed(t, b)' = IF b = a THEN c ELSE 0
    BY <1>5, <1>6, <1>7, SendNow DEF Owed
  <2>. QED
    BY <1>3, <1>8, <2>1, <2>2, <2>3 DEF Holds
<1>15. \A b \in Addrs : Opened(t, b)' = Opened(t, b)
  BY <1>1, <1>5, <1>6, <1>7, SendNow DEF Opened
<1>16. FdsOK'
  <2>1. ThreadOwns(t)' \subseteq ThreadOwns(t)
    <3>1. handles'[t] = handles[t]
      BY <1>1
    <3>. QED
      BY <1>5, <1>6, <1>7, <3>1, SendNow, NoneIsNo DEF ThreadOwns, NewFdPcs
  <2>. QED
    BY <1>6, <1>7, <1>10, <2>1, SendNow, FdsStay
<1>17. Quiet(t)
  BY <1>5, <1>6, <1>7, <1>9, <1>10, <1>12, <1>13, <1>14, <1>15, <1>16, SendNow DEF Quiet
<1>. QED
  BY <1>17, QuietStep

LEMMA KeepSendRelease ==
  ASSUME IInv, NEW t \in Threads, SendRelease(t)
  PROVE  IInv'
<1>1. PICK h \in handles[t] :
        /\ Send(t, [NoRequest EXCEPT !.op = "release", !.nd = h.nd, !.pc = "rl_count", !.fh = h.fh])
        /\ handles' = [handles EXCEPT ![t] = @ \ {h}] /\ UNCHANGED refs
  BY DEF SendRelease
<1>2. Types /\ HostOK(t) /\ FdsOK
  BY DEF IInv, ThreadsOK
<1>3. handles[t] \subseteq Handles /\ h \in Handles
  BY <1>2 DEF Types
<1>4. PICK a \in Addrs, n \in Fds : a = h.nd /\ n = h.fh
  BY <1>3 DEF Handles
<1>5. h = [nd |-> a, fh |-> n]
  BY <1>3, <1>4 DEF Handles
<1>6. PICK rec : rec = [NoRequest EXCEPT !.op = "release", !.nd = a, !.pc = "rl_count", !.fh = n]
  OBVIOUS
<1>7. rec = [pc |-> "rl_count", op |-> "release", name |-> None, nd |-> a, ino |-> None,
             fd |-> None, fh |-> n, cnt |-> 0, next |-> None]
  BY <1>6 DEF NoRequest
<1>8. rec \in ThStates
  BY <1>7 DEF ThStates, Pcs, NodePcs, UsePcs
<1>9. Send(t, rec)
  BY <1>1, <1>4, <1>6
<1>10. /\ handles' \in [Threads -> SUBSET Handles] /\ handles'[t] = handles[t] \ {h}
       /\ \A u \in Threads \ {t} : handles'[u] = handles[u]
  BY <1>1, <1>2 DEF Types
<1>11. Types'
  <2>1. sent' \in Nat
    BY <1>2, <1>9 DEF Types, Send
  <2>. QED
    BY <1>1, <1>2, <1>8, <1>9, <1>10, <2>1, SendNow DEF Types
<1>12. Steps(t)
  BY <1>1, <1>2, <1>8, <1>9, <1>10, SendNow DEF Steps, Types
<1>13. a \in 1..nalloc /\ refs[t][a] > 0
  BY <1>2, <1>4, MirrorAssumption DEF HostOK, Types, Addrs
<1>14. RequestOK(t)' /\ LocksOK(t)' /\ ~Erasing(t)'
  BY <1>1, <1>5, <1>7, <1>8, <1>9, <1>10, <1>13, SendNow
     DEF RequestOK, LocksOK, Erasing, LookupPcs, LookupOps, NewFdPcs, NodePcs, UsePcs, OwingPcs, ErasePcs
<1>15. HostOK(t)'
  BY <1>1, <1>2, <1>8, <1>9, <1>10, SendNow DEF HostOK
<1>16. \A b \in Addrs : Holds(t, b)' = Holds(t, b)
  <2>1. \A b \in Addrs : Owed(t, b)' = 0
    BY <1>7, <1>8, <1>9, SendNow DEF Owed
  <2>. QED
    BY <1>1, <1>8, <1>9, <2>1, SendNow DEF Holds
<1>17. \A b \in Addrs : Opened(t, b)' = Opened(t, b)
  <2>1. th[t].pc = "idle" /\ th'[t] = rec
    BY <1>8, <1>9, SendNow
  <2>2. ASSUME NEW b \in Addrs, NEW g \in [nd : {b}, fh : Fds]
        PROVE  g \in Opened(t, b)' <=> g \in Opened(t, b)
    <3>1. g = h <=> a = g.nd /\ n = g.fh
      BY <1>5
    <3>. QED
      BY <1>7, <1>10, <2>1, <3>1 DEF Opened
  <2>. QED
    BY <2>2 DEF Opened
<1>18. FdsOK'
  <2>. DEFINE x == <<"open", <<t, h>>, n, Inos>>
              y == <<"fh", t, n, Inos>>
  <2>1. PICK S : S = Owned
    OBVIOUS
  <2>2. /\ \A u \in Threads : ThreadOwns(u) \subseteq Owned
        /\ \A b \in alive : InodeOwns(b) \subseteq Owned
    BY DEF Owned
  <2>3. x \in ThreadOwns(t)
    BY <1>4 DEF ThreadOwns
  <2>4. ThreadOwns(t)' \subseteq (ThreadOwns(t) \ {x}) \cup {y}
    <3>1. th'[t].pc \notin NewFdPcs /\ th'[t].fh = n
      BY <1>7, <1>8, <1>9, SendNow DEF NewFdPcs
    <3>. QED
      BY <1>10, <3>1 DEF ThreadOwns
  <2>5. \A u \in Threads \ {t} : x \notin ThreadOwns(u)
    BY DEF ThreadOwns
  <2>6. \A b \in alive : x \notin InodeOwns(b)
    BY DEF InodeOwns
  <2>7. \A b \in alive' : InodeOwns(b)' \subseteq (S \ {x}) \cup {y}
    <3>1. UNCHANGED <<alive, inode>>
      BY <1>8, <1>9, SendNow
    <3>. QED
      BY <2>1, <2>2, <2>6, <3>1 DEF InodeOwns
  <2>. HIDE DEF x, y
  <2>8. /\ ThreadOwns(t)' \subseteq (S \ {x}) \cup {y}
        /\ \A u \in Threads \ {t} : ThreadOwns(u) \subseteq (S \ {x}) \cup {y}
    BY <2>1, <2>2, <2>4, <2>5
  <2>9. Owned' \subseteq (S \ {x}) \cup {y}
    <3>1. PICK X : X = (S \ {x}) \cup {y}
      OBVIOUS
    <3>2. Owned' \subseteq X
      BY <1>12, <2>7, <2>8, <3>1, OthersSame, OwnedStep
    <3>. QED
      BY <3>1, <3>2
  <2>10. FdPasses(Owned, Owned', x, y)
    BY <2>1, <2>2, <2>3, <2>9 DEF FdPasses, x, y
  <2>11. fds' = fds /\ cleared' = cleared
    BY <1>8, <1>9, SendNow
  <2>. QED
    BY <1>2, <2>10, <2>11, FdPassed DEF FdsOK
<1>19. Quiet(t)
  BY <1>7, <1>8, <1>9, <1>11, <1>12, <1>14, <1>15, <1>16, <1>17, <1>18, SendNow DEF Quiet
<1>. QED
  BY <1>19, QuietStep

LEMMA KeepRename ==
  ASSUME IInv, NEW t \in Threads, NEW m \in Names, NEW n \in Names, Rename(t, m, n)
  PROVE  IInv'
<1>1. Types /\ RequestOK(t) /\ LocksOK(t)
  BY DEF IInv, ThreadsOK
<1>2. /\ ended = "no" /\ th[t].pc = "idle" /\ sent < MaxRequests /\ sent' = sent + 1
      /\ link' = [link EXCEPT ![n] = link[m], ![m] = None]
      /\ UNCHANGED <<fds, table, alive, nalloc, inode, fm, im, th, refs, handles, raced, cleared, ended>>
  BY DEF Rename, hostVars
<1>3. link' \in [Names -> Inos \cup {None}]
  <2>1. link \in [Names -> Inos \cup {None}]
    BY <1>1 DEF Types
  <2>. QED
    BY <1>2, <2>1
<1>4. RequestOK(t)' /\ LocksOK(t)' /\ \A a \in Addrs : Owed(t, a)' = Owed(t, a)
  BY <1>1, <1>2 DEF RequestOK, LocksOK, Owed
<1>5. ThreadOwns(t)' \subseteq ThreadOwns(t) /\ BudgetMoves(t)
  BY <1>2 DEF ThreadOwns, BudgetMoves
<1>6. Plain(t)
  BY <1>1, <1>2, <1>3, <1>4, <1>5 DEF Plain, Frame, Types, Erasing, ErasePcs
<1>. QED
  BY <1>6, PlainStep
-----------------------------------------------------------------------------
(* Steps that change inodes. *)

Changes(t) ==
  /\ ended' = "no" /\ (raced => raced') /\ (cleared => cleared')
  /\ Types' /\ Steps(t) /\ RequestOK(t)' /\ LocksOK(t)' /\ HostOK(t)'
  /\ \A a \in alive' : \/ a \in alive /\ LookupMoves(t, a)
                       \/ inode'[a].nlookup = 0 /\ \A u \in Threads : Holds(u, a)' = 0
  /\ \A a \in alive' : \/ a \in alive /\ OpenMoves(t, a)
                       \/ inode'[a].nopen = 0 /\ \A u \in Threads : Opened(u, a)' = {}
  /\ ~raced' /\ ~cleared' => AliveMoves(t)
  /\ BudgetMoves(t)
  /\ FdsOK' /\ TableOK'

LEMMA ChangesStep ==
  ASSUME IInv, NEW t \in Threads, Changes(t)
  PROVE  IInv'
<1>1. /\ Types /\ ThreadsOK /\ LookupsOK /\ OpensOK /\ AliveOK /\ BudgetOK /\ FdsOK
      /\ Types' /\ Steps(t) /\ RequestOK(t)' /\ LocksOK(t)' /\ HostOK(t)' /\ FdsOK'
  BY DEF IInv, Changes
<1>2. ThreadsOK'
  BY <1>1, OthersKeep
<1>3. LookupsOK'
  BY <1>1, OthersSame, LookupsStep DEF Changes
<1>4. OpensOK'
  <2>1. cleared => cleared'
    BY Zenon DEF Changes
  <2>. QED
    BY <1>1, <2>1, OthersSame, OpensStep DEF Changes
<1>5. AliveOK'
  <2>1. /\ (raced => raced') /\ (cleared => cleared')
        /\ (~raced' /\ ~cleared' => AliveMoves(t))
    BY Zenon DEF Changes
  <2>2. /\ \A u \in Threads \ {t} : th'[u] = th[u]
        /\ \A u \in Threads \ {t}, a \in Addrs : Holds(u, a)' = Holds(u, a)
    BY <1>1, OthersSame, Zenon
  <2>. QED
    BY <1>1, <2>1, <2>2, AliveStep
<1>6. BudgetOK'
  BY <1>1, OthersSame, BudgetStep DEF BudgetMoves, Changes
<1>7. EndsOnlyByRace'
  BY EndsNot DEF Changes
<1>8. TableOK'
  BY DEF Changes
<1>. QED
  BY <1>1, <1>2, <1>3, <1>4, <1>5, <1>6, <1>7, <1>8 DEF IInv

LEMMA LookupKeeps ==
  ASSUME Types, NEW t \in Threads, NEW a \in Addrs,
         inode'[a].nlookup = inode[a].nlookup, Holds(t, a)' = Holds(t, a)
  PROVE  LookupMoves(t, a)
<1>1. inode[a].nlookup \in Nat /\ Holds(t, a) \in Nat
  BY HoldsNat DEF Types, InodeRec
<1>. QED
  BY <1>1 DEF LookupMoves

LEMMA TableAddrs ==
  ASSUME Types, NEW a \in alive
  PROVE  a \in 1..nalloc /\ a \in Addrs
<1>1. alive \subseteq 1..nalloc /\ nalloc \in 0..MaxRequests
  BY DEF Types
<1>2. a \in 1..nalloc
  BY <1>1
<1>. QED
  BY <1>1, <1>2, MirrorAssumption DEF Addrs

LEMMA KeepLkTable ==
  ASSUME IInv, NEW t \in Threads, LkTable(t)
  PROVE  IInv'
<1>1. /\ th[t].pc = "lk_table" /\ ended = "no" /\ fm = None
      /\ Types /\ RequestOK(t) /\ HostOK(t) /\ FdsOK /\ ThreadsOK
  BY DEF LkTable, At, IInv, ThreadsOK
<1>2. CASE (\E a \in Walked(th[t].ino) : Freed(a)) /\ TouchFreed(t)
  <2>1. PICK a \in table : a \notin alive
    BY <1>2 DEF Walked, Chain, Freed
  <2>2. cleared
    BY <2>1, Zenon DEF IInv, TableOK
  <2>. QED
    BY <1>2, <2>2, TouchFreedStep, Zenon
<1>3. \A b \in Addrs : Owed(t, b) = 0
  BY <1>1 DEF Owed
<1>4. PICK i : i = th[t].ino
  OBVIOUS
<1>5. ASSUME UNCHANGED <<link, fds, hostVars, flagVars>>,
             NEW a \in Known(i), NEW l \in {"lk_known", "lk_new"},
             th' = [th EXCEPT ![t].nd = a, ![t].pc = l],
             fm' = IF l = "lk_known" THEN None ELSE t,
             UNCHANGED <<table, alive, nalloc, inode, im>>
      PROVE  IInv'
  <2>1. a \in 1..nalloc /\ a \in Addrs /\ inode[a].ino = th[t].ino
    <3>1. a \in table /\ inode[a].ino = th[t].ino
      BY <1>4 DEF Known
    <3>2. table \subseteq 1..nalloc /\ nalloc \in 0..MaxRequests
      BY <1>1 DEF Types
    <3>3. a \in 1..nalloc
      BY <3>1, <3>2
    <3>. QED
      BY <3>1, <3>2, <3>3, MirrorAssumption DEF Addrs
  <2>7. cleared \/ a \in alive
    <3>1. a \in table
      BY DEF Known
    <3>. QED
      BY <3>1, Zenon DEF IInv, TableOK
  <2>2. l \in Pcs
    BY DEF Pcs, LookupPcs
  <2>3. Now(t, l, a, th[t].ino, th[t].fd, th[t].fh, th[t].cnt)
    BY <1>1, <1>5, <2>1, <2>2, NodeNow
  <2>4. RequestOK(t)' /\ LocksOK(t)'
    BY <1>1, <1>5, <2>1, <2>3
       DEF Now, RequestOK, LocksOK, LookupPcs, NewFdPcs, NodePcs, UsePcs, OwingPcs, ErasePcs
  <2>5. \A b \in Addrs : Owed(t, b)' = 0
    BY <2>3 DEF Now, Owed
  <2>6. Continues(t, l, a, th[t].ino, th[t].fd, th[t].cnt)
    BY <1>1, <1>5, <1>3, <2>1, <2>3, <2>4, <2>5, <2>7 DEF Continues, Types, NewFdPcs, ErasePcs, AllocPcs
  <2>. QED
    BY <2>6, GoesOn
<1>6. ASSUME UNCHANGED <<link, fds, hostVars, flagVars>>, fm' = t, LookupFails(t), UNCHANGED <<table, alive, nalloc, inode>>
      PROVE  IInv'
  BY <1>1, <1>3, <1>6, GivesUp DEF LookupFails, Types, hostVars
<1>7. ASSUME UNCHANGED <<link, fds, hostVars, flagVars>>, Known(i) = {},
             nalloc' = nalloc + 1, table' = table \cup {nalloc + 1}, alive' = alive \cup {nalloc + 1},
             inode' = [inode EXCEPT ![nalloc + 1] = [ino |-> i, fd |-> None, nlookup |-> 0, nopen |-> 0]],
             th' = [th EXCEPT ![t].nd = nalloc + 1, ![t].pc = "lk_new"],
             fm' = t, UNCHANGED im
      PROVE  IInv'
  <2>1. nalloc \in Nat /\ nalloc < MaxRequests
    <3>1. IsFiniteSet(Allocating) /\ nalloc + Cardinality(Allocating) <= sent /\ sent <= MaxRequests
      BY DEF IInv, BudgetOK
    <3>2. Cardinality(Allocating) \in Nat /\ Cardinality(Allocating) # 0
      <4>1. t \in Allocating
        BY <1>1 DEF Allocating, AllocPcs
      <4>. QED
        BY <3>1, <4>1, FS_CardinalityType, FS_EmptySet
    <3>3. nalloc \in Nat /\ sent \in Nat
      BY <1>1 DEF Types
    <3>. QED
      BY <3>1, <3>2, <3>3, MirrorAssumption
  <2>2. PICK b \in Addrs : b = nalloc + 1
    BY <2>1, MirrorAssumption DEF Addrs
  <2>3. PICK new \in InodeRec : new = [ino |-> i, fd |-> None, nlookup |-> 0, nopen |-> 0]
    BY <1>1, <1>4 DEF RequestOK, NewFdPcs, InodeRec
  <2>4. /\ inode' \in [Addrs -> InodeRec] /\ inode'[b] = new
        /\ \A a \in Addrs \ {b} : inode'[a] = inode[a]
    BY <1>1, <1>7, <2>2, <2>3 DEF Types
  <2>5. Now(t, "lk_new", b, th[t].ino, th[t].fd, th[t].fh, th[t].cnt)
    <3>1. "lk_new" \in Pcs
      BY DEF Pcs, LookupPcs
    <3>. QED
      BY <1>1, <1>7, <2>2, <3>1, NodeNow
  <2>6. Types'
    <3>1. nalloc' \in 0..MaxRequests /\ alive' \in SUBSET (1..nalloc') /\ table' \in SUBSET (1..nalloc')
      BY <1>1, <1>7, <2>1, MirrorAssumption DEF Types
    <3>. QED
      BY <1>1, <1>7, <2>4, <2>5, <3>1 DEF Types, Now, hostVars, flagVars
  <2>7. Steps(t)
    <3>1. \A a \in 1..nalloc : a \in Addrs \ {b}
      BY <2>1, <2>2, MirrorAssumption DEF Addrs
    <3>. QED
      BY <1>1, <1>7, <2>1, <2>4, <2>5, <3>1 DEF Steps, Now, hostVars
  <2>8. RequestOK(t)' /\ LocksOK(t)'
    <3>1. b \in 1..nalloc' /\ inode'[b].ino = i
      BY <1>7, <2>1, <2>2, <2>3, <2>4
    <3>. QED
      BY <1>1, <1>7, <1>4, <2>5, <3>1
         DEF Now, RequestOK, LocksOK, LookupPcs, NewFdPcs, NodePcs, UsePcs, OwingPcs, ErasePcs
  <2>9. HostOK(t)'
    <3>1. handles[t] \subseteq Handles
      BY <1>1 DEF Types
    <3>. QED
      BY <1>1, <1>7, <2>1, <3>1 DEF HostOK, hostVars, Addrs, Handles
  <2>10. \A a \in Addrs : Holds(t, a)' = Holds(t, a) /\ Opened(t, a)' = Opened(t, a)
    <3>1. \A a \in Addrs : Owed(t, a)' = 0
      BY <2>5 DEF Now, Owed
    <3>. QED
      BY <1>1, <1>7, <1>3, <2>5, <3>1 DEF Holds, Opened, Now, hostVars
  <2>11. \A u \in Threads : Holds(u, b)' = 0 /\ Opened(u, b)' = {}
    <3>1. SUFFICES ASSUME NEW u \in Threads PROVE Holds(u, b) = 0 /\ Opened(u, b) = {}
      BY <2>7, <2>10, OthersSame
    <3>2. RequestOK(u) /\ HostOK(u)
      BY <1>1 DEF ThreadsOK
    <3>3. refs[u][b] \in Nat /\ ~(b <= nalloc)
      BY <1>1, <2>1, <2>2 DEF Types
    <3>4. refs[u][b] = 0
      BY <3>2, <3>3 DEF HostOK
    <3>5. Owed(u, b) = 0
      <4>1. th[u].pc \in NodePcs => th[u].nd # b
        BY <2>1, <2>2, <3>2, <3>3 DEF RequestOK
      <4>. QED
        BY <4>1 DEF Owed, NodePcs, OwingPcs
    <3>6. Opened(u, b) = {}
      <4>1. th[u].pc = "rl_count" => th[u].nd # b
        BY <2>1, <2>2, <3>2, <3>3 DEF RequestOK, NodePcs, UsePcs
      <4>2. \A h \in handles[u] : h.nd # b
        BY <3>2, <3>3 DEF HostOK
      <4>. QED
        BY <4>1, <4>2 DEF Opened
    <3>. QED
      BY <3>4, <3>5, <3>6 DEF Holds
  <2>12. FdsOK'
    <3>1. /\ \A u \in Threads : ThreadOwns(u) \subseteq Owned
          /\ \A a \in alive : InodeOwns(a) \subseteq Owned
      BY DEF Owned
    <3>2. ASSUME NEW a \in alive' PROVE InodeOwns(a)' \subseteq Owned
      <4>1. CASE a = b
        BY <2>3, <2>4, <4>1, NoneIsNo DEF InodeOwns
      <4>2. CASE a # b
        <5>1. a \in alive /\ inode'[a] = inode[a]
          BY <1>7, <2>2, <2>4, <2>6, <4>2, MirrorAssumption DEF Types, Addrs
        <5>. QED
          BY <3>1, <5>1 DEF InodeOwns
      <4>. QED
        BY <4>1, <4>2
    <3>3. ThreadOwns(t)' \subseteq ThreadOwns(t)
      <4>1. handles'[t] = handles[t]
        BY <1>7 DEF hostVars
      <4>. QED
        BY <1>1, <2>5, <4>1 DEF ThreadOwns, Now, NewFdPcs
    <3>4. Owned' \subseteq Owned
      BY <2>7, <3>1, <3>2, <3>3, OthersSame, OwnedStep
    <3>. QED
      BY <1>1, <1>7, <3>4, FdKeep DEF FdsOK, flagVars
  <2>13. \A a \in alive' : a = b \/ (a \in alive /\ a \in Addrs /\ inode'[a] = inode[a])
    BY <1>7, <2>2, <2>4, <2>6, MirrorAssumption DEF Types, Addrs
  <2>14. AliveMoves(t)
    <3>1. \A u \in Threads : Erasing(u) => th[u].nd \in Addrs /\ th[u].nd # b
      <4>1. \A c \in 1..nalloc : c \in Addrs /\ c # b
        BY <2>1, <2>2, MirrorAssumption DEF Addrs
      <4>. QED
        BY <1>1, <4>1 DEF ThreadsOK, RequestOK, Erasing, NodePcs
    <3>2. th'[t].pc = "lk_new" /\ th'[t].nd = b /\ ~Erasing(t)'
      BY <2>5 DEF Now, Erasing, ErasePcs
    <3>3. \A u \in Threads : Erasing(u) => inode'[th[u].nd] = inode[th[u].nd]
      BY <2>4, <3>1
    <3>4. b \in alive' /\ alive \ alive' = {}
      BY <1>7, <2>2
    <3>5. \A c \in Addrs : Holds(t, c)' > 0 => Holds(t, c) > 0
      BY <2>10
    <3>. QED
      BY <3>2, <3>3, <3>4, <3>5 DEF AliveMoves
  <2>15. BudgetMoves(t)
    BY <1>1, <1>7, <2>5 DEF BudgetMoves, Allocating, AllocPcs, Now, flagVars
  <2>16. /\ \A a \in alive' : \/ a \in alive /\ LookupMoves(t, a)
                              \/ inode'[a].nlookup = 0 /\ \A u \in Threads : Holds(u, a)' = 0
         /\ \A a \in alive' : \/ a \in alive /\ OpenMoves(t, a)
                              \/ inode'[a].nopen = 0 /\ \A u \in Threads : Opened(u, a)' = {}
    <3>1. inode'[b].nlookup = 0 /\ inode'[b].nopen = 0
      BY <2>3, <2>4
    <3>. QED
      BY <1>1, <2>10, <2>11, <2>13, <3>1, LookupKeeps DEF OpenMoves
  <2>17. TableOK'
    <3>1. SUFFICES ASSUME ~cleared'
                   PROVE  /\ table' = alive'
                          /\ \A c, d \in alive' : inode'[c].ino = inode'[d].ino => c = d
                          /\ \A u \in Threads : ~Destroying(u)'
      BY Zenon DEF TableOK
    <3>2. ~cleared
      BY <1>7, <3>1, Zenon DEF flagVars
    <3>3. /\ table = alive
          /\ \A c, d \in alive : inode[c].ino = inode[d].ino => c = d
          /\ \A u \in Threads : ~Destroying(u)
      BY <3>2, Zenon DEF IInv, TableOK
    <3>4. inode'[b].ino = i /\ \A c \in alive : inode[c].ino # i
      BY <1>7, <2>3, <2>4, <3>3 DEF Known
    <3>5. \A c, d \in alive' : inode'[c].ino = inode'[d].ino => c = d
      BY <2>13, <3>3, <3>4
    <3>6. \A u \in Threads : ~Destroying(u)'
      BY <2>5, <3>3 DEF Now, Destroying
    <3>. QED
      BY <1>7, <3>3, <3>5, <3>6
  <2>18. Changes(t)
    BY <2>17, <1>1, <1>7, <2>6, <2>7, <2>8, <2>9, <2>12, <2>14, <2>15, <2>16 DEF Changes, flagVars
  <2>. QED
    BY <2>18, ChangesStep
<1>. QED
  BY <1>2, <1>4, <1>5, <1>6, <1>7 DEF LkTable
(* A lookup that has counted: the host, or the request, holds one reference more. *)
LookedUp(t, a) ==
  /\ th' \in [Threads -> ThStates] /\ \A u \in Threads \ {t} : th'[u] = th[u]
  /\ refs' \in [Threads -> [Addrs -> Nat]] /\ \A u \in Threads \ {t} : refs'[u] = refs[u]
  /\ RequestOK(t)' /\ LocksOK(t)' /\ HostOK(t)' /\ ~Erasing(t)'
  /\ th'[t].pc \notin {"lk_new", "ds_inode", "ds_free"}
  /\ Holds(t, a)' = Holds(t, a) + 1
  /\ \A b \in Addrs \ {a} : Holds(t, b)' = Holds(t, b)
  /\ \A b \in Addrs : Opened(t, b)' = Opened(t, b)
  /\ t \notin Allocating'
  /\ ThreadOwns(t)' \subseteq ThreadOwns(t) \ {<<"fd", t, th[t].fd, {th[t].ino}>>}
LEMMA AfterLookupMoves ==
  ASSUME Types, NEW t \in Threads, RequestOK(t), HostOK(t), NEW a \in Addrs, a = th[t].nd,
         th[t].pc \in {"lk_known", "lk_new"},
         AfterLookup(t, a), UNCHANGED <<nalloc, handles>>
  PROVE  LookedUp(t, a)
<1>1. th[t].op \in LookupOps /\ a \in 1..nalloc
  BY DEF RequestOK, LookupPcs, NodePcs
<1>2. \A b \in Addrs : refs[t][b] \in Nat /\ Owed(t, b) = 0
  BY DEF Types, Owed
<1>3. handles'[t] = handles[t] /\ handles[t] \subseteq Handles
  BY DEF Types
<1>4. ASSUME NEW l \in {"ul_release", "cr_count", "rd_entry"}, refs' = refs,
             l = "cr_count" => th[t].op = "create",
             Now(t, l, th[t].nd, th[t].ino, None, th[t].fh, th[t].cnt)
      PROVE  LookedUp(t, a)
  <2>1. RequestOK(t)'
    BY <1>1, <1>4
       DEF Now, RequestOK, LookupPcs, LookupOps, NewFdPcs, NodePcs, UsePcs, OwingPcs, ErasePcs
  <2>2. /\ LocksOK(t)' /\ ~Erasing(t)' /\ t \notin Allocating'
        /\ th'[t].pc \notin {"lk_new", "ds_inode", "ds_free"}
    BY <1>4 DEF Now, LocksOK, Erasing, ErasePcs, Allocating, AllocPcs
  <2>3. HostOK(t)'
    BY <1>4 DEF HostOK
  <2>4. \A b \in Addrs : Owed(t, b)' = IF b = a THEN 1 ELSE 0
    BY <1>4 DEF Now, Owed
  <2>5. /\ Holds(t, a)' = Holds(t, a) + 1 /\ \A b \in Addrs \ {a} : Holds(t, b)' = Holds(t, b)
    BY <1>2, <1>4, <2>4 DEF Holds
  <2>6. \A b \in Addrs : Opened(t, b)' = Opened(t, b)
    BY <1>3, <1>4 DEF Now, Opened
  <2>7. ThreadOwns(t)' \subseteq ThreadOwns(t) \ {<<"fd", t, th[t].fd, {th[t].ino}>>}
    BY <1>3, <1>4 DEF Now, ThreadOwns, NewFdPcs
  <2>8. /\ th' \in [Threads -> ThStates] /\ \A u \in Threads \ {t} : th'[u] = th[u]
        /\ refs' \in [Threads -> [Addrs -> Nat]] /\ \A u \in Threads \ {t} : refs'[u] = refs[u]
    BY <1>4 DEF Now, Types
  <2>. QED
    BY <2>1, <2>2, <2>3, <2>5, <2>6, <2>7, <2>8 DEF LookedUp
<1>5. ASSUME NowIdle(t), refs' = [refs EXCEPT ![t][a] = @ + 1]
      PROVE  LookedUp(t, a)
  <2>1. /\ refs' \in [Threads -> [Addrs -> Nat]] /\ \A u \in Threads \ {t} : refs'[u] = refs[u]
        /\ \A b \in Addrs : refs'[t][b] = IF b = a THEN refs[t][a] + 1 ELSE refs[t][b]
    BY <1>5 DEF Types
  <2>2. HostOK(t)'
    <3>1. a <= nalloc /\ refs[t] \in [Addrs -> Nat]
      BY <1>1 DEF Types
    <3>. QED
      BY <1>2, <1>3, <2>1, <3>1 DEF HostOK, Handles
  <2>3. /\ Holds(t, a)' = Holds(t, a) + 1 /\ \A b \in Addrs \ {a} : Holds(t, b)' = Holds(t, b)
    BY <1>2, <1>5, <2>1, IdleIs DEF Holds
  <2>4. \A b \in Addrs : Opened(t, b)' = Opened(t, b)
    BY <1>3, <1>5, IdleIs DEF Opened
  <2>5. ThreadOwns(t)' \subseteq ThreadOwns(t) \ {<<"fd", t, th[t].fd, {th[t].ino}>>}
    BY <1>3, <1>5, IdleIs DEF ThreadOwns
  <2>. QED
    BY <1>5, <2>1, <2>2, <2>3, <2>4, <2>5, IdleIs DEF NowIdle, LookedUp
<1>. QED
  BY <1>1, <1>4, <1>5, AfterLookupNow DEF LookupOps
LEMMA OwnedWithout ==
  ASSUME NEW t \in Threads, Steps(t), NEW x, NEW Y,
         ThreadOwns(t)' \subseteq (ThreadOwns(t) \ {x}) \cup Y,
         \A u \in Threads \ {t} : x \notin ThreadOwns(u),
         \A a \in alive' : \/ InodeOwns(a)' \subseteq Y
                           \/ a \in alive /\ InodeOwns(a)' \subseteq InodeOwns(a) \ {x}
  PROVE  Owned' \subseteq (Owned \ {x}) \cup Y
<1>1. PICK X : X = (Owned \ {x}) \cup Y
  OBVIOUS
<1>2. /\ \A u \in Threads : ThreadOwns(u) \subseteq Owned
      /\ \A a \in alive : InodeOwns(a) \subseteq Owned
  BY DEF Owned
<1>3. ThreadOwns(t)' \subseteq X /\ \A u \in Threads \ {t} : ThreadOwns(u) \subseteq X
  BY <1>1, <1>2
<1>4. \A a \in alive' : InodeOwns(a)' \subseteq X
  BY <1>1, <1>2
<1>5. Owned' \subseteq X
  BY <1>3, <1>4, OthersSame, OwnedStep
<1>. QED
  BY <1>1, <1>5

(* The contents of an inode after a step. *)
InodeIs(a, fd, nlookup, nopen) ==
  /\ inode' \in [Addrs -> InodeRec] /\ \A b \in Addrs \ {a} : inode'[b] = inode[b]
  /\ inode'[a].ino = inode[a].ino /\ inode'[a].fd = fd
  /\ inode'[a].nlookup = nlookup /\ inode'[a].nopen = nopen

LEMMA InodeTypes ==
  ASSUME Types, NEW a \in Addrs
  PROVE  /\ inode[a] \in InodeRec /\ inode[a].ino \in Inos \cup {None}
         /\ inode[a].fd \in Fds \cup {Released, None}
         /\ inode[a].nlookup \in Nat /\ inode[a].nopen \in Nat
BY DEF Types, InodeRec

LEMMA InodeSet ==
  ASSUME Types, NEW a \in Addrs, NEW r \in InodeRec, inode' = [inode EXCEPT ![a] = r],
         r.ino = inode[a].ino
  PROVE  InodeIs(a, r.fd, r.nlookup, r.nopen)
BY DEF Types, InodeIs

LEMMA InodeNlookup ==
  ASSUME Types, NEW a \in Addrs, NEW k \in Nat, inode' = [inode EXCEPT ![a].nlookup = k]
  PROVE  InodeIs(a, inode[a].fd, k, inode[a].nopen)
<1>1. PICK q \in InodeRec : q = inode[a]
  BY InodeTypes
<1>2. PICK r : r = [q EXCEPT !.nlookup = k]
  OBVIOUS
<1>3. r \in InodeRec
  BY <1>2 DEF InodeRec
<1>4. r.ino = q.ino /\ r.fd = q.fd /\ r.nlookup = k /\ r.nopen = q.nopen
  BY <1>2 DEF InodeRec
<1>5. inode' = [inode EXCEPT ![a] = r]
  BY <1>1, <1>2 DEF Types
<1>. QED
  BY <1>1, <1>3, <1>4, <1>5, InodeSet

LEMMA InodeNlookupFd ==
  ASSUME Types, NEW a \in Addrs, NEW k \in Nat, NEW n \in Fds,
         inode' = [inode EXCEPT ![a].nlookup = k, ![a].fd = n]
  PROVE  InodeIs(a, n, k, inode[a].nopen)
<1>1. PICK q \in InodeRec : q = inode[a]
  BY InodeTypes
<1>2. PICK r : r = [q EXCEPT !.nlookup = k, !.fd = n]
  OBVIOUS
<1>3. r \in InodeRec
  BY <1>2 DEF InodeRec
<1>4. r.ino = q.ino /\ r.fd = n /\ r.nlookup = k /\ r.nopen = q.nopen
  BY <1>2 DEF InodeRec
<1>5. inode' = [inode EXCEPT ![a] = r]
  BY <1>1, <1>2 DEF Types
<1>. QED
  BY <1>1, <1>3, <1>4, <1>5, InodeSet

LEMMA InodeReleased ==
  ASSUME Types, NEW a \in Addrs, inode' = [inode EXCEPT ![a].fd = Released]
  PROVE  InodeIs(a, Released, inode[a].nlookup, inode[a].nopen)
<1>1. PICK q \in InodeRec : q = inode[a]
  BY InodeTypes
<1>2. PICK r : r = [q EXCEPT !.fd = Released]
  OBVIOUS
<1>3. r \in InodeRec
  BY <1>2 DEF InodeRec
<1>4. r.ino = q.ino /\ r.fd = Released /\ r.nlookup = q.nlookup /\ r.nopen = q.nopen
  BY <1>2 DEF InodeRec
<1>5. inode' = [inode EXCEPT ![a] = r]
  BY <1>1, <1>2 DEF Types
<1>. QED
  BY <1>1, <1>3, <1>4, <1>5, InodeSet

LEMMA InodeNopen ==
  ASSUME Types, NEW a \in Addrs, NEW k \in Nat, inode' = [inode EXCEPT ![a].nopen = k]
  PROVE  InodeIs(a, inode[a].fd, inode[a].nlookup, k)
<1>1. PICK q \in InodeRec : q = inode[a]
  BY InodeTypes
<1>2. PICK r : r = [q EXCEPT !.nopen = k]
  OBVIOUS
<1>3. r \in InodeRec
  BY <1>2 DEF InodeRec
<1>4. r.ino = q.ino /\ r.fd = q.fd /\ r.nlookup = q.nlookup /\ r.nopen = k
  BY <1>2 DEF InodeRec
<1>5. inode' = [inode EXCEPT ![a] = r]
  BY <1>1, <1>2 DEF Types
<1>. QED
  BY <1>1, <1>3, <1>4, <1>5, InodeSet

LEMMA KeepLkKnown ==
  ASSUME IInv, NEW t \in Threads, LkKnown(t)
  PROVE  IInv'
<1>1. th[t].pc = "lk_known" /\ ended = "no" /\ Types /\ RequestOK(t) /\ HostOK(t) /\ FdsOK
  BY DEF LkKnown, At, IInv, ThreadsOK
<1>2. CASE Freed(th[t].nd) /\ TouchFreed(t)
  BY <1>1, <1>2, FreedStep DEF NodePcs
<1>3. CASE ~(Freed(th[t].nd) /\ TouchFreed(t))
  <2>1. PICK a \in Addrs : a = th[t].nd /\ a \in 1..nalloc
    BY <1>1, MirrorAssumption DEF RequestOK, NodePcs, Types, Addrs
  <2>2. /\ a \in alive /\ raced' = (raced \/ inode[a].nlookup = 0)
        /\ inode' = [inode EXCEPT ![a].nlookup = @ + 1]
        /\ fds' = Closed(th[t].fd) /\ AfterLookup(t, a)
        /\ UNCHANGED <<link, table, alive, nalloc, fm, im, handles, sent, cleared, ended>>
    BY <1>3, <2>1 DEF LkKnown, Freed
  <2>3. PICK k \in Nat : k = inode[a].nlookup + 1
    BY <1>1, InodeTypes
  <2>4. InodeIs(a, inode[a].fd, k, inode[a].nopen)
    <3>1. inode' = [inode EXCEPT ![a].nlookup = k]
      BY <2>2, <2>3
    <3>. QED
      BY <1>1, <3>1, InodeNlookup
  <2>5. LookedUp(t, a)
    BY <1>1, <2>1, <2>2, AfterLookupMoves
  <2>6. th[t].fd \in Fds /\ fds' = [fds EXCEPT ![th[t].fd] = None]
    BY <1>1, <2>2 DEF RequestOK, NewFdPcs, Closed
  <2>7. Types'
    <3>1. fds' \in [Fds -> Inos \cup {None}] /\ raced' \in BOOLEAN
      BY <1>1, <2>2, <2>6 DEF Types
    <3>. QED
      BY <1>1, <2>2, <2>4, <2>5, <3>1 DEF Types, InodeIs, LookedUp
  <2>8. Steps(t)
    <3>1. \A b \in Addrs : inode'[b].ino = inode[b].ino
      BY <2>4 DEF InodeIs
    <3>2. 1..nalloc \subseteq Addrs /\ nalloc <= nalloc
      BY <1>1, MirrorAssumption DEF Types, Addrs
    <3>. QED
      BY <2>2, <2>5, <3>1, <3>2 DEF Steps, LookedUp
  <2>9. \A b \in alive' : b \in alive /\ LookupMoves(t, b) /\ OpenMoves(t, b)
    <3>1. SUFFICES ASSUME NEW b \in alive PROVE LookupMoves(t, b) /\ OpenMoves(t, b)
      BY <2>2
    <3>2. b \in Addrs
      BY <1>1, MirrorAssumption DEF Types, Addrs
    <3>3. CASE b = a
      BY <2>3, <2>4, <2>5, <3>3 DEF LookedUp, InodeIs, LookupMoves, OpenMoves
    <3>4. CASE b # a
      BY <1>1, <2>4, <2>5, <3>2, <3>4, LookupKeeps DEF LookedUp, InodeIs, OpenMoves
    <3>. QED
      BY <3>3, <3>4
  <2>10. ASSUME ~raced', ~cleared' PROVE AliveMoves(t)
    <3>1. InTable /\ inode[a].nlookup # 0
      BY <2>2, <2>10, Zenon DEF IInv, AliveOK
    <3>2. \A u \in Threads : Erasing(u) => th[u].nd \in Addrs /\ th[u].nd # a
      <4>1. alive \subseteq Addrs
        BY <1>1, MirrorAssumption DEF Types, Addrs
      <4>. QED
        BY <3>1, <4>1 DEF InTable
    <3>3. \A b \in Addrs : Holds(t, b)' > 0 => Holds(t, b) > 0 \/ b \in alive
      BY <2>2, <2>5 DEF LookedUp
    <3>. QED
      BY <2>2, <2>4, <2>5, <3>2, <3>3 DEF AliveMoves, LookedUp, InodeIs
  <2>11. BudgetMoves(t)
    BY <2>2, <2>5 DEF BudgetMoves, LookedUp
  <2>12. FdsOK'
    <3>1. PICK x : x = <<"fd", t, th[t].fd, {th[t].ino}>>
      OBVIOUS
    <3>2. x \in Owned /\ x[3] = th[t].fd
      BY <1>1, <3>1 DEF Owned, ThreadOwns, NewFdPcs
    <3>3. \A u \in Threads \ {t} : x \notin ThreadOwns(u)
      BY <3>1 DEF ThreadOwns
    <3>4. \A b \in alive' : b \in alive /\ InodeOwns(b)' \subseteq InodeOwns(b) \ {x}
      <4>1. \A b \in Addrs : inode'[b].fd = inode[b].fd /\ inode'[b].ino = inode[b].ino
        BY <2>4 DEF InodeIs
      <4>2. alive \subseteq Addrs
        BY <1>1, MirrorAssumption DEF Types, Addrs
      <4>. QED
        BY <2>2, <3>1, <4>1, <4>2 DEF InodeOwns
    <3>5. Owned' \subseteq Owned \ {x}
      <4>1. PICK Y : Y = {}
        OBVIOUS
      <4>2. ThreadOwns(t)' \subseteq (ThreadOwns(t) \ {x}) \cup Y
        BY <2>5, <3>1 DEF LookedUp
      <4>3. Owned' \subseteq (Owned \ {x}) \cup Y
        BY <2>8, <3>3, <3>4, <4>2, OwnedWithout
      <4>. QED
        BY <4>1, <4>3
    <3>6. FdCloses(Owned, Owned', fds, fds', x)
      BY <2>6, <3>2, <3>5 DEF FdCloses
    <3>7. fds \in [Fds -> Inos \cup {None}]
      BY <1>1 DEF Types
    <3>. QED
      BY <1>1, <2>2, <3>6, <3>7, FdClosed DEF FdsOK
  <2>13. (raced => raced') /\ (cleared => cleared') /\ ended' = "no"
    BY <1>1, <2>2, Zenon
  <2>14. TableOK'
    BY <2>2, <2>5, <2>8, TableStays DEF LookedUp
  <2>15. Changes(t)
    BY <2>14, <2>5, <2>7, <2>8, <2>9, <2>10, <2>11, <2>12, <2>13 DEF Changes, LookedUp
  <2>. QED
    BY <2>15, ChangesStep
<1>. QED
  BY <1>2, <1>3
LEMMA KeepLkNew ==
  ASSUME IInv, NEW t \in Threads, LkNew(t)
  PROVE  IInv'
<1>1. /\ th[t].pc = "lk_new" /\ ended = "no" /\ Types /\ RequestOK(t) /\ LocksOK(t) /\ HostOK(t)
      /\ FdsOK /\ ThreadsOK
  BY DEF LkNew, At, IInv, ThreadsOK
<1>2. CASE Freed(th[t].nd) /\ TouchFreed(t)
  BY <1>1, <1>2, FreedStep DEF NodePcs
<1>3. CASE ~(Freed(th[t].nd) /\ TouchFreed(t))
  <2>1. PICK a \in Addrs : a = th[t].nd /\ a \in 1..nalloc
    BY <1>1, MirrorAssumption DEF RequestOK, NodePcs, Types, Addrs
  <2>2. /\ a \in alive /\ im[a] = None /\ fm' = None
        /\ inode' = [inode EXCEPT ![a].nlookup = @ + 1, ![a].fd = th[t].fd]
        /\ AfterLookup(t, a)
        /\ UNCHANGED <<link, fds, table, alive, nalloc, im, handles, sent, raced, cleared, ended>>
    BY <1>3, <2>1 DEF LkNew, Freed, flagVars
  <2>3. PICK k \in Nat : k = inode[a].nlookup + 1
    BY <1>1, InodeTypes
  <2>4. PICK n \in Fds : n = th[t].fd
    BY <1>1 DEF RequestOK, NewFdPcs
  <2>5. InodeIs(a, n, k, inode[a].nopen)
    <3>1. inode' = [inode EXCEPT ![a].nlookup = k, ![a].fd = n]
      BY <2>2, <2>3, <2>4
    <3>. QED
      BY <1>1, <3>1, InodeNlookupFd
  <2>6. LookedUp(t, a)
    BY <1>1, <2>1, <2>2, AfterLookupMoves
  <2>7. Types'
    BY <1>1, <2>2, <2>5, <2>6 DEF Types, InodeIs, LookedUp
  <2>8. Steps(t)
    <3>1. \A b \in Addrs : inode'[b].ino = inode[b].ino
      BY <2>5 DEF InodeIs
    <3>2. 1..nalloc \subseteq Addrs /\ nalloc <= nalloc
      BY <1>1, MirrorAssumption DEF Types, Addrs
    <3>3. fm = t
      BY <1>1 DEF LocksOK
    <3>. QED
      BY <2>2, <2>6, <3>1, <3>2, <3>3 DEF Steps, LookedUp
  <2>9. \A b \in alive' : b \in alive /\ LookupMoves(t, b) /\ OpenMoves(t, b)
    <3>1. SUFFICES ASSUME NEW b \in alive PROVE LookupMoves(t, b) /\ OpenMoves(t, b)
      BY <2>2
    <3>2. b \in Addrs
      BY <1>1, MirrorAssumption DEF Types, Addrs
    <3>3. CASE b = a
      BY <2>3, <2>5, <2>6, <3>3 DEF LookedUp, InodeIs, LookupMoves, OpenMoves
    <3>4. CASE b # a
      BY <1>1, <2>5, <2>6, <3>2, <3>4, LookupKeeps DEF LookedUp, InodeIs, OpenMoves
    <3>. QED
      BY <3>3, <3>4
  <2>10. AliveMoves(t)
    <3>1. ASSUME NEW u \in Threads \ {t}, Erasing(u) PROVE th[u].nd \in Addrs /\ th[u].nd # a
      <4>1. RequestOK(u) /\ LocksOK(u) /\ fm = t
        BY <1>1 DEF ThreadsOK, LocksOK
      <4>2. th[u].nd \in Addrs
        BY <1>1, <3>1, <4>1, MirrorAssumption DEF RequestOK, Erasing, NodePcs, Types, Addrs
      <4>. QED
        BY <2>2, <3>1, <4>1, <4>2, NoneIsNo DEF LocksOK, Erasing, ErasePcs
    <3>2. \A b \in Addrs : Holds(t, b)' > 0 => Holds(t, b) > 0 \/ b \in alive
      BY <2>2, <2>6 DEF LookedUp
    <3>. QED
      BY <2>2, <2>5, <2>6, <3>1, <3>2 DEF AliveMoves, LookedUp, InodeIs
  <2>11. BudgetMoves(t)
    BY <2>2, <2>6 DEF BudgetMoves, LookedUp
  <2>12. FdsOK'
    <3>1. PICK x : x = <<"fd", t, n, {th[t].ino}>>
      OBVIOUS
    <3>2. PICK y : y = <<"inode", a, n, {th[t].ino}>>
      OBVIOUS
    <3>3. x \in Owned /\ x[3] = y[3] /\ x[4] = y[4]
      BY <1>1, <2>4, <3>1, <3>2 DEF Owned, ThreadOwns, NewFdPcs
    <3>4. \A u \in Threads \ {t} : x \notin ThreadOwns(u)
      BY <3>1 DEF ThreadOwns
    <3>5. PICK Y : Y = {y}
      OBVIOUS
    <3>6. ASSUME NEW b \in alive'
          PROVE  \/ InodeOwns(b)' \subseteq Y
                 \/ b \in alive /\ InodeOwns(b)' \subseteq InodeOwns(b) \ {x}
      <4>1. b \in alive /\ b \in Addrs
        BY <1>1, <2>2, MirrorAssumption DEF Types, Addrs
      <4>2. CASE b = a
        <5>1. inode'[b].fd = n /\ inode'[b].ino = th[t].ino
          BY <1>1, <2>1, <2>5, <4>2 DEF InodeIs, RequestOK
        <5>. QED
          BY <3>2, <3>5, <4>2, <5>1 DEF InodeOwns
      <4>3. CASE b # a
        <5>1. inode'[b] = inode[b]
          BY <2>5, <4>1, <4>3 DEF InodeIs
        <5>. QED
          BY <3>1, <4>1, <5>1 DEF InodeOwns
      <4>. QED
        BY <4>2, <4>3
    <3>7. ThreadOwns(t)' \subseteq (ThreadOwns(t) \ {x}) \cup Y
      BY <2>4, <2>6, <3>1 DEF LookedUp
    <3>8. Owned' \subseteq (Owned \ {x}) \cup Y
      BY <2>8, <3>4, <3>6, <3>7, OwnedWithout
    <3>9. FdPasses(Owned, Owned', x, y)
      BY <3>3, <3>5, <3>8 DEF FdPasses
    <3>. QED
      BY <1>1, <2>2, <3>9, FdPassed DEF FdsOK
  <2>13. (raced => raced') /\ (cleared => cleared') /\ ended' = "no"
    BY <1>1, <2>2, Zenon
  <2>14. TableOK'
    BY <2>2, <2>6, <2>8, TableStays DEF LookedUp
  <2>15. Changes(t)
    BY <2>14, <2>6, <2>7, <2>8, <2>9, <2>10, <2>11, <2>12, <2>13 DEF Changes, LookedUp
  <2>. QED
    BY <2>15, ChangesStep
<1>. QED
  BY <1>2, <1>3

(* An inode that is released or freed gives its descriptor back. *)
LEMMA InodeCloses ==
  ASSUME IInv, NEW t \in Threads, Steps(t), NEW a \in alive, cleared' = cleared,
         fds' = Closed(inode[a].fd), ThreadOwns(t)' \subseteq ThreadOwns(t),
         \A b \in alive' : \/ InodeOwns(b)' = {}
                           \/ b \in alive \ {a} /\ InodeOwns(b)' \subseteq InodeOwns(b)
  PROVE  FdsOK' /\ fds' \in [Fds -> Inos \cup {None}]
<1>1. FdsOK /\ fds \in [Fds -> Inos \cup {None}]
  BY DEF IInv, Types
<1>2. PICK x : x = <<"inode", a, inode[a].fd, {inode[a].ino}>>
  OBVIOUS
<1>3. \A u \in Threads : x \notin ThreadOwns(u)
  BY <1>2 DEF ThreadOwns
<1>4. \A b \in alive \ {a} : x \notin InodeOwns(b)
  BY <1>2 DEF InodeOwns
<1>5. PICK Y : Y = {}
  OBVIOUS
<1>6. ThreadOwns(t)' \subseteq (ThreadOwns(t) \ {x}) \cup Y
  BY <1>3
<1>7. \A b \in alive' : \/ InodeOwns(b)' \subseteq Y
                        \/ b \in alive /\ InodeOwns(b)' \subseteq InodeOwns(b) \ {x}
  BY <1>4
<1>8. Owned' \subseteq (Owned \ {x}) \cup Y
  BY <1>3, <1>6, <1>7, OwnedWithout
<1>9. Owned' \subseteq Owned \ {x}
  BY <1>5, <1>8
<1>10. CASE inode[a].fd \in Fds
  <2>1. x \in Owned /\ x[3] = inode[a].fd
    BY <1>2, <1>10 DEF Owned, InodeOwns
  <2>2. fds' = [fds EXCEPT ![inode[a].fd] = None]
    BY <1>10 DEF Closed
  <2>3. FdCloses(Owned, Owned', fds, fds', x)
    BY <1>9, <2>1, <2>2 DEF FdCloses
  <2>. QED
    BY <1>1, <2>2, <2>3, FdClosed DEF FdsOK
<1>11. CASE inode[a].fd \notin Fds
  <2>1. fds' = fds
    BY <1>11 DEF Closed
  <2>. QED
    BY <1>1, <1>9, <2>1, FdKeep DEF FdsOK
<1>. QED
  BY <1>10, <1>11

LEMMA KeepUlClose ==
  ASSUME IInv, NEW t \in Threads, UlClose(t)
  PROVE  IInv'
<1>1. /\ th[t].pc = "ul_close" /\ ended = "no" /\ Types /\ RequestOK(t) /\ LocksOK(t) /\ HostOK(t)
      /\ FdsOK /\ ThreadsOK
  BY DEF UlClose, At, IInv, ThreadsOK
<1>2. CASE Freed(th[t].nd) /\ TouchFreed(t)
  BY <1>1, <1>2, FreedStep DEF NodePcs, OwingPcs
<1>3. CASE ~(Freed(th[t].nd) /\ TouchFreed(t))
  <2>1. PICK a \in Addrs : a = th[t].nd /\ a \in 1..nalloc
    BY <1>1, MirrorAssumption DEF RequestOK, NodePcs, OwingPcs, Types, Addrs
  <2>2. /\ a \in alive /\ fds' = Closed(inode[a].fd)
        /\ inode' = [inode EXCEPT ![a].fd = Released]
        /\ im' = [im EXCEPT ![a] = None]
        /\ th' = [th EXCEPT ![t].pc = "fg_count", ![t].cnt = 1]
        /\ UNCHANGED <<link, table, alive, nalloc, fm, refs, handles, sent, raced, cleared, ended>>
    BY <1>3, <2>1 DEF UlClose, Freed, flagVars, hostVars
  <2>3. InodeIs(a, Released, inode[a].nlookup, inode[a].nopen)
    BY <1>1, <2>2, InodeReleased
  <2>4. Now(t, "fg_count", th[t].nd, th[t].ino, th[t].fd, th[t].fh, 1)
    BY <1>1, <2>2, OwesNow
  <2>5. /\ im' \in [Addrs \cup {Root} -> Threads \cup {None}]
        /\ \A b \in Addrs : im'[b] = im[b] \/ im[b] \in {None, t}
    BY <1>1, <2>1, <2>2 DEF Types, LocksOK
  <2>6. Steps(t)
    <3>1. \A b \in Addrs : inode'[b].ino = inode[b].ino
      BY <2>3 DEF InodeIs
    <3>2. 1..nalloc \subseteq Addrs /\ nalloc <= nalloc
      BY <1>1, MirrorAssumption DEF Types, Addrs
    <3>. QED
      BY <2>2, <2>4, <2>5, <3>1, <3>2 DEF Steps, Now
  <2>7. ThreadOwns(t)' \subseteq ThreadOwns(t)
    <3>1. handles'[t] = handles[t]
      BY <2>2
    <3>. QED
      BY <1>1, <2>4, <3>1 DEF ThreadOwns, Now, NewFdPcs
  <2>8. \A b \in alive' : \/ InodeOwns(b)' = {}
                          \/ b \in alive \ {a} /\ InodeOwns(b)' \subseteq InodeOwns(b)
    <3>1. ASSUME NEW b \in alive' PROVE \/ InodeOwns(b)' = {}
                                        \/ b \in alive \ {a} /\ InodeOwns(b)' \subseteq InodeOwns(b)
      <4>1. b \in alive /\ b \in Addrs
        BY <1>1, <2>2, MirrorAssumption DEF Types, Addrs
      <4>2. CASE b = a
        BY <2>3, <4>2, NoneIsNo DEF InodeIs, InodeOwns
      <4>3. CASE b # a
        BY <2>3, <4>1, <4>3 DEF InodeIs, InodeOwns
      <4>. QED
        BY <4>2, <4>3
    <3>. QED
      BY <3>1
  <2>9. FdsOK' /\ fds' \in [Fds -> Inos \cup {None}]
    BY <2>2, <2>6, <2>7, <2>8, InodeCloses
  <2>10. Types'
    BY <1>1, <2>2, <2>3, <2>4, <2>5, <2>9 DEF Types, InodeIs, Now
  <2>11. RequestOK(t)' /\ LocksOK(t)' /\ HostOK(t)'
    BY <1>1, <2>1, <2>2, <2>4
       DEF Now, RequestOK, LocksOK, HostOK, LookupPcs, NewFdPcs, NodePcs, UsePcs, OwingPcs, ErasePcs
  <2>12. \A b \in Addrs : Holds(t, b)' = Holds(t, b) /\ Opened(t, b)' = Opened(t, b)
    <3>1. \A b \in Addrs : Owed(t, b)' = Owed(t, b)
      BY <1>1, <2>4 DEF Now, Owed
    <3>. QED
      BY <1>1, <2>2, <2>4, <3>1 DEF Holds, Opened, Now
  <2>13. \A b \in Addrs : inode'[b].nlookup = inode[b].nlookup /\ inode'[b].nopen = inode[b].nopen
    BY <2>3 DEF InodeIs
  <2>14. \A b \in alive' : b \in alive /\ LookupMoves(t, b) /\ OpenMoves(t, b)
    <3>1. alive' = alive /\ alive \subseteq Addrs
      BY <1>1, <2>2, MirrorAssumption DEF Types, Addrs
    <3>. QED
      BY <1>1, <2>12, <2>13, <3>1, LookupKeeps DEF OpenMoves
  <2>15. AliveMoves(t)
    <3>1. \A u \in Threads : Erasing(u) => th[u].nd \in Addrs
      <4>1. 1..nalloc \subseteq Addrs
        BY <1>1, MirrorAssumption DEF Types, Addrs
      <4>. QED
        BY <1>1, <4>1 DEF ThreadsOK, RequestOK, Erasing, NodePcs
    <3>2. ~Erasing(t)' /\ th'[t].pc # "lk_new"
      BY <2>4 DEF Now, Erasing, ErasePcs
    <3>. QED
      BY <2>2, <2>12, <2>13, <3>1, <3>2 DEF AliveMoves
  <2>16. BudgetMoves(t)
    BY <1>1, <2>2, <2>4 DEF BudgetMoves, Allocating, AllocPcs, Now
  <2>17. (raced => raced') /\ (cleared => cleared') /\ ended' = "no"
    BY <1>1, <2>2, Zenon
  <2>18. TableOK'
    BY <2>2, <2>4, <2>6, TableStays DEF Now
  <2>19. Changes(t)
    BY <2>18, <2>6, <2>9, <2>10, <2>11, <2>14, <2>15, <2>16, <2>17 DEF Changes
  <2>. QED
    BY <2>19, ChangesStep
<1>. QED
  BY <1>2, <1>3
(* Where a request goes after forget_one. *)
Forgotten(t) ==
  /\ th' \in [Threads -> ThStates] /\ \A u \in Threads \ {t} : th'[u] = th[u]
  /\ im' \in [Addrs \cup {Root} -> Threads \cup {None}] /\ \A b \in Addrs : im'[b] = im[b]
  /\ RequestOK(t)' /\ LocksOK(t)' /\ ~Erasing(t)'
  /\ th'[t].pc \notin {"lk_new", "rl_count", "ds_inode", "ds_free"} /\ t \notin Allocating'
  /\ \A b : Owed(t, b)' = 0
  /\ ThreadOwns(t)' \subseteq ThreadOwns(t)

LEMMA AfterForgetMoves ==
  ASSUME Types, NEW t \in Threads, AfterForget(t), UNCHANGED handles
  PROVE  Forgotten(t)
<1>1. handles'[t] = handles[t]
  OBVIOUS
<1>2. CASE Goto(t, "ul_unlinkat") /\ UNCHANGED im
  <2>1. Now(t, "ul_unlinkat", th[t].nd, th[t].ino, th[t].fd, th[t].fh, th[t].cnt)
    <3>1. "ul_unlinkat" \in Pcs
      BY DEF Pcs
    <3>. QED
      BY <1>2, <3>1, GotoNow
  <2>2. RequestOK(t)' /\ LocksOK(t)' /\ ~Erasing(t)'
    BY <2>1 DEF Now, RequestOK, LocksOK, Erasing, LookupPcs, NewFdPcs, NodePcs, UsePcs, OwingPcs, ErasePcs
  <2>3. /\ \A b : Owed(t, b)' = 0
        /\ ThreadOwns(t)' \subseteq ThreadOwns(t)
        /\ th'[t].pc \notin {"lk_new", "rl_count", "ds_inode", "ds_free"} /\ t \notin Allocating'
    BY <1>1, <2>1 DEF Now, Owed, ThreadOwns, NewFdPcs, Allocating, AllocPcs
  <2>. QED
    BY <1>2, <2>1, <2>2, <2>3 DEF Forgotten, Now, Types
<1>3. CASE Idle(t) /\ (im' = UnlockedDir(t) \/ UNCHANGED im)
  <2>1. NowIdle(t)
    BY <1>3, IdleNow
  <2>2. im' \in [Addrs \cup {Root} -> Threads \cup {None}] /\ \A b \in Addrs : im'[b] = im[b]
    BY <1>3, NoneIsNo DEF UnlockedDir, Types
  <2>3. ThreadOwns(t)' \subseteq ThreadOwns(t)
    BY <1>1, <2>1, IdleIs DEF ThreadOwns
  <2>. QED
    BY <2>1, <2>2, <2>3, IdleIs DEF Forgotten, NowIdle
<1>. QED
  BY <1>2, <1>3 DEF AfterForget

(* A thread does not give back more than was counted. *)
LEMMA CountedAll ==
  ASSUME IInv, NEW t \in Threads, NEW a \in alive
  PROVE  Holds(t, a) <= inode[a].nlookup
<1>1. a \in Addrs /\ Types
  BY MirrorAssumption DEF IInv, Types, Addrs
<1>2. IsFiniteSet(References(a)) /\ inode[a].nlookup = Cardinality(References(a))
  BY DEF IInv, LookupsOK
<1>3. PICK s : s = [u \in Threads |-> 1..Holds(u, a)]
  OBVIOUS
<1>4. References(a) = Pairs(s) /\ s[t] = 1..Holds(t, a)
  BY <1>3 DEF References
<1>5. PICK m \in Nat : m = Holds(t, a)
  BY <1>1, HoldsNat
<1>6. PICK D : D = 1..m
  OBVIOUS
<1>7. Cardinality(D) = m
  BY <1>6, FS_Interval
<1>8. {t} \X D \subseteq Pairs(s)
  BY <1>4, <1>5, <1>6 DEF Pairs
<1>9. IsFiniteSet({t} \X D) /\ Cardinality({t} \X D) <= Cardinality(Pairs(s))
  BY <1>2, <1>4, <1>8, FS_Subset
<1>. QED
  BY <1>2, <1>4, <1>5, <1>7, <1>9, ColumnCardinality

LEMMA KeepFgCount ==
  ASSUME IInv, NEW t \in Threads, FgCount(t)
  PROVE  IInv'
<1>1. /\ th[t].pc = "fg_count" /\ ended = "no" /\ Types /\ RequestOK(t) /\ LocksOK(t) /\ HostOK(t)
      /\ FdsOK /\ ThreadsOK
  BY DEF FgCount, At, IInv, ThreadsOK
<1>2. CASE Freed(th[t].nd) /\ TouchFreed(t)
  BY <1>1, <1>2, FreedStep DEF NodePcs
<1>3. CASE ~(Freed(th[t].nd) /\ TouchFreed(t))
  <2>1. PICK a \in Addrs : a = th[t].nd /\ a \in 1..nalloc
    BY <1>1, MirrorAssumption DEF RequestOK, NodePcs, Types, Addrs
  <2>2. /\ a \in alive /\ im[a] = None
        /\ UNCHANGED <<link, fds, table, alive, nalloc, fm, refs, handles, sent, raced, cleared>>
    BY <1>3, <2>1 DEF FgCount, Freed, hostVars
  <2>3. PICK c \in Nat : c = th[t].cnt
    BY <1>1, FieldTypes DEF Types
  <2>4. /\ c > 0 /\ \A b \in Addrs : Owed(t, b) = IF b = a THEN c ELSE 0
    BY <1>1, <2>1, <2>3 DEF RequestOK, Owed
  <2>5. Holds(t, a) \in Nat /\ refs[t][a] \in Nat /\ inode[a].nlookup \in Nat /\ inode[a].nopen \in Nat
    BY <1>1, HoldsNat, InodeTypes
  <2>6. c <= Holds(t, a) /\ c <= inode[a].nlookup
    <3>1. c <= Holds(t, a)
      BY <2>4, <2>5 DEF Holds
    <3>. QED
      BY <2>2, <2>5, <3>1, CountedAll
  <2>7. /\ ended' = "no" /\ inode' = [inode EXCEPT ![a].nlookup = @ - c]
        /\ \/ inode[a].nlookup = c /\ im' = [im EXCEPT ![a] = t] /\ Goto(t, "fg_erase")
           \/ inode[a].nlookup # c /\ AfterForget(t)
    BY <1>1, <1>3, <2>1, <2>3, <2>5, <2>6 DEF FgCount
  <2>8. PICK k \in Nat : k = inode[a].nlookup - c
    BY <2>5, <2>6
  <2>9. InodeIs(a, inode[a].fd, k, inode[a].nopen)
    <3>1. inode' = [inode EXCEPT ![a].nlookup = k]
      BY <2>7, <2>8
    <3>. QED
      BY <1>1, <3>1, InodeNlookup
  <2>10. \/ /\ Forgotten(t)
         \/ /\ inode[a].nlookup = c /\ im' = [im EXCEPT ![a] = t]
            /\ Now(t, "fg_erase", th[t].nd, th[t].ino, th[t].fd, th[t].fh, th[t].cnt)
    <3>1. "fg_erase" \in Pcs
      BY DEF Pcs, NodePcs, ErasePcs
    <3>. QED
      BY <1>1, <2>2, <2>7, <3>1, GotoNow, AfterForgetMoves
  <2>11. /\ th' \in [Threads -> ThStates] /\ \A u \in Threads \ {t} : th'[u] = th[u]
         /\ im' \in [Addrs \cup {Root} -> Threads \cup {None}]
         /\ \A b \in Addrs : im'[b] = im[b] \/ im[b] \in {None, t}
         /\ th'[t].pc \notin {"lk_new", "rl_count", "ds_inode", "ds_free"} /\ t \notin Allocating'
    <3>1. CASE Forgotten(t)
      BY <3>1 DEF Forgotten
    <3>2. CASE /\ inode[a].nlookup = c /\ im' = [im EXCEPT ![a] = t]
               /\ Now(t, "fg_erase", th[t].nd, th[t].ino, th[t].fd, th[t].fh, th[t].cnt)
      BY <1>1, <2>2, <3>2 DEF Now, Types, Allocating, AllocPcs
    <3>. QED
      BY <2>10, <3>1, <3>2
  <2>12. RequestOK(t)' /\ LocksOK(t)' /\ HostOK(t)'
    <3>1. CASE Forgotten(t)
      BY <1>1, <2>2, <3>1 DEF Forgotten, HostOK
    <3>2. CASE /\ inode[a].nlookup = c /\ im' = [im EXCEPT ![a] = t]
               /\ Now(t, "fg_erase", th[t].nd, th[t].ino, th[t].fd, th[t].fh, th[t].cnt)
      <4>1. im'[a] = t
        BY <1>1, <3>2 DEF Types
      <4>. QED
        BY <1>1, <2>1, <2>2, <3>2, <4>1
           DEF Now, RequestOK, LocksOK, HostOK, LookupPcs, NewFdPcs, NodePcs, UsePcs, OwingPcs, ErasePcs
    <3>. QED
      BY <2>10, <3>1, <3>2
  <2>13. (\A b \in Addrs : Owed(t, b)' = 0) /\ ThreadOwns(t)' \subseteq ThreadOwns(t)
    <3>1. CASE Forgotten(t)
      BY <3>1 DEF Forgotten
    <3>2. CASE /\ inode[a].nlookup = c /\ im' = [im EXCEPT ![a] = t]
               /\ Now(t, "fg_erase", th[t].nd, th[t].ino, th[t].fd, th[t].fh, th[t].cnt)
      <4>1. handles'[t] = handles[t]
        BY <2>2
      <4>. QED
        BY <3>2, <4>1 DEF Now, Owed, ThreadOwns, NewFdPcs
    <3>. QED
      BY <2>10, <3>1, <3>2
  <2>14. Erasing(t)' => inode[a].nlookup = c /\ th'[t].nd = a
    BY <2>1, <2>10 DEF Forgotten, Now
  <2>15. Types'
    BY <1>1, <2>2, <2>9, <2>11 DEF Types, InodeIs
  <2>16. Steps(t)
    <3>1. \A b \in Addrs : inode'[b].ino = inode[b].ino
      BY <2>9 DEF InodeIs
    <3>2. 1..nalloc \subseteq Addrs /\ nalloc <= nalloc
      BY <1>1, MirrorAssumption DEF Types, Addrs
    <3>. QED
      BY <2>2, <2>11, <3>1, <3>2 DEF Steps
  <2>17. /\ Holds(t, a)' = Holds(t, a) - c
         /\ \A b \in Addrs \ {a} : Holds(t, b)' = Holds(t, b)
    <3>1. \A b \in Addrs : refs'[t][b] = refs[t][b] /\ refs[t][b] \in Nat
      BY <1>1, <2>2 DEF Types
    <3>. QED
      BY <2>4, <2>13, <3>1 DEF Holds
  <2>18. \A b \in Addrs : Opened(t, b)' = Opened(t, b)
    BY <1>1, <2>2, <2>11 DEF Opened
  <2>19. \A b \in alive' : b \in alive /\ LookupMoves(t, b) /\ OpenMoves(t, b)
    <3>1. SUFFICES ASSUME NEW b \in alive PROVE LookupMoves(t, b) /\ OpenMoves(t, b)
      BY <2>2
    <3>2. b \in Addrs
      BY <1>1, MirrorAssumption DEF Types, Addrs
    <3>3. CASE b = a
      <4>1. c \in 0..Holds(t, a) /\ inode'[a].nlookup = inode[a].nlookup - c
        BY <2>5, <2>6, <2>8, <2>9 DEF InodeIs
      <4>. QED
        BY <2>9, <2>17, <2>18, <3>3, <4>1 DEF InodeIs, LookupMoves, OpenMoves
    <3>4. CASE b # a
      BY <1>1, <2>9, <2>17, <2>18, <3>2, <3>4, LookupKeeps DEF InodeIs, OpenMoves
    <3>. QED
      BY <3>3, <3>4
  <2>20. ASSUME ~raced', ~cleared' PROVE AliveMoves(t)
    <3>1. InTable
      BY <2>2, <2>20, Zenon DEF IInv, AliveOK
    <3>2. \A u \in Threads : Erasing(u) => th[u].nd \in Addrs /\ th[u].nd # a
      <4>1. alive \subseteq Addrs
        BY <1>1, MirrorAssumption DEF Types, Addrs
      <4>. QED
        BY <2>4, <2>6, <3>1, <4>1 DEF InTable
    <3>3. \A b \in Addrs : Holds(t, b)' > 0 => Holds(t, b) > 0 \/ b \in alive
      BY <2>2, <2>17
    <3>4. Erasing(t)' => inode'[a].nlookup = 0
      BY <2>5, <2>8, <2>9, <2>14 DEF InodeIs
    <3>. QED
      BY <2>2, <2>9, <2>11, <2>14, <3>2, <3>3, <3>4 DEF AliveMoves, InodeIs
  <2>21. BudgetMoves(t)
    BY <2>2, <2>11 DEF BudgetMoves
  <2>22. FdsOK'
    <3>1. \A b \in Addrs : inode'[b].fd = inode[b].fd /\ inode'[b].ino = inode[b].ino
      BY <2>9 DEF InodeIs
    <3>2. alive' = alive /\ alive \subseteq Addrs
      BY <1>1, <2>2, MirrorAssumption DEF Types, Addrs
    <3>3. /\ \A u \in Threads : ThreadOwns(u) \subseteq Owned
          /\ \A b \in alive : InodeOwns(b) \subseteq Owned
      BY DEF Owned
    <3>4. \A b \in alive' : InodeOwns(b)' \subseteq Owned
      BY <3>1, <3>2, <3>3 DEF InodeOwns
    <3>5. Owned' \subseteq Owned
      BY <2>13, <2>16, <3>3, <3>4, OthersSame, OwnedStep
    <3>. QED
      BY <1>1, <2>2, <3>5, FdKeep DEF FdsOK
  <2>23. (raced => raced') /\ (cleared => cleared')
    BY <2>2, Zenon
  <2>24. TableOK'
    BY <2>2, <2>11, <2>16, TableStays
  <2>25. Changes(t)
    BY <2>24, <2>7, <2>12, <2>15, <2>16, <2>19, <2>20, <2>21, <2>22, <2>23 DEF Changes
  <2>. QED
    BY <2>25, ChangesStep
<1>. QED
  BY <1>2, <1>3

LEMMA KeepFgFree ==
  ASSUME IInv, NEW t \in Threads, FgFree(t)
  PROVE  IInv'
<1>1. /\ th[t].pc = "fg_free" /\ ended = "no" /\ Types /\ RequestOK(t) /\ LocksOK(t) /\ HostOK(t)
      /\ ThreadsOK /\ TableOK
  BY DEF FgFree, At, IInv, ThreadsOK
<1>2. CASE Freed(th[t].nd) /\ TouchFreed(t)
  BY <1>1, <1>2, FreedStep DEF NodePcs, ErasePcs
<1>3. PICK a \in Addrs : a = th[t].nd /\ a \in 1..nalloc
  BY <1>1, MirrorAssumption DEF RequestOK, NodePcs, ErasePcs, Types, Addrs
<1>4. CASE (\E b \in Walked(inode[a].ino) : Freed(b)) /\ TouchFreed(t)
  <2>1. PICK b \in table : b \notin alive
    BY <1>4 DEF Walked, Chain, Freed
  <2>2. cleared
    BY <1>1, <2>1, Zenon DEF TableOK
  <2>. QED
    BY <1>4, <2>2, TouchFreedStep, Zenon
<1>5. CASE /\ a \in alive
           /\ \/ \E b \in Known(inode[a].ino) : /\ table' = table \ {b} /\ alive' = alive \ {b}
                                                /\ fds' = Closed(inode[b].fd)
              \/ Known(inode[a].ino) = {} /\ UNCHANGED <<table, alive, fds>>
           /\ fm' = None /\ Goto(t, "fg_test")
           /\ UNCHANGED <<link, nalloc, inode, im, hostVars, flagVars>>
  <2>1. UNCHANGED <<link, nalloc, inode, im, refs, handles, sent, raced, cleared, ended>>
    BY <1>5 DEF hostVars, flagVars
  <2>2. Now(t, "fg_test", th[t].nd, th[t].ino, th[t].fd, th[t].fh, th[t].cnt)
    <3>1. "fg_test" \in Pcs
      BY DEF Pcs
    <3>. QED
      BY <1>1, <1>5, <3>1, GotoNow
  <2>3. /\ RequestOK(t)' /\ LocksOK(t)' /\ HostOK(t)' /\ ~Erasing(t)' /\ ~Destroying(t)'
        /\ t \notin Allocating' /\ \A b : Owed(t, b)' = 0 /\ Owed(t, b) = 0
    <3>1. RequestOK(t)' /\ LocksOK(t)' /\ ~Erasing(t)'
      BY <2>2 DEF Now, RequestOK, LocksOK, Erasing, LookupPcs, NewFdPcs, NodePcs, UsePcs, OwingPcs, ErasePcs
    <3>. QED
      BY <1>1, <2>1, <2>2, <3>1 DEF Now, HostOK, Destroying, Allocating, AllocPcs, Owed
  <2>4. fm = t
    BY <1>1 DEF LocksOK
  <2>5. Steps(t)
    BY <1>1, <1>5, <2>1, <2>2, <2>4 DEF Steps, Now, Types
  <2>6. ThreadOwns(t)' \subseteq ThreadOwns(t)
    <3>1. handles'[t] = handles[t]
      BY <2>1
    <3>. QED
      BY <2>2, <3>1 DEF Now, ThreadOwns, NewFdPcs
  <2>7. \A b \in Addrs : Holds(t, b)' = Holds(t, b) /\ Opened(t, b)' = Opened(t, b)
    BY <1>1, <2>1, <2>2, <2>3 DEF Holds, Opened, Now
  <2>8. alive' \subseteq alive /\ table' \subseteq table /\ alive \subseteq Addrs
    BY <1>1, <1>5, MirrorAssumption DEF Types, Addrs
  <2>9. \A b \in alive' : b \in alive /\ LookupMoves(t, b) /\ OpenMoves(t, b)
    BY <1>1, <2>1, <2>7, <2>8, LookupKeeps DEF OpenMoves
  <2>10. ASSUME ~cleared
         PROVE  /\ table' = alive' /\ alive' = alive \ {a}
                /\ fds' = Closed(inode[a].fd)
    <3>1. table = alive /\ \A c, d \in alive : inode[c].ino = inode[d].ino => c = d
      BY <1>1, <2>10, Zenon DEF TableOK
    <3>2. Known(inode[a].ino) = {a}
      BY <1>5, <3>1 DEF Known
    <3>. QED
      BY <1>5, <3>1, <3>2
  <2>11. FdsOK'
    <3>1. SUFFICES ASSUME ~cleared' PROVE FdsOK'
      BY Zenon DEF FdsOK
    <3>2. ~cleared
      BY <2>1, <3>1, Zenon
    <3>3. \A b \in alive' : \/ InodeOwns(b)' = {}
                            \/ b \in alive \ {a} /\ InodeOwns(b)' \subseteq InodeOwns(b)
      BY <2>1, <2>10, <3>2 DEF InodeOwns
    <3>. QED
      BY <1>5, <2>1, <2>5, <2>6, <2>10, <3>2, <3>3, InodeCloses
  <2>12. fds' \in [Fds -> Inos \cup {None}]
    BY <1>1, <1>5 DEF Types, Closed
  <2>13. Types'
    BY <1>1, <1>5, <2>1, <2>2, <2>8, <2>12 DEF Types, Now
  <2>14. ASSUME ~raced', ~cleared' PROVE AliveMoves(t)
    <3>1. InTable /\ ~cleared
      BY <2>1, <2>14, Zenon DEF IInv, AliveOK
    <3>2. Erasing(t)
      BY <1>1 DEF Erasing, ErasePcs
    <3>3. inode[a].nlookup = 0
      BY <1>3, <3>1, <3>2 DEF InTable
    <3>4. \A u \in Threads : Holds(u, a) = 0
      BY <1>1, <1>5, <3>3, CountedAll, HoldsNat
    <3>5. ASSUME NEW u \in Threads, u # t, th[u].pc \in ErasePcs \cup {"lk_new"} PROVE th[u].nd # a
      <4>1. th[u].pc # "lk_new"
        BY <1>1, <2>4, <3>5 DEF ThreadsOK, LocksOK
      <4>2. Erasing(u)
        BY <3>5, <4>1 DEF Erasing
      <4>. QED
        BY <1>3, <3>1, <3>2, <3>5, <4>2 DEF InTable
    <3>6. \A b \in alive \ alive' : b = a
      BY <2>10, <3>1
    <3>7. th'[t].pc # "lk_new"
      BY <2>2 DEF Now
    <3>. QED
      BY <2>1, <2>3, <2>7, <3>4, <3>5, <3>6, <3>7 DEF AliveMoves
  <2>15. BudgetMoves(t)
    BY <2>1, <2>3 DEF BudgetMoves
  <2>16. (raced => raced') /\ (cleared => cleared') /\ ended' = "no"
    BY <1>1, <2>1, Zenon
  <2>17. TableOK'
    <3>1. ~cleared' /\ TableOK => table' = alive' /\ alive' \subseteq alive /\ ~Destroying(t)'
      BY <2>1, <2>3, <2>8, <2>10, Zenon
    <3>. QED
      BY <2>5, <2>16, <3>1, TableStep, Zenon
  <2>18. Changes(t)
    BY <2>3, <2>5, <2>9, <2>11, <2>13, <2>14, <2>15, <2>16, <2>17 DEF Changes
  <2>. QED
    BY <2>18, ChangesStep
<1>. QED
  BY <1>2, <1>3, <1>4, <1>5 DEF FgFree, Freed

(* The test of the freed inode goes on as if it was not there, or ends the behaviour. *)
LEMMA KeepFgTest ==
  ASSUME IInv, NEW t \in Threads, FgTest(t)
  PROVE  IInv'
<1>1. th[t].pc = "fg_test" /\ ended = "no" /\ Types
  BY DEF FgTest, At, IInv
<1>2. CASE /\ AfterForget(t)
           /\ UNCHANGED <<link, fds, table, alive, nalloc, inode, fm, hostVars, flagVars>>
  <2>1. UNCHANGED <<link, fds, table, alive, nalloc, inode, fm, refs, handles, sent, raced, cleared, ended>>
    BY <1>2 DEF hostVars, flagVars
  <2>2. Forgotten(t)
    BY <1>1, <1>2, <2>1, AfterForgetMoves
  <2>3. \A b \in Addrs : Owed(t, b) = 0
    BY <1>1 DEF Owed
  <2>4. BudgetMoves(t)
    BY <2>1, <2>2 DEF BudgetMoves, Forgotten
  <2>5. Plain(t)
    BY <1>1, <2>1, <2>2, <2>3, <2>4 DEF Plain, Frame, Types, Forgotten
  <2>. QED
    BY <2>5, PlainStep
<1>3. CASE /\ ended' = "reread"
           /\ UNCHANGED <<link, fds, table, alive, nalloc, inode, fm, im, th, hostVars, sent, raced, cleared>>
  <2>1. UNCHANGED <<link, fds, table, alive, nalloc, inode, fm, im, th, refs, handles, sent, raced, cleared>>
    BY <1>3 DEF hostVars
  <2>2. EndsOnlyByRace'
    BY <1>3 DEF EndsOnlyByRace
  <2>. QED
    BY <2>1, <2>2, EndKeeps
<1>. QED
  BY <1>2, <1>3 DEF FgTest

LEMMA NewHandle ==
  ASSUME IInv, ~cleared, NEW t \in Threads, NEW h \in handles[t]
  PROVE  th[t].fh # h.fh
<1>1. SUFFICES ASSUME th[t].fh = h.fh PROVE FALSE
  OBVIOUS
<1>2. Types /\ Once(Owned)
  BY Zenon DEF IInv, FdsOK
<1>3. PICK n \in Fds : n = h.fh
  BY <1>2 DEF Types, Handles
<1>. DEFINE x == <<"open", <<t, h>>, n, Inos>>
            y == <<"fh", t, n, Inos>>
<1>4. x \in ThreadOwns(t) /\ y \in ThreadOwns(t)
  BY <1>1, <1>3 DEF ThreadOwns
<1>5. x \in Owned /\ y \in Owned
  BY <1>4 DEF Owned
<1>6. x[3] = y[3] /\ x # y
  OBVIOUS
<1>. HIDE DEF x, y
<1>. QED
  BY <1>2, <1>5, <1>6 DEF Once

LEMMA KeepCountOpen ==
  ASSUME IInv, NEW t \in Threads, CountOpen(t), th[t].pc \in {"op_count", "cr_count"}, ended = "no"
  PROVE  IInv'
<1>1. Types /\ RequestOK(t) /\ LocksOK(t) /\ HostOK(t) /\ ThreadsOK /\ FdsOK
  BY DEF IInv, ThreadsOK
<1>2. CASE Freed(th[t].nd) /\ TouchFreed(t)
  BY <1>2, FreedStep DEF NodePcs, UsePcs, OwingPcs
<1>3. CASE ~(Freed(th[t].nd) /\ TouchFreed(t))
  <2>1. PICK a \in Addrs : a = th[t].nd /\ a \in 1..nalloc
    BY <1>1, MirrorAssumption DEF RequestOK, NodePcs, UsePcs, OwingPcs, Types, Addrs
  <2>2. PICK n \in Fds : n = th[t].fh
    BY <1>1 DEF RequestOK
  <2>3. PICK h : h = [nd |-> a, fh |-> n]
    OBVIOUS
  <2>4. /\ a \in alive /\ inode' = [inode EXCEPT ![a].nopen = @ + 1]
        /\ handles' = [handles EXCEPT ![t] = @ \cup {h}]
        /\ refs' = IF th[t].op = "create" THEN [refs EXCEPT ![t][a] = @ + 1] ELSE refs
        /\ Idle(t)
        /\ UNCHANGED <<link, fds, table, alive, nalloc, fm, im, sent, raced, cleared, ended>>
    BY <1>3, <2>1, <2>2, <2>3 DEF CountOpen, Freed, flagVars
  <2>5. h \in Handles /\ h.nd = a /\ h.fh = n
    BY <2>3 DEF Handles
  <2>6. cleared \/ h \notin handles[t]
    BY <2>2, <2>5, NewHandle, Zenon
  <2>7. /\ handles' \in [Threads -> SUBSET Handles] /\ handles'[t] = handles[t] \cup {h}
        /\ \A u \in Threads \ {t} : handles'[u] = handles[u]
    BY <1>1, <2>4, <2>5 DEF Types
  <2>8. PICK k \in Nat : k = inode[a].nopen + 1
    BY <1>1, InodeTypes
  <2>9. InodeIs(a, inode[a].fd, inode[a].nlookup, k)
    <3>1. inode' = [inode EXCEPT ![a].nopen = k]
      BY <2>4, <2>8
    <3>. QED
      BY <1>1, <3>1, InodeNopen
  <2>10. NowIdle(t)
    BY <1>1, <2>4, IdleNow
  <2>11. /\ refs' \in [Threads -> [Addrs -> Nat]] /\ \A u \in Threads \ {t} : refs'[u] = refs[u]
         /\ \A b \in Addrs : refs'[t][b] = IF b = a /\ th[t].pc = "cr_count" THEN refs[t][b] + 1 ELSE refs[t][b]
    <3>1. th[t].op = "create" <=> th[t].pc = "cr_count"
      BY <1>1 DEF RequestOK
    <3>2. refs \in [Threads -> [Addrs -> Nat]]
      BY <1>1 DEF Types
    <3>. QED
      BY <2>4, <3>1, <3>2
  <2>12. Types'
    BY <1>1, <2>4, <2>7, <2>9, <2>10, <2>11 DEF Types, InodeIs, NowIdle
  <2>13. Steps(t)
    <3>1. \A b \in Addrs : inode'[b].ino = inode[b].ino
      BY <2>9 DEF InodeIs
    <3>2. 1..nalloc \subseteq Addrs /\ nalloc <= nalloc
      BY <1>1, MirrorAssumption DEF Types, Addrs
    <3>. QED
      BY <2>4, <2>7, <2>10, <2>11, <3>1, <3>2 DEF Steps, NowIdle
  <2>14. HostOK(t)'
    <3>1. \A b \in Addrs : refs[t][b] \in Nat
      BY <1>1 DEF Types
    <3>2. refs'[t][a] > 0
      BY <1>1, <2>1, <2>11, <3>1 DEF RequestOK, UsePcs
    <3>3. ASSUME NEW b \in Addrs, refs'[t][b] > 0 PROVE b <= nalloc
      <4>1. CASE b = a
        BY <2>1, <4>1
      <4>2. CASE b # a
        BY <1>1, <2>11, <3>3, <4>2 DEF HostOK
      <4>. QED
        BY <4>1, <4>2
    <3>4. ASSUME NEW g \in handles'[t] PROVE g.nd <= nalloc /\ refs'[t][g.nd] > 0
      <4>1. CASE g = h
        BY <2>1, <2>5, <3>2, <4>1
      <4>2. CASE g # h
        <5>1. g \in handles[t] /\ g.nd \in Addrs
          BY <1>1, <2>7, <4>2 DEF Types, Handles
        <5>. QED
          BY <1>1, <2>11, <3>1, <5>1 DEF HostOK
      <4>. QED
        BY <4>1, <4>2
    <3>. QED
      BY <2>4, <3>3, <3>4 DEF HostOK
  <2>15. \A b \in Addrs : Holds(t, b)' = Holds(t, b)
    <3>1. \A b \in Addrs : refs[t][b] \in Nat
      BY <1>1 DEF Types
    <3>2. \A b \in Addrs : Owed(t, b)' = 0 /\ Owed(t, b) = IF b = a /\ th[t].pc = "cr_count" THEN 1 ELSE 0
      BY <2>1, <2>10, IdleIs DEF Owed
    <3>. QED
      BY <2>11, <3>1, <3>2 DEF Holds
  <2>16. /\ cleared \/ h \notin Opened(t, a)
         /\ Opened(t, a)' = Opened(t, a) \cup {h}
         /\ \A b \in Addrs \ {a} : Opened(t, b)' = Opened(t, b)
    <3>1. th'[t].pc # "rl_count" /\ th[t].pc # "rl_count"
      BY <2>10, IdleIs
    <3>2. h \in [nd : {a}, fh : Fds]
      BY <2>3
    <3>3. \A b \in Addrs : Opened(t, b) = {g \in [nd : {b}, fh : Fds] : g \in handles[t]}
      BY <3>1 DEF Opened
    <3>4. \A b \in Addrs : Opened(t, b)' = {g \in [nd : {b}, fh : Fds] : g \in handles'[t]}
      BY <3>1 DEF Opened
    <3>5. \A b \in Addrs \ {a} : h \notin [nd : {b}, fh : Fds]
      BY <2>5
    <3>6. cleared \/ h \notin Opened(t, a)
      BY <2>6, <3>3
    <3>7. Opened(t, a)' = Opened(t, a) \cup {h}
      BY <2>7, <3>2, <3>3, <3>4
    <3>8. \A b \in Addrs \ {a} : Opened(t, b)' = Opened(t, b)
      <4>1. ASSUME NEW b \in Addrs \ {a}, NEW g \in [nd : {b}, fh : Fds]
            PROVE  g \in handles'[t] <=> g \in handles[t]
        BY <2>7, <3>5
      <4>. QED
        BY <3>3, <3>4, <4>1
    <3>. QED
      BY <3>6, <3>7, <3>8
  <2>17. \A b \in alive' : b \in alive /\ LookupMoves(t, b) /\ OpenMoves(t, b)
    <3>1. SUFFICES ASSUME NEW b \in alive PROVE LookupMoves(t, b) /\ OpenMoves(t, b)
      BY <2>4
    <3>2. b \in Addrs /\ inode'[b].nlookup = inode[b].nlookup
      BY <1>1, <2>9, MirrorAssumption DEF Types, Addrs, InodeIs
    <3>3. LookupMoves(t, b)
      BY <1>1, <2>15, <3>2, LookupKeeps
    <3>4. CASE b = a
      <4>1. inode'[a].nopen = inode[a].nopen + 1
        BY <2>8, <2>9 DEF InodeIs
      <4>2. CASE h \notin Opened(t, a)
        BY <2>16, <3>3, <3>4, <4>1, <4>2 DEF OpenMoves
      <4>3. CASE h \in Opened(t, a)
        <5>1. cleared' /\ Opened(t, a)' = Opened(t, a)
          BY <2>4, <2>16, <4>3, Zenon
        <5>. QED
          BY <3>3, <3>4, <4>1, <5>1 DEF OpenMoves
      <4>. QED
        BY <4>2, <4>3
    <3>5. CASE b # a
      BY <2>9, <2>16, <3>2, <3>3, <3>5 DEF InodeIs, OpenMoves
    <3>. QED
      BY <3>4, <3>5
  <2>18. AliveMoves(t)
    <3>1. \A u \in Threads : Erasing(u) => th[u].nd \in Addrs
      <4>1. 1..nalloc \subseteq Addrs
        BY <1>1, MirrorAssumption DEF Types, Addrs
      <4>. QED
        BY <1>1, <4>1 DEF ThreadsOK, RequestOK, Erasing, NodePcs
    <3>2. ~Erasing(t)' /\ th'[t].pc # "lk_new"
      BY <2>10, IdleIs
    <3>3. \A b \in Addrs : inode'[b].nlookup = inode[b].nlookup
      BY <2>9 DEF InodeIs
    <3>. QED
      BY <2>4, <2>15, <3>1, <3>2, <3>3 DEF AliveMoves
  <2>19. BudgetMoves(t)
    BY <2>4, <2>10, IdleIs DEF BudgetMoves
  <2>20. FdsOK'
    <3>1. PICK x, y : x = <<"fh", t, n, Inos>> /\ y = <<"open", <<t, h>>, n, Inos>>
      OBVIOUS
    <3>2. x \in Owned
      BY <2>2, <3>1 DEF Owned, ThreadOwns
    <3>3. \A u \in Threads \ {t} : x \notin ThreadOwns(u)
      BY <3>1 DEF ThreadOwns
    <3>4. \A b \in alive' : b \in alive /\ InodeOwns(b)' \subseteq InodeOwns(b) \ {x}
      <4>1. \A b \in Addrs : inode'[b].fd = inode[b].fd /\ inode'[b].ino = inode[b].ino
        BY <2>9 DEF InodeIs
      <4>2. alive \subseteq Addrs
        BY <1>1, MirrorAssumption DEF Types, Addrs
      <4>. QED
        BY <2>4, <3>1, <4>1, <4>2 DEF InodeOwns
    <3>5. ThreadOwns(t)' \subseteq (ThreadOwns(t) \ {x}) \cup {y}
      <4>1. ThreadOwns(t)' = {<<"open", <<t, g>>, g.fh, Inos>> : g \in handles'[t]}
        BY <2>10, IdleIs
      <4>2. {<<"open", <<t, g>>, g.fh, Inos>> : g \in handles[t]} \subseteq ThreadOwns(t) \ {x}
        BY <3>1 DEF ThreadOwns
      <4>. QED
        BY <2>5, <2>7, <3>1, <4>1, <4>2
    <3>6. Owned' \subseteq (Owned \ {x}) \cup {y}
      <4>1. PICK Y : Y = {y}
        OBVIOUS
      <4>2. Owned' \subseteq (Owned \ {x}) \cup Y
        BY <2>13, <3>3, <3>4, <3>5, <4>1, OwnedWithout
      <4>. QED
        BY <4>1, <4>2
    <3>7. FdPasses(Owned, Owned', x, y)
      BY <3>1, <3>2, <3>6 DEF FdPasses
    <3>. QED
      BY <1>1, <2>4, <3>7, FdPassed DEF FdsOK
  <2>21. (raced => raced') /\ (cleared => cleared') /\ ended' = "no"
    BY <2>4, Zenon
  <2>22. TableOK'
    BY <2>4, <2>10, <2>13, IdleIs, TableStays
  <2>23. Changes(t)
    BY <2>22, <2>10, <2>12, <2>13, <2>14, <2>17, <2>18, <2>19, <2>20, <2>21, IdleIs DEF Changes
  <2>. QED
    BY <2>23, ChangesStep
<1>. QED
  BY <1>2, <1>3
LEMMA KeepRlCount ==
  ASSUME IInv, NEW t \in Threads, RlCount(t)
  PROVE  IInv'
<1>1. /\ th[t].pc = "rl_count" /\ ended = "no" /\ Types /\ RequestOK(t) /\ LocksOK(t) /\ HostOK(t)
      /\ ThreadsOK
  BY DEF RlCount, At, IInv, ThreadsOK
<1>2. CASE Freed(th[t].nd) /\ TouchFreed(t)
  BY <1>1, <1>2, FreedStep DEF NodePcs, UsePcs
<1>3. CASE ~(Freed(th[t].nd) /\ TouchFreed(t))
  <2>1. PICK a \in Addrs : a = th[t].nd /\ a \in 1..nalloc
    BY <1>1, MirrorAssumption DEF RequestOK, NodePcs, UsePcs, Types, Addrs
  <2>2. PICK n \in Fds : n = th[t].fh
    BY <1>1 DEF RequestOK
  <2>3. PICK h : h = [nd |-> a, fh |-> n]
    OBVIOUS
  <2>4. /\ a \in alive /\ inode' = [inode EXCEPT ![a].nopen = @ - 1] /\ Goto(t, "rl_close")
        /\ UNCHANGED <<link, fds, table, alive, nalloc, fm, im, refs, handles, sent, raced, cleared, ended>>
    BY <1>3, <2>1 DEF RlCount, Freed, flagVars, hostVars
  <2>5. h.nd = a /\ h.fh = n /\ h \in [nd : {a}, fh : Fds] /\ h \notin handles[t]
    BY <1>1, <2>1, <2>2, <2>3 DEF RequestOK
  <2>6. h \in Opened(t, a)
    BY <1>1, <2>1, <2>2, <2>5 DEF Opened
  <2>7. inode[a].nopen \in Nat /\ inode[a].nopen >= 1
    <3>1. IsFiniteSet(OpenFiles(a)) /\ inode[a].nopen >= Cardinality(OpenFiles(a))
      BY <2>4 DEF IInv, OpensOK
    <3>2. <<t, h>> \in OpenFiles(a)
      BY <2>6 DEF OpenFiles, Pairs
    <3>3. Cardinality(OpenFiles(a)) \in Nat \ {0}
      BY <3>1, <3>2, FS_EmptySet, FS_CardinalityType
    <3>4. inode[a].nopen \in Nat
      BY <1>1, InodeTypes
    <3>. QED
      BY <3>1, <3>3, <3>4
  <2>8. PICK k \in Nat : k = inode[a].nopen - 1
    BY <2>7
  <2>9. InodeIs(a, inode[a].fd, inode[a].nlookup, k)
    <3>1. inode' = [inode EXCEPT ![a].nopen = k]
      BY <2>4, <2>8
    <3>. QED
      BY <1>1, <3>1, InodeNopen
  <2>10. Now(t, "rl_close", th[t].nd, th[t].ino, th[t].fd, th[t].fh, th[t].cnt)
    <3>1. "rl_close" \in Pcs
      BY DEF Pcs
    <3>. QED
      BY <1>1, <2>4, <3>1, GotoNow
  <2>11. Types'
    BY <1>1, <2>4, <2>9, <2>10 DEF Types, InodeIs, Now
  <2>12. Steps(t)
    <3>1. \A b \in Addrs : inode'[b].ino = inode[b].ino
      BY <2>9 DEF InodeIs
    <3>2. 1..nalloc \subseteq Addrs /\ nalloc <= nalloc
      BY <1>1, MirrorAssumption DEF Types, Addrs
    <3>. QED
      BY <2>4, <2>10, <3>1, <3>2 DEF Steps, Now
  <2>13. RequestOK(t)' /\ LocksOK(t)' /\ HostOK(t)'
    BY <1>1, <2>1, <2>2, <2>4, <2>10
       DEF Now, RequestOK, LocksOK, HostOK, LookupPcs, NewFdPcs, NodePcs, UsePcs, OwingPcs, ErasePcs
  <2>14. \A b \in Addrs : Holds(t, b)' = Holds(t, b)
    <3>1. \A b \in Addrs : Owed(t, b)' = Owed(t, b)
      BY <1>1, <2>10 DEF Now, Owed
    <3>. QED
      BY <2>4, <3>1 DEF Holds
  <2>15. /\ Opened(t, a)' = Opened(t, a) \ {h}
         /\ \A b \in Addrs \ {a} : Opened(t, b)' = Opened(t, b)
    <3>1. \A b \in Addrs : Opened(t, b)' = {g \in [nd : {b}, fh : Fds] : g \in handles[t]}
      BY <2>4, <2>10 DEF Opened, Now
    <3>2. \A b \in Addrs : Opened(t, b) = {g \in [nd : {b}, fh : Fds] : g \in handles[t] \/ g = h}
      <4>1. ASSUME NEW b \in Addrs, NEW g \in [nd : {b}, fh : Fds]
            PROVE  (th[t].nd = g.nd /\ th[t].fh = g.fh) <=> g = h
        BY <2>1, <2>2, <2>3
      <4>. QED
        BY <1>1, <4>1 DEF Opened
    <3>3. \A b \in Addrs \ {a} : h \notin [nd : {b}, fh : Fds]
      BY <2>5
    <3>. QED
      BY <2>5, <3>1, <3>2, <3>3
  <2>16. \A b \in alive' : b \in alive /\ LookupMoves(t, b) /\ OpenMoves(t, b)
    <3>1. SUFFICES ASSUME NEW b \in alive PROVE LookupMoves(t, b) /\ OpenMoves(t, b)
      BY <2>4
    <3>2. b \in Addrs /\ inode'[b].nlookup = inode[b].nlookup
      BY <1>1, <2>9, MirrorAssumption DEF Types, Addrs, InodeIs
    <3>3. LookupMoves(t, b)
      BY <1>1, <2>14, <3>2, LookupKeeps
    <3>4. CASE b = a
      BY <2>6, <2>8, <2>9, <2>15, <3>3, <3>4 DEF InodeIs, OpenMoves
    <3>5. CASE b # a
      BY <2>9, <2>15, <3>2, <3>3, <3>5 DEF InodeIs, OpenMoves
    <3>. QED
      BY <3>4, <3>5
  <2>17. AliveMoves(t)
    <3>1. \A u \in Threads : Erasing(u) => th[u].nd \in Addrs
      <4>1. 1..nalloc \subseteq Addrs
        BY <1>1, MirrorAssumption DEF Types, Addrs
      <4>. QED
        BY <1>1, <4>1 DEF ThreadsOK, RequestOK, Erasing, NodePcs
    <3>2. ~Erasing(t)' /\ th'[t].pc # "lk_new"
      BY <2>10 DEF Now, Erasing, ErasePcs
    <3>3. \A b \in Addrs : inode'[b].nlookup = inode[b].nlookup
      BY <2>9 DEF InodeIs
    <3>. QED
      BY <2>4, <2>14, <3>1, <3>2, <3>3 DEF AliveMoves
  <2>18. BudgetMoves(t)
    BY <1>1, <2>4, <2>10 DEF BudgetMoves, Allocating, AllocPcs, Now
  <2>19. FdsOK'
    <3>1. \A b \in Addrs : inode'[b].fd = inode[b].fd /\ inode'[b].ino = inode[b].ino
      BY <2>9 DEF InodeIs
    <3>2. alive' = alive /\ alive \subseteq Addrs
      BY <1>1, <2>4, MirrorAssumption DEF Types, Addrs
    <3>3. /\ \A u \in Threads : ThreadOwns(u) \subseteq Owned
          /\ \A b \in alive : InodeOwns(b) \subseteq Owned
      BY DEF Owned
    <3>4. \A b \in alive' : InodeOwns(b)' \subseteq Owned
      BY <3>1, <3>2, <3>3 DEF InodeOwns
    <3>5. ThreadOwns(t)' \subseteq Owned
      <4>1. ThreadOwns(t)' \subseteq ThreadOwns(t)
        <5>1. handles'[t] = handles[t]
          BY <2>4
        <5>. QED
          BY <2>10, <5>1 DEF ThreadOwns, Now, NewFdPcs
      <4>. QED
        BY <3>3, <4>1
    <3>6. Owned' \subseteq Owned
      BY <2>12, <3>3, <3>4, <3>5, OthersSame, OwnedStep
    <3>. QED
      BY <2>4, <3>6, FdKeep DEF FdsOK, IInv
  <2>20. (raced => raced') /\ (cleared => cleared') /\ ended' = "no"
    BY <1>1, <2>4, Zenon
  <2>21. TableOK'
    BY <2>4, <2>10, <2>12, TableStays DEF Now
  <2>22. Changes(t)
    BY <2>21, <2>11, <2>12, <2>13, <2>16, <2>17, <2>18, <2>19, <2>20 DEF Changes
  <2>. QED
    BY <2>22, ChangesStep
<1>. QED
  BY <1>2, <1>3

LEMMA KeepRlClose ==
  ASSUME IInv, NEW t \in Threads, RlClose(t)
  PROVE  IInv'
<1>1. th[t].pc = "rl_close" /\ ended = "no" /\ Types /\ RequestOK(t) /\ FdsOK
  BY DEF RlClose, At, IInv, ThreadsOK
<1>2. PICK n \in Fds : n = th[t].fh
  BY <1>1 DEF RequestOK
<1>3. /\ fds' = [fds EXCEPT ![n] = None] /\ Idle(t)
      /\ UNCHANGED <<link, table, alive, nalloc, inode, fm, im, refs, handles, sent, raced, cleared, ended>>
  BY <1>2 DEF RlClose, Closed, hostVars, flagVars
<1>4. NowIdle(t)
  BY <1>1, <1>3, IdleNow
<1>5. fds' \in [Fds -> Inos \cup {None}] /\ fds \in [Fds -> Inos \cup {None}]
  BY <1>1, <1>3 DEF Types
<1>6. BudgetMoves(t)
  BY <1>3, <1>4, IdleIs DEF BudgetMoves
<1>7. \A b \in Addrs : Owed(t, b) = 0
  BY <1>1 DEF Owed
<1>8. Frame(t)
  BY <1>1, <1>3, <1>4, <1>5, <1>6, <1>7, IdleIs DEF Frame, Types, NowIdle
<1>9. FdsOK'
  <2>1. PICK x : x = <<"fh", t, n, Inos>>
    OBVIOUS
  <2>2. x \in Owned /\ x[3] = n
    BY <1>2, <2>1 DEF Owned, ThreadOwns
  <2>3. \A u \in Threads \ {t} : x \notin ThreadOwns(u)
    BY <2>1 DEF ThreadOwns
  <2>4. \A b \in alive' : b \in alive /\ InodeOwns(b)' \subseteq InodeOwns(b) \ {x}
    BY <1>3, <2>1 DEF InodeOwns
  <2>5. PICK Y : Y = {}
    OBVIOUS
  <2>6. ThreadOwns(t)' \subseteq (ThreadOwns(t) \ {x}) \cup Y
    <3>1. ThreadOwns(t)' = {<<"open", <<t, g>>, g.fh, Inos>> : g \in handles[t]}
      BY <1>3, <1>4, IdleIs
    <3>. QED
      BY <2>1, <3>1 DEF ThreadOwns
  <2>7. Owned' \subseteq Owned \ {x}
    <3>1. Steps(t)
      BY <1>8, FrameSteps
    <3>2. Owned' \subseteq (Owned \ {x}) \cup Y
      BY <2>3, <2>4, <2>6, <3>1, OwnedWithout
    <3>. QED
      BY <2>5, <3>2
  <2>8. FdCloses(Owned, Owned', fds, fds', x)
    BY <1>3, <2>2, <2>7 DEF FdCloses
  <2>. QED
    BY <1>1, <1>3, <1>5, <2>8, FdClosed DEF FdsOK
<1>. QED
  BY <1>8, <1>9, FrameStep

(* DESTROY: what is freed or closed is freed or closed with cleared set. *)
DsPcs == {"ds_bucket", "ds_inode", "ds_free", "idle"}
DsMoves(t) ==
  /\ th' \in [Threads -> ThStates] /\ \A u \in Threads \ {t} : th'[u] = th[u]
  /\ th[t].pc \in DsPcs /\ th'[t].pc \in DsPcs /\ th'[t].fh \in {th[t].fh, None}
  /\ UNCHANGED <<link, nalloc, inode, fm, im, refs, handles, sent, raced>> /\ ended' = "no"
  /\ cleared' \in BOOLEAN /\ (cleared => cleared')
  /\ table' \subseteq table /\ alive' \subseteq alive /\ fds' \in [Fds -> Inos \cup {None}]
  /\ ~cleared' => alive' = alive /\ table' = table /\ fds' = fds /\ ~Destroying(t)'

LEMMA DsStep ==
  ASSUME IInv, NEW t \in Threads, DsMoves(t)
  PROVE  IInv'
<1>1. Types /\ HostOK(t) /\ ThreadsOK
  BY DEF IInv, ThreadsOK
<1>2. Types'
  BY <1>1 DEF Types, DsMoves
<1>3. Steps(t)
  BY <1>1 DEF Steps, Types, DsMoves
<1>4. RequestOK(t)' /\ LocksOK(t)' /\ ~Erasing(t)' /\ th'[t].pc # "lk_new"
  BY DEF DsMoves, DsPcs, RequestOK, LocksOK, Erasing, LookupPcs, NewFdPcs, NodePcs, UsePcs, OwingPcs, ErasePcs
<1>5. HostOK(t)' /\ BudgetMoves(t)
  BY <1>1 DEF DsMoves, DsPcs, HostOK, BudgetMoves, Allocating, AllocPcs
<1>6. \A b \in Addrs : Holds(t, b)' = Holds(t, b) /\ Opened(t, b)' = Opened(t, b)
  BY DEF DsMoves, DsPcs, Holds, Owed, Opened
<1>7. alive' \subseteq alive /\ alive \subseteq Addrs /\ inode' = inode
  BY <1>1, MirrorAssumption DEF DsMoves, Types, Addrs
<1>8. \A b \in alive' : b \in alive /\ LookupMoves(t, b) /\ OpenMoves(t, b)
  BY <1>1, <1>6, <1>7, LookupKeeps DEF OpenMoves
<1>9. /\ (raced => raced') /\ (cleared => cleared') /\ ended' = "no"
      /\ (~cleared' => alive' = alive /\ table' = table /\ fds' = fds /\ ~Destroying(t)')
      /\ cleared' \in BOOLEAN /\ cleared \in BOOLEAN
  BY <1>1, Zenon DEF DsMoves, Types
<1>10. ASSUME ~cleared' PROVE AliveMoves(t)
  <2>1. alive' = alive
    BY <1>9, <1>10, Zenon
  <2>. QED
    BY <1>4, <1>6, <1>7, <2>1 DEF AliveMoves
<1>11. FdsOK'
  <2>1. SUFFICES ASSUME ~cleared' PROVE FdsOK'
    BY Zenon DEF FdsOK
  <2>2. UNCHANGED <<alive, inode, fds, cleared>>
    BY <1>7, <1>9, <2>1, Zenon
  <2>3. ThreadOwns(t)' \subseteq ThreadOwns(t)
    <3>1. handles'[t] = handles[t]
      BY DEF DsMoves
    <3>. QED
      BY <3>1, NoneIsNo DEF DsMoves, DsPcs, ThreadOwns, NewFdPcs
  <2>. QED
    BY <1>3, <2>2, <2>3, FdsStay
<1>12. TableOK'
  <2>1. ~cleared' /\ TableOK => table' = alive' /\ alive' \subseteq alive /\ ~Destroying(t)'
    BY <1>7, <1>9, Zenon DEF TableOK
  <2>. QED
    BY <1>3, <1>9, <2>1, TableStep, Zenon
<1>13. Changes(t)
  BY <1>2, <1>3, <1>4, <1>5, <1>8, <1>9, <1>10, <1>11, <1>12 DEF Changes
<1>. QED
  BY <1>13, ChangesStep

LEMMA DestroyingCleared ==
  ASSUME IInv, NEW t \in Threads, Destroying(t)
  PROVE  cleared
BY Zenon DEF IInv, TableOK

LEMMA KeepDsBucket ==
  ASSUME IInv, NEW t \in Threads, DsBucket(t)
  PROVE  IInv'
<1>1. th[t].pc = "ds_bucket" /\ ended = "no" /\ Types
  BY DEF DsBucket, At, IInv
<1>2. UNCHANGED <<link, fds, table, alive, nalloc, inode, fm, im, refs, handles, sent, raced, ended>>
  BY DEF DsBucket, hostVars
<1>3. cleared \in BOOLEAN /\ fds \in [Fds -> Inos \cup {None}]
  BY <1>1 DEF Types
<1>4. ASSUME NEW n \in Addrs \cup {None}, IsHead(Chain(th[t].cnt), n),
             th' = [th EXCEPT ![t].pc = "ds_inode", ![t].next = n],
             cleared' = (cleared \/ Chain(th[t].cnt) # {})
      PROVE  IInv'
  <2>1. PICK p \in ThStates : p = th[t]
    BY <1>1 DEF Types
  <2>2. PICK r : r = [p EXCEPT !.pc = "ds_inode", !.next = n]
    OBVIOUS
  <2>3. r \in ThStates /\ r.pc = "ds_inode" /\ r.next = n /\ r.fh = p.fh
    BY <2>2 DEF ThStates, Pcs
  <2>4. th' = [th EXCEPT ![t] = r]
    BY <1>1, <1>4, <2>1, <2>2 DEF Types
  <2>5. /\ th' \in [Threads -> ThStates] /\ th'[t] = r
        /\ \A u \in Threads \ {t} : th'[u] = th[u]
    BY <1>1, <2>3, <2>4, RecordNow
  <2>6. cleared' \in BOOLEAN /\ (cleared => cleared') /\ (~cleared' => Chain(th[t].cnt) = {})
    BY <1>3, <1>4, Zenon
  <2>7. Chain(th[t].cnt) = {} => ~Destroying(t)'
    BY <1>4, <2>3, <2>5 DEF IsHead, Destroying
  <2>8. DsMoves(t)
    BY <1>1, <1>2, <1>3, <2>1, <2>3, <2>5, <2>6, <2>7 DEF DsMoves, DsPcs
  <2>. QED
    BY <2>8, DsStep
<1>5. CASE Idle(t) /\ UNCHANGED cleared
  <2>1. \A b \in Addrs : Owed(t, b) = 0
    BY <1>1 DEF Owed
  <2>. QED
    BY <1>1, <1>2, <1>5, <2>1, GivesUp DEF Types, flagVars
<1>. QED
  BY <1>4, <1>5 DEF DsBucket

LEMMA KeepDsClose ==
  ASSUME IInv, NEW t \in Threads, DsClose(t)
  PROVE  IInv'
<1>1. th[t].pc = "ds_inode" /\ th[t].next # None /\ ended = "no" /\ Types
  BY DEF DsClose, At, IInv
<1>2. cleared
  BY <1>1, DestroyingCleared DEF Destroying
<1>3. CASE TouchFreed(t)
  BY <1>2, <1>3, TouchFreedStep
<1>4. PICK a \in Addrs : a = th[t].next
  BY <1>1 DEF Types, ThStates
<1>5. ASSUME NEW n \in Addrs \cup {None},
             th' = [th EXCEPT ![t].pc = "ds_free", ![t].nd = a, ![t].next = n],
             fds' = Closed(inode[a].fd),
             UNCHANGED <<link, table, alive, nalloc, inode, fm, im, hostVars, flagVars>>
      PROVE  IInv'
  <2>1. PICK p \in ThStates : p = th[t]
    BY <1>1 DEF Types
  <2>2. PICK r : r = [p EXCEPT !.pc = "ds_free", !.nd = a, !.next = n]
    OBVIOUS
  <2>3. r \in ThStates /\ r.pc = "ds_free" /\ r.fh = p.fh
    BY <2>2 DEF ThStates, Pcs
  <2>4. th' = [th EXCEPT ![t] = r]
    BY <1>1, <1>5, <2>1, <2>2 DEF Types
  <2>5. /\ th' \in [Threads -> ThStates] /\ th'[t] = r
        /\ \A u \in Threads \ {t} : th'[u] = th[u]
    BY <1>1, <2>3, <2>4, RecordNow
  <2>6. cleared' \in BOOLEAN /\ cleared'
    BY <1>1, <1>2, <1>5 DEF Types, flagVars
  <2>7. fds' \in [Fds -> Inos \cup {None}]
    BY <1>1, <1>5 DEF Types, Closed
  <2>8. DsMoves(t)
    BY <1>1, <1>5, <2>1, <2>3, <2>5, <2>6, <2>7 DEF DsMoves, DsPcs, hostVars, flagVars
  <2>. QED
    BY <2>8, DsStep
<1>. QED
  BY <1>3, <1>4, <1>5 DEF DsClose

LEMMA KeepDsFree ==
  ASSUME IInv, NEW t \in Threads, DsFree(t)
  PROVE  IInv'
<1>1. th[t].pc = "ds_free" /\ ended = "no" /\ Types
  BY DEF DsFree, At, IInv
<1>2. cleared
  BY <1>1, DestroyingCleared DEF Destroying
<1>3. CASE TouchFreed(t)
  BY <1>2, <1>3, TouchFreedStep
<1>4. CASE /\ alive' = alive \ {th[t].nd} /\ Goto(t, "ds_inode")
           /\ UNCHANGED <<link, fds, table, nalloc, inode, fm, im, hostVars, flagVars>>
  <2>1. Now(t, "ds_inode", th[t].nd, th[t].ino, th[t].fd, th[t].fh, th[t].cnt)
    <3>1. "ds_inode" \in Pcs
      BY DEF Pcs
    <3>. QED
      BY <1>1, <1>4, <3>1, GotoNow
  <2>2. cleared' \in BOOLEAN /\ cleared'
    BY <1>1, <1>2, <1>4 DEF Types, flagVars
  <2>3. DsMoves(t)
    BY <1>1, <1>4, <2>1, <2>2 DEF DsMoves, DsPcs, Now, Types, hostVars, flagVars
  <2>. QED
    BY <2>3, DsStep
<1>. QED
  BY <1>3, <1>4 DEF DsFree

LEMMA KeepDsClear ==
  ASSUME IInv, NEW t \in Threads, DsClear(t)
  PROVE  IInv'
<1>1. th[t].pc = "ds_inode" /\ ended = "no" /\ Types
  BY DEF DsClear, At, IInv
<1>2. PICK gone : /\ gone = Chain(th[t].cnt) /\ table' = table \ gone
                  /\ cleared' = (cleared \/ gone # {})
                  /\ th' = [th EXCEPT ![t].pc = "ds_bucket", ![t].cnt = @ + 1]
  BY DEF DsClear
<1>3. UNCHANGED <<link, fds, alive, nalloc, inode, fm, im, refs, handles, sent, raced, ended>>
  BY DEF DsClear, hostVars
<1>4. PICK p \in ThStates : p = th[t]
  BY <1>1 DEF Types
<1>5. PICK k \in Nat : k = p.cnt + 1
  BY FieldTypes
<1>6. PICK r : r = [p EXCEPT !.pc = "ds_bucket", !.cnt = k]
  OBVIOUS
<1>7. r \in ThStates /\ r.pc = "ds_bucket" /\ r.fh = p.fh
  BY <1>6 DEF ThStates, Pcs
<1>8. th' = [th EXCEPT ![t] = r]
  BY <1>1, <1>2, <1>4, <1>5, <1>6 DEF Types
<1>9. /\ th' \in [Threads -> ThStates] /\ th'[t] = r
      /\ \A u \in Threads \ {t} : th'[u] = th[u]
  BY <1>1, <1>7, <1>8, RecordNow
<1>10. cleared \in BOOLEAN /\ fds \in [Fds -> Inos \cup {None}]
  BY <1>1 DEF Types
<1>11. cleared' \in BOOLEAN /\ (cleared => cleared') /\ (~cleared' => gone = {})
  BY <1>2, <1>10, Zenon
<1>12. table' \subseteq table /\ (gone = {} => table' = table) /\ ~Destroying(t)'
  BY <1>2, <1>7, <1>9 DEF Destroying
<1>13. DsMoves(t)
  BY <1>1, <1>3, <1>4, <1>7, <1>9, <1>10, <1>11, <1>12 DEF DsMoves, DsPcs
<1>. QED
  BY <1>13, DsStep

-----------------------------------------------------------------------------
(* Every reachable state satisfies IInv. *)

LEMMA InitKeeps ==
  ASSUME Init
  PROVE  IInv
<1>. USE MirrorAssumption
<1>1. NoRequest \in ThStates /\ NoRequest.pc = "idle" /\ NoRequest.fh = None /\ NoRequest.cnt = 0
      /\ NoRequest.nd = None /\ NoRequest.op = None
  BY DEF NoRequest, ThStates, Pcs
<1>2. \A t \in Threads : th[t] = NoRequest /\ handles[t] = {} /\ refs[t] = [a \in Addrs |-> 0]
  BY DEF Init
<1>3. Types
  <2>1. /\ link \in [Names -> Inos \cup {None}] /\ fds \in [Fds -> Inos \cup {None}]
        /\ nalloc \in 0..MaxRequests /\ alive \in SUBSET (1..nalloc)
        /\ table \in SUBSET (1..nalloc) /\ sent \in Nat
    BY DEF Init
  <2>2. raced \in BOOLEAN /\ cleared \in BOOLEAN
    BY Zenon DEF Init
  <2>3. fm \in Threads \cup {None} /\ im \in [Addrs \cup {Root} -> Threads \cup {None}]
    BY DEF Init
  <2>4. th \in [Threads -> ThStates] /\ handles \in [Threads -> SUBSET Handles]
    BY <1>1 DEF Init
  <2>5. inode \in [Addrs -> InodeRec] /\ refs \in [Threads -> [Addrs -> Nat]]
    BY DEF Init, InodeRec
  <2>. QED
    BY <2>1, <2>2, <2>3, <2>4, <2>5 DEF Types
<1>4. ThreadsOK
  BY <1>1, <1>2
     DEF ThreadsOK, RequestOK, LocksOK, HostOK, LookupPcs, NewFdPcs, NodePcs, UsePcs, OwingPcs, ErasePcs
<1>5. LookupsOK /\ OpensOK
  BY DEF Init, LookupsOK, OpensOK
<1>6. AliveOK
  <2>1. \A t \in Threads, a \in Addrs : Holds(t, a) = 0
    BY <1>1, <1>2 DEF Holds, Owed
  <2>2. \A t \in Threads : ~Erasing(t) /\ th[t].pc # "lk_new"
    BY <1>1, <1>2 DEF Erasing, ErasePcs
  <2>. QED
    BY <2>1, <2>2 DEF AliveOK, InTable
<1>7. BudgetOK
  <2>1. Allocating = {}
    BY <1>1, <1>2 DEF Allocating, AllocPcs
  <2>2. IsFiniteSet(Allocating) /\ Cardinality(Allocating) = 0
    BY <2>1, FS_EmptySet
  <2>. QED
    BY <2>2 DEF BudgetOK, Init
<1>8. FdsOK
  <2>1. \A t \in Threads : ThreadOwns(t) = {}
    BY <1>1, <1>2, NoneIsNo DEF ThreadOwns, NewFdPcs
  <2>2. alive = {}
    BY DEF Init
  <2>3. Owned = {}
    BY <2>1, <2>2 DEF Owned
  <2>. QED
    BY <2>3 DEF FdsOK, Once, Open
<1>9. EndsOnlyByRace
  BY DEF Init, EndsOnlyByRace
<1>10. TableOK
  BY <1>1, <1>2 DEF Init, TableOK, Destroying
<1>. QED
  BY <1>3, <1>4, <1>5, <1>6, <1>7, <1>8, <1>9, <1>10 DEF IInv

LEMMA StutterKeeps ==
  ASSUME IInv, UNCHANGED mirrorVars
  PROVE  IInv'
<1>1. UNCHANGED <<link, fds, table, alive, nalloc, inode, fm, im, th, refs, handles, sent, raced, cleared, ended>>
  BY DEF mirrorVars
<1>2. EndsOnlyByRace'
  BY <1>1 DEF IInv, EndsOnlyByRace
<1>. QED
  BY <1>1, <1>2, EndKeeps

LEMMA NextKeeps ==
  ASSUME IInv, [Next]_mirrorVars
  PROVE  IInv'
<1>1. CASE UNCHANGED mirrorVars
  BY <1>1, StutterKeeps
<1>2. ASSUME NEW t \in Threads, Host(t) PROVE IInv'
  BY <1>2, KeepSendByName, KeepSendByNode, KeepSendForget, KeepSendRelease, KeepSendDestroy, KeepRename
     DEF Host
<1>3. ASSUME NEW t \in Threads, Step(t) PROVE IInv'
  <2>1. CASE LkOpen(t) \/ LkTable(t) \/ LkKnown(t) \/ LkNew(t)
    BY <2>1, KeepLkOpen, KeepLkTable, KeepLkKnown, KeepLkNew
  <2>2. CASE FgCount(t) \/ FgErase(t) \/ FgFree(t) \/ FgTest(t)
    BY <2>2, KeepFgCount, KeepFgErase, KeepFgFree, KeepFgTest
  <2>3. CASE UlRelease(t) \/ UlClose(t) \/ UlUnlinkat(t)
    BY <2>3, KeepUlRelease, KeepUlClose, KeepUlUnlinkat
  <2>4. CASE UseRead(t) \/ OpOpen(t) \/ SaApply(t)
    BY <2>4, KeepUseRead, KeepOpOpen, KeepSaApply
  <2>5. CASE OpCount(t) \/ CrCount(t)
    BY <2>5, KeepCountOpen DEF OpCount, CrCount, At
  <2>6. CASE RlCount(t) \/ RlClose(t) \/ CrOpen(t) \/ MkNode(t)
    BY <2>6, KeepRlCount, KeepRlClose, KeepCrOpen, KeepMkNode
  <2>7. CASE RdLock(t) \/ RdEntry(t)
    BY <2>7, KeepRdLock, KeepRdEntry
  <2>8. CASE DsBucket(t) \/ DsClose(t) \/ DsFree(t) \/ DsClear(t)
    BY <2>8, KeepDsBucket, KeepDsClose, KeepDsFree, KeepDsClear
  <2>. QED
    BY <1>3, <2>1, <2>2, <2>3, <2>4, <2>5, <2>6, <2>7, <2>8 DEF Step
<1>. QED
  BY <1>1, <1>2, <1>3 DEF Next

(* IInv is an invariant of the inode table of the mirror file system, for any threads, names,    *)
(* inode numbers, descriptors and requests: do_lookup, forget_one, unlink, open, release,        *)
(* create, readdir, rename and destroy keep it in every interleaving.                            *)
THEOREM Invariance == Spec => []IInv
<1>1. Init => IInv
  BY InitKeeps
<1>2. IInv /\ [Next]_mirrorVars => IInv'
  BY NextKeeps
<1>. QED
  BY <1>1, <1>2, PTL DEF Spec

(* The variables keep their types: the hosts' requests never allocate more inodes than there     *)
(* are addresses, and counts, which the code keeps in unsigned integers, never go below zero.    *)
THEOREM TypeCorrect == Spec => []TypeOK
<1>1. IInv => TypeOK
  <2>1. SUFFICES ASSUME IInv PROVE TypeOK
    OBVIOUS
  <2>2. Types
    BY <2>1 DEF IInv
  <2>3. \A t \in Threads : /\ th[t].nd \in Addrs \cup {None}
                           /\ th[t].fd \in Fds \cup {Released, None}
                           /\ refs[t] \in [Addrs -> Nat]
                           /\ handles[t] \subseteq [nd : Addrs, fh : Fds]
    BY <2>2, FieldTypes DEF Types, Handles
  <2>. QED
    BY <2>2, <2>3 DEF Types, TypeOK
<1>. QED
  BY <1>1, Invariance, PTL

(* The counts of an inode are exact: nlookup is the lookups that the hosts hold and that         *)
(* requests have still to give back, nopen the files that are open, on every path through        *)
(* do_lookup, forget_one, unlink, create, release and readdir; nlookup also while a DESTROY      *)
(* frees inodes under the other threads.                                                         *)
THEOREM CountsAreExact == Spec => []CountsExact
<1>1. IInv => CountsExact
  BY DEF IInv, LookupsOK, OpensOK, CountsExact
<1>. QED
  BY <1>1, Invariance, PTL

(* A nodeid that a host holds a lookup on stays an inode of the table that is not freed, until a *)
(* lookup counts on an inode that forget_one is about to free, or a DESTROY comes upon inodes.   *)
THEOREM NodeidsStayAlive == Spec => []NodeidsAlive
<1>1. IInv => NodeidsAlive
  <2>1. SUFFICES ASSUME IInv, ~raced, ~cleared, NEW t \in Threads, NEW a \in Addrs, refs[t][a] > 0
                 PROVE  a \in table /\ a \in alive
    BY DEF NodeidsAlive
  <2>2. Types /\ InTable /\ table = alive
    BY <2>1, Zenon DEF IInv, AliveOK, TableOK
  <2>3. Holds(t, a) > 0
    BY <2>1, <2>2, HoldsNat DEF Holds
  <2>. QED
    BY <2>2, <2>3 DEF InTable
<1>. QED
  BY <1>1, Invariance, PTL

(* forget_one never finds fewer lookups than it has to take (its exit), and the first access to  *)
(* a freed inode, but for the one that forget_one makes to what it has just freed, is that of a  *)
(* lookup between its two locks, unless inodes were lost to such a lookup or a DESTROY before.   *)
THEOREM EndsByRaceOnly == Spec => []EndsOnlyByRace
<1>1. IInv => EndsOnlyByRace
  BY DEF IInv
<1>. QED
  BY <1>1, Invariance, PTL

(* The descriptor of an inode in the table names the file of the inode and the descriptor of an  *)
(* open file is open, whatever numbers the other threads close and take again: until a DESTROY   *)
(* closes the descriptors of inodes in the table, each number has one owner.                     *)
THEOREM FdsNameFiles == Spec => []FdsNameTheirFiles
<1>1. IInv => FdsNameTheirFiles
  <2>1. SUFFICES ASSUME IInv, ~cleared PROVE FdsNameTheirFiles
    BY Zenon DEF FdsNameTheirFiles
  <2>2. Open(Owned, fds) /\ table = alive
    BY <2>1, Zenon DEF IInv, FdsOK, TableOK
  <2>3. ASSUME NEW a \in table, inode[a].fd \in Fds PROVE fds[inode[a].fd] = inode[a].ino
    <3>1. <<"inode", a, inode[a].fd, {inode[a].ino}>> \in Owned
      BY <2>2, <2>3 DEF Owned, InodeOwns
    <3>. QED
      BY <2>2, <3>1 DEF Open
  <2>4. ASSUME NEW t \in Threads, NEW h \in handles[t] PROVE fds[h.fh] # None
    <3>1. <<"open", <<t, h>>, h.fh, Inos>> \in Owned
      BY DEF Owned, ThreadOwns
    <3>. QED
      BY <2>2, <3>1 DEF Open
  <2>. QED
    BY <2>3, <2>4 DEF FdsNameTheirFiles
<1>. QED
  BY <1>1, Invariance, PTL
=============================================================================
