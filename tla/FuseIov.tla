------------------------------ MODULE FuseIov ------------------------------
(***************************************************************************)
(* struct iov of dpfs_fuse.h: the reply buffer of READDIR, a list of       *)
(* iovecs that entries are appended to (iov_init, iov_write_buf).          *)
(*                                                                         *)
(* Lengths are counted in units of the alignment of a dirent; a unit of    *)
(* the buffer that was written holds <<e, k>>, the k-th unit of entry e.   *)
(* mem is the buffer as the kernel reads it, all iovecs after each other,  *)
(* and ends says where in it each of them ends: iov_len of the i-th is     *)
(* ends[i] - ends[i - 1].                                                  *)
(***************************************************************************)
EXTENDS Naturals, Sequences, FiniteSetsExt

(* Units in the iovecs before the i-th. *)
Before(ends, i) == IF i = 1 THEN 0 ELSE ends[i - 1]

iov_init(ends) ==
  LET total == Before(ends, Len(ends) + 1)
  IN [ends |-> ends, idx |-> 1, at |-> 0, total |-> total, unused |-> total,
      mem |-> [u \in 1 .. total |-> <<>>]]

Fits(iov, size) == iov.unused >= size

iov_len(iov) == Before(iov.ends, iov.idx + 1) - Before(iov.ends, iov.idx)

(* What one round of the copy loop copies, of the rem units that are left. *)
to_cpy(iov, rem) == Min({rem, iov_len(iov) - iov.at})

(* buf is not advanced: every iovec that an entry reaches gets the         *)
(* beginning of the entry.                                                 *)
Copied(iov, e, rem) ==
  LET from == Before(iov.ends, iov.idx) + iov.at
  IN [u \in DOMAIN iov.mem |-> IF u > from /\ u <= from + to_cpy(iov, rem)
                                 THEN <<e, u - from>> ELSE iov.mem[u]]

(* Mutant: the position in the iovec is not moved forward. *)
CopyRoundStays(iov, e, rem) ==
  IF iov.at + to_cpy(iov, rem) = iov_len(iov)
    THEN [iov EXCEPT !.idx = @ + 1, !.at = 0, !.mem = Copied(iov, e, rem)]
    ELSE [iov EXCEPT !.mem = Copied(iov, e, rem)]

(* A round of the loop goes to the next iovec or on in this one. *)
CopyRound(iov, e, rem) ==
  IF iov.at + to_cpy(iov, rem) = iov_len(iov)
    THEN [iov EXCEPT !.idx = @ + 1, !.at = 0, !.mem = Copied(iov, e, rem)]
    ELSE [iov EXCEPT !.at = @ + to_cpy(iov, rem), !.mem = Copied(iov, e, rem)]

Written(iov) == iov.total - iov.unused

(* The units from + 1 .. from + size lie in one iovec. *)
InOneIovec(iov, from, size) ==
  \E i \in 1 .. Len(iov.ends) : /\ Before(iov.ends, i) <= from
                                /\ from + size <= Before(iov.ends, i + 1)

(* They hold the entry e, whole and in order. *)
Holds(iov, from, e, size) == \A k \in 1 .. size : iov.mem[from + k] = <<e, k>>
=============================================================================
