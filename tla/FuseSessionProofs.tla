------------------------- MODULE FuseSessionProofs -------------------------
(***************************************************************************)
(* The properties of FuseSession for any number of devices, any kernels    *)
(* (offers, minors and readaheads) and any file system.                    *)
(***************************************************************************)
EXTENDS FuseSession, TLAPS

Sessions == [got_init : BOOLEAN, got_destroy : BOOLEAN, init_done : BOOLEAN,
             capable : SUBSET Caps, want : SUBSET Caps,
             bufsize : FUSE_MIN_READ_BUFFER .. FUSE_MAX_MAX_PAGES + 1,
             max_write : Nat \ {0}, max_readahead : Nat]

Replies == [offer : SUBSET Flags, minor : Nat, readahead : Nat, flags : SUBSET Flags,
            max_write : Nat, max_readahead : Nat]

(* TypeOK, with the whole reply. *)
Types == /\ alive \in BOOLEAN
         /\ reg \in [Devices -> {"no", "yes", "gone"}]
         /\ has_se \in [Devices -> BOOLEAN]
         /\ se \in [Devices -> Sessions]
         /\ fs \in [Devices -> {"new", "up", "failed", "down"}]
         /\ inits \in [Devices -> 0 .. 2]
         /\ deferred \in [Devices -> 0 .. QueueDepth]
         /\ answer \in [Devices -> Results]
         /\ reply \in [Devices -> Replies]

(* What the refusals of fuse_ll_init and of the handlers rest on: a session *)
(* without INIT has initialised nothing, and one that is ready has a file   *)
(* system whose init was called.                                            *)
Started == \A d \in Devices :
  /\ ~se[d].got_init /\ ~se[d].got_destroy => inits[d] = 0
  /\ se[d].init_done => fs[d] # "new"

IInv == Types /\ Started /\ InitReplySound /\ InitOnce /\ ServedAfterInit

(* Limits of a session s against those of an earlier one. *)
NoMore(s, t) == /\ s.bufsize <= t.bufsize /\ s.max_write <= t.max_write
                /\ s.max_readahead <= t.max_readahead

LEMMA NoMoreSelf == ASSUME NEW s \in Sessions PROVE NoMore(s, s)
<1>1. s.bufsize \in 2 .. 257 /\ s.max_write \in Nat /\ s.max_readahead \in Nat
  BY DEF Sessions, FUSE_MAX_MAX_PAGES, FUSE_MIN_READ_BUFFER
<1>. QED
  BY <1>1 DEF NoMore

-----------------------------------------------------------------------------
(* The negotiation. *)

LEMMA MinOfNat == ASSUME NEW a \in Nat, NEW b \in Nat
                  PROVE  /\ MinOf(a, b) \in Nat /\ MinOf(a, b) <= a /\ MinOf(a, b) <= b
                         /\ MinOf(a, b) = a \/ MinOf(a, b) = b
  BY DEF MinOf

LEMMA BufsizeBounds ==
  ASSUME NEW s \in Sessions, NEW offer, NEW minor \in Nat
  PROVE  /\ Bufsize(s, offer, minor) \in FUSE_MIN_READ_BUFFER .. FUSE_MAX_MAX_PAGES + 1
         /\ Bufsize(s, offer, minor) <= s.bufsize
         /\ minor >= 6 /\ "MAX_PAGES" \notin offer =>
              Bufsize(s, offer, minor) <= FUSE_DEFAULT_MAX_PAGES_PER_REQ + 1
<1>1. s.bufsize \in 2 .. 257
  BY DEF Sessions, FUSE_MIN_READ_BUFFER, FUSE_MAX_MAX_PAGES
<1>. QED
  BY <1>1 DEF Bufsize, MinOf, FUSE_MIN_READ_BUFFER, FUSE_MAX_MAX_PAGES, FUSE_DEFAULT_MAX_PAGES_PER_REQ

LEMMA CapableOffered ==
  ASSUME NEW offer \in SUBSET Flags, NEW minor \in Nat
  PROVE  /\ Capable(offer, minor) \subseteq Caps
         /\ Capable(offer, minor) \subseteq offer \cup {"IOCTL_DIR"}
  BY DEF Capable, Caps

(* The session before the init of the file system is called: it is in      *)
(* bounds, has not grown, and wants nothing that was not offered.          *)
LEMMA NegotiatedSound ==
  ASSUME NEW s \in Sessions, NEW offer \in SUBSET Flags, NEW minor \in Nat, NEW readahead \in Nat
  PROVE  LET n == Negotiated(s, offer, minor, readahead) IN
           /\ n \in Sessions /\ NoMore(n, s) /\ n.got_init
           /\ n.got_destroy = s.got_destroy /\ n.init_done = s.init_done
           /\ n.capable \subseteq offer \cup {"IOCTL_DIR"}
           /\ n.max_write <= FUSE_MAX_MAX_PAGES
           /\ minor >= 6 /\ "MAX_PAGES" \notin offer =>
                n.max_write <= FUSE_DEFAULT_MAX_PAGES_PER_REQ
<1>. DEFINE b == Bufsize(s, offer, minor)
            c == Capable(offer, minor)
            r == Readahead(s, minor, readahead)
            n == Negotiated(s, offer, minor, readahead)
<1>1. /\ b \in 2 .. 257 /\ b <= s.bufsize
      /\ minor >= 6 /\ "MAX_PAGES" \notin offer => b <= 33
  BY BufsizeBounds DEF FUSE_MIN_READ_BUFFER, FUSE_MAX_MAX_PAGES, FUSE_DEFAULT_MAX_PAGES_PER_REQ
<1>2. c \subseteq Caps /\ c \subseteq offer \cup {"IOCTL_DIR"}
  BY CapableOffered
<1>3. r \in Nat /\ r <= s.max_readahead
  BY DEF Readahead, MinOf, Sessions
<1>4. MinOf(s.max_write, b - 1) \in Nat \ {0} /\ MinOf(s.max_write, b - 1) <= s.max_write
      /\ MinOf(s.max_write, b - 1) <= b - 1
  BY <1>1 DEF MinOf, Sessions
<1>. HIDE DEF b, c, r
<1>5. n = [s EXCEPT !.got_init = TRUE, !.capable = c, !.want = c \cap Defaults, !.bufsize = b,
                    !.max_write = MinOf(s.max_write, b - 1), !.max_readahead = r]
  BY DEF Negotiated, b, c, r
<1>6. n \in Sessions
  <2>1. c \cap Defaults \in SUBSET Caps /\ c \in SUBSET Caps
    BY <1>2
  <2>2. b \in FUSE_MIN_READ_BUFFER .. FUSE_MAX_MAX_PAGES + 1
    BY <1>1 DEF FUSE_MIN_READ_BUFFER, FUSE_MAX_MAX_PAGES
  <2>. QED
    BY <1>3, <1>4, <1>5, <2>1, <2>2 DEF Sessions
<1>7. /\ n.got_init /\ n.got_destroy = s.got_destroy /\ n.init_done = s.init_done
      /\ n.capable = c /\ n.bufsize = b /\ n.max_write = MinOf(s.max_write, b - 1)
      /\ n.max_readahead = r
  BY <1>5 DEF Sessions
<1>. HIDE DEF n
<1>8. NoMore(n, s)
  BY <1>1, <1>3, <1>4, <1>7 DEF NoMore
<1>9. /\ n.max_write <= FUSE_MAX_MAX_PAGES
      /\ minor >= 6 /\ "MAX_PAGES" \notin offer => n.max_write <= FUSE_DEFAULT_MAX_PAGES_PER_REQ
  BY <1>1, <1>4, <1>7 DEF FUSE_MAX_MAX_PAGES, FUSE_DEFAULT_MAX_PAGES_PER_REQ
<1>. QED
  BY <1>2, <1>6, <1>7, <1>8, <1>9 DEF n

LEMMA InitReplyFlags ==
  ASSUME NEW s \in Sessions, NEW offer \in SUBSET Flags, NEW minor \in Nat, NEW readahead \in Nat,
         s.want \subseteq offer \cup {"IOCTL_DIR"}
  PROVE  LET r == InitReply(s, offer, minor, readahead) IN
           /\ r \in Replies /\ r.offer = offer /\ r.minor = minor /\ r.max_write = s.max_write
           /\ r.flags \subseteq offer \cup {"BIG_WRITES"}
<1>1. "IOCTL_DIR" \notin Echoed
  BY DEF Echoed
<1>2. (s.want \cap Echoed) \cup {"BIG_WRITES"} \cup (offer \cap {"MAX_PAGES"}) \subseteq offer \cup {"BIG_WRITES"}
  BY <1>1
<1>3. "BIG_WRITES" \in Flags
  BY DEF Flags
<1>. QED
  BY <1>2, <1>3 DEF InitReply, Replies, Sessions

-----------------------------------------------------------------------------
LEMMA InitHolds == Init => IInv
<1>. SUFFICES ASSUME Init PROVE IInv
  OBVIOUS
<1>1. NewSession \in Sessions /\ NoReply \in Replies
  BY DEF NewSession, NoReply, Sessions, Replies, FUSE_MAX_MAX_PAGES, FUSE_MIN_READ_BUFFER,
         UINT_MAX_PAGES
<1>2. Types
  BY <1>1, FuseAssumption DEF Init, Types, Results
<1>3. Started /\ InitReplySound /\ InitOnce /\ ServedAfterInit
  BY DEF Init, Started, InitReplySound, InitOnce, ServedAfterInit, NewSession
<1>. QED
  BY <1>2, <1>3 DEF IInv

(* Steps that leave the sessions and their file systems alone. *)
ServesStarted(d) ==
  /\ answer'[d] = "fs" => answer[d] = "fs" \/ fs[d] # "new"
  /\ deferred'[d] > 0 => deferred[d] > 0 \/ fs[d] # "new"

LEMMA QuietStep ==
  ASSUME IInv, UNCHANGED <<se, fs, inits, reply>>,
         Types', \A d \in Devices : ServesStarted(d)
  PROVE  IInv' /\ \A d \in Devices : NoMore(se'[d], se[d])
<1>1. Started' /\ InitReplySound' /\ InitOnce'
  BY DEF IInv, Started, InitReplySound, InitOnce
<1>2. ServedAfterInit'
  BY DEF IInv, ServedAfterInit, ServesStarted
<1>3. \A d \in Devices : NoMore(se'[d], se[d])
  BY NoMoreSelf DEF IInv, Types
<1>. QED
  BY <1>1, <1>2, <1>3 DEF IInv

(* INIT and DESTROY of device d put a session s and a file system f in     *)
(* place of what was there, count k inits, and answer res and r.           *)
Becomes(d, s, f, k, r, res) ==
  /\ se' = [se EXCEPT ![d] = s] /\ fs' = [fs EXCEPT ![d] = f]
  /\ inits' = [inits EXCEPT ![d] = k] /\ reply' = [reply EXCEPT ![d] = r]
  /\ Answers(d, res) /\ UNCHANGED <<alive, reg, has_se, deferred>>

SoundReply(r) == r # NoReply =>
  /\ r.flags \subseteq r.offer \cup {"BIG_WRITES"}
  /\ r.max_write <= FUSE_MAX_MAX_PAGES
  /\ r.minor >= 6 /\ "MAX_PAGES" \notin r.offer => r.max_write <= FUSE_DEFAULT_MAX_PAGES_PER_REQ

SoundSession(d, s, f, k) ==
  /\ s \in Sessions /\ f \in {"up", "failed", "down", fs[d]} /\ k \in 0 .. 2
  /\ NoMore(s, se[d])
  /\ ~s.got_destroy => k <= 1
  /\ ~s.got_init /\ ~s.got_destroy => k = 0
  /\ s.init_done => f # "new"

LEMMA SessionStep ==
  ASSUME IInv, NEW d \in Devices, NEW s, NEW f, NEW k, NEW r \in Replies,
         NEW res \in Results \ {"fs"},
         Becomes(d, s, f, k, r, res), SoundSession(d, s, f, k), SoundReply(r)
  PROVE  IInv' /\ \A e \in Devices : NoMore(se'[e], se[e])
<1>. USE DEF Becomes, SoundSession, SoundReply
<1>1. Types'
  BY DEF IInv, Types, Answers
<1>2. Started'
  BY DEF IInv, Types, Started
<1>3. InitReplySound'
  BY DEF IInv, Types, InitReplySound
<1>4. InitOnce'
  BY DEF IInv, Types, InitOnce
<1>5. ServedAfterInit'
  BY DEF IInv, Types, ServedAfterInit, Answers
<1>6. \A e \in Devices : NoMore(se'[e], se[e])
  BY NoMoreSelf DEF IInv, Types
<1>. QED
  BY <1>1, <1>2, <1>3, <1>4, <1>5, <1>6 DEF IInv

LEMMA InitKeeps ==
  ASSUME IInv, NEW d \in Devices, fuse_ll_init(d)
  PROVE  IInv' /\ \A e \in Devices : NoMore(se'[e], se[e])
<1>. DEFINE Goal == IInv' /\ \A e \in Devices : NoMore(se'[e], se[e])
<1>. HIDE DEF Goal
<1>1. /\ se[d] \in Sessions /\ reply[d] \in Replies /\ inits[d] \in 0 .. 2 /\ fs[d] \in {"new", "up", "failed", "down"}
      /\ se = [se EXCEPT ![d] = se[d]] /\ fs = [fs EXCEPT ![d] = fs[d]]
      /\ inits = [inits EXCEPT ![d] = inits[d]] /\ reply = [reply EXCEPT ![d] = reply[d]]
  BY DEF IInv, Types
<1>2. UNCHANGED <<alive, reg, has_se, deferred>>
  BY DEF fuse_ll_init
<1>3. /\ ~se[d].got_destroy => inits[d] <= 1
      /\ ~se[d].got_init /\ ~se[d].got_destroy => inits[d] = 0
      /\ se[d].init_done => fs[d] # "new"
      /\ SoundReply(reply[d])
  BY DEF IInv, Started, InitOnce, InitReplySound, SoundReply
<1>4. ASSUME NEW res \in Results \ {"fs"}, Answers(d, res), UNCHANGED <<se, fs, inits, reply>>
      PROVE  Goal
  <2>1. Becomes(d, se[d], fs[d], inits[d], reply[d], res)
    BY <1>1, <1>2, <1>4 DEF Becomes
  <2>2. SoundSession(d, se[d], fs[d], inits[d])
    BY <1>1, <1>3, NoMoreSelf DEF SoundSession
  <2>. QED
    BY <1>1, <1>3, <1>4, <2>1, <2>2, SessionStep DEF Goal
<1>5. ASSUME NEW res \in Results \ {"fs"}, Answers(d, res), UNCHANGED <<fs, inits, reply>>,
             se' = [se EXCEPT ![d] = [@ EXCEPT !.capable = {}, !.want = {}]]
      PROVE  Goal
  <2>. DEFINE s == [se[d] EXCEPT !.capable = {}, !.want = {}]
  <2>1. s \in Sessions /\ se' = [se EXCEPT ![d] = s]
    BY <1>1, <1>5 DEF Sessions
  <2>2. /\ s.got_init = se[d].got_init /\ s.got_destroy = se[d].got_destroy
        /\ s.init_done = se[d].init_done /\ s.bufsize = se[d].bufsize
        /\ s.max_write = se[d].max_write /\ s.max_readahead = se[d].max_readahead
    BY <1>1 DEF Sessions
  <2>3. NoMore(s, se[d])
    BY <1>1, <2>2, NoMoreSelf DEF NoMore
  <2>. HIDE DEF s
  <2>4. Becomes(d, s, fs[d], inits[d], reply[d], res)
    BY <1>1, <1>2, <1>5, <2>1 DEF Becomes
  <2>5. SoundSession(d, s, fs[d], inits[d])
    BY <1>1, <1>3, <2>1, <2>2, <2>3 DEF SoundSession
  <2>. QED
    BY <1>1, <1>3, <1>5, <2>4, <2>5, SessionStep DEF Goal
<1>6. ASSUME ~Connected(se[d]), NEW offer \in Offers, NEW minor \in Minors,
             NEW readahead \in Readaheads,
             FsInit(d, Negotiated(se[d], offer, minor, readahead), offer, minor, readahead)
      PROVE  Goal
  <2>. DEFINE n == Negotiated(se[d], offer, minor, readahead)
  <2>1. offer \in SUBSET Flags /\ minor \in Nat /\ readahead \in Nat
    BY FuseAssumption
  <2>2. /\ n \in Sessions /\ NoMore(n, se[d]) /\ n.got_init
        /\ n.got_destroy = se[d].got_destroy /\ n.init_done = se[d].init_done
        /\ n.capable \subseteq offer \cup {"IOCTL_DIR"}
        /\ n.max_write <= FUSE_MAX_MAX_PAGES
        /\ minor >= 6 /\ "MAX_PAGES" \notin offer => n.max_write <= FUSE_DEFAULT_MAX_PAGES_PER_REQ
    BY <1>1, <2>1, NegotiatedSound
  <2>3. FsInit(d, n, offer, minor, readahead)
    BY <1>6
  <2>4. ~se[d].got_destroy => MinOf(inits[d] + 1, 2) <= 1
    BY <1>3, <1>6 DEF Connected, MinOf
  <2>5. MinOf(inits[d] + 1, 2) \in 0 .. 2
    BY <1>1 DEF MinOf
  <2>. HIDE DEF n
  <2>6. ASSUME NEW asks \in FsAsks, NEW t, t = [n EXCEPT !.init_done = TRUE, !.want = @ \cup asks],
               fs' = [fs EXCEPT ![d] = "up"], inits' = [inits EXCEPT ![d] = MinOf(@ + 1, 2)],
               t.want \subseteq t.capable, se' = [se EXCEPT ![d] = t],
               reply' = [reply EXCEPT ![d] = InitReply(t, offer, minor, readahead)],
               Answers(d, "ok")
        PROVE  Goal
    <3>1. n.want \cup asks \in SUBSET Caps
      BY <2>2, FuseAssumption DEF Sessions
    <3>2. t \in Sessions
      BY <2>2, <2>6, <3>1 DEF Sessions
    <3>3. /\ t.got_init /\ t.got_destroy = se[d].got_destroy /\ t.capable = n.capable
          /\ t.bufsize = n.bufsize /\ t.max_write = n.max_write /\ t.max_readahead = n.max_readahead
      BY <2>2, <2>6 DEF Sessions
    <3>4. NoMore(t, se[d])
      BY <2>2, <3>3 DEF NoMore
    <3>5. t.want \subseteq offer \cup {"IOCTL_DIR"}
      BY <2>2, <2>6, <3>3
    <3>6. PICK r : r = InitReply(t, offer, minor, readahead)
      OBVIOUS
    <3>7. /\ r \in Replies /\ r.offer = offer /\ r.minor = minor /\ r.max_write = t.max_write
          /\ r.flags \subseteq offer \cup {"BIG_WRITES"}
      BY <2>1, <3>2, <3>5, <3>6, InitReplyFlags
    <3>8. /\ r.flags \subseteq r.offer \cup {"BIG_WRITES"}
          /\ r.max_write <= FUSE_MAX_MAX_PAGES
          /\ r.minor >= 6 /\ "MAX_PAGES" \notin r.offer =>
               r.max_write <= FUSE_DEFAULT_MAX_PAGES_PER_REQ
      BY <2>2, <3>3, <3>7
    <3>9. "ok" \in Results \ {"fs"} /\ inits' = [inits EXCEPT ![d] = MinOf(inits[d] + 1, 2)]
      BY <1>1, <2>6 DEF Results
    <3>10. Becomes(d, t, "up", MinOf(inits[d] + 1, 2), r, "ok")
      BY <1>2, <2>6, <3>6, <3>9 DEF Becomes
    <3>11. SoundSession(d, t, "up", MinOf(inits[d] + 1, 2))
      BY <2>4, <2>5, <3>2, <3>3, <3>4 DEF SoundSession
    <3>. QED
      BY <3>7, <3>8, <3>9, <3>10, <3>11, SessionStep DEF Goal, SoundReply
  <2>7. ASSUME NEW asks \in FsAsks, NEW t, t = [n EXCEPT !.init_done = TRUE, !.want = @ \cup asks],
               fs' = [fs EXCEPT ![d] = "up"], inits' = [inits EXCEPT ![d] = MinOf(@ + 1, 2)],
               se' = [se EXCEPT ![d] = [t EXCEPT !.got_destroy = TRUE]],
               Answers(d, "EPROTO"), UNCHANGED reply
        PROVE  Goal
    <3>. DEFINE u == [t EXCEPT !.got_destroy = TRUE]
    <3>1. n.want \cup asks \in SUBSET Caps
      BY <2>2, FuseAssumption DEF Sessions
    <3>2. u \in Sessions /\ u.got_destroy
      BY <2>2, <2>7, <3>1 DEF Sessions
    <3>3. u.bufsize = n.bufsize /\ u.max_write = n.max_write /\ u.max_readahead = n.max_readahead
      BY <2>2, <2>7 DEF Sessions
    <3>4. NoMore(u, se[d])
      BY <2>2, <3>3 DEF NoMore
    <3>5. "EPROTO" \in Results \ {"fs"} /\ inits' = [inits EXCEPT ![d] = MinOf(inits[d] + 1, 2)]
      BY <1>1, <2>7 DEF Results
    <3>6. se' = [se EXCEPT ![d] = u]
      BY <2>7
    <3>. HIDE DEF u
    <3>7. Becomes(d, u, "up", MinOf(inits[d] + 1, 2), reply[d], "EPROTO")
      BY <1>1, <1>2, <2>7, <3>5, <3>6 DEF Becomes
    <3>8. SoundSession(d, u, "up", MinOf(inits[d] + 1, 2))
      BY <2>5, <3>2, <3>4 DEF SoundSession
    <3>. QED
      BY <1>1, <1>3, <3>5, <3>7, <3>8, SessionStep DEF Goal
  <2>8. ASSUME fs' = [fs EXCEPT ![d] = "failed"], se' = [se EXCEPT ![d] = [n EXCEPT !.got_destroy = TRUE]],
               Answers(d, "fs_error"), UNCHANGED <<inits, reply>>
        PROVE  Goal
    <3>. DEFINE u == [n EXCEPT !.got_destroy = TRUE]
    <3>1. u \in Sessions /\ u.got_destroy
      BY <2>2 DEF Sessions
    <3>2. u.bufsize = n.bufsize /\ u.max_write = n.max_write /\ u.max_readahead = n.max_readahead
      BY <2>2 DEF Sessions
    <3>3. NoMore(u, se[d])
      BY <2>2, <3>2 DEF NoMore
    <3>4. "fs_error" \in Results \ {"fs"} /\ se' = [se EXCEPT ![d] = u]
      BY <2>8 DEF Results
    <3>. HIDE DEF u
    <3>5. Becomes(d, u, "failed", inits[d], reply[d], "fs_error")
      BY <1>1, <1>2, <2>8, <3>4 DEF Becomes
    <3>6. SoundSession(d, u, "failed", inits[d])
      BY <1>1, <3>1, <3>3 DEF SoundSession
    <3>. QED
      BY <1>1, <1>3, <3>4, <3>5, <3>6, SessionStep DEF Goal
  <2>. QED
    BY <2>3, <2>6, <2>7, <2>8 DEF FsInit
<1>7. {"EINVAL", "EISCONN", "EPROTO", "ok"} \subseteq Results \ {"fs"}
  BY DEF Results
<1>8. Goal
  BY <1>4, <1>5, <1>6, <1>7 DEF fuse_ll_init
<1>. QED
  BY <1>8 DEF Goal

LEMMA DestroyKeeps ==
  ASSUME IInv, NEW d \in Devices, fuse_ll_destroy(d)
  PROVE  IInv' /\ \A e \in Devices : NoMore(se'[e], se[e])
<1>1. CASE Answers(d, "EINVAL") /\ UNCHANGED <<se, fs, inits>>
  <2>1. Types'
    BY <1>1 DEF fuse_ll_destroy, IInv, Types, Answers, Results
  <2>2. \A e \in Devices : ServesStarted(e)
    BY <1>1 DEF Answers, IInv, Types, fuse_ll_destroy, ServesStarted
  <2>. QED
    BY <1>1, <2>1, <2>2, QuietStep DEF fuse_ll_destroy
<1>2. CASE /\ se' = [se EXCEPT ![d].got_destroy = TRUE] /\ fs' = [fs EXCEPT ![d] = "down"]
           /\ inits' = [inits EXCEPT ![d] = 0] /\ Answers(d, "ok")
  <2>. DEFINE s == [se[d] EXCEPT !.got_destroy = TRUE]
  <2>1. se[d] \in Sessions /\ reply[d] \in Replies /\ reply = [reply EXCEPT ![d] = reply[d]]
    BY DEF IInv, Types
  <2>2. s \in Sessions /\ s.got_destroy /\ se' = [se EXCEPT ![d] = s]
    BY <1>2, <2>1 DEF Sessions, IInv, Types
  <2>3. s.bufsize = se[d].bufsize /\ s.max_write = se[d].max_write /\ s.max_readahead = se[d].max_readahead
    BY <2>1 DEF Sessions
  <2>4. NoMore(s, se[d])
    BY <2>1, <2>3, NoMoreSelf DEF NoMore
  <2>5. "ok" \in Results \ {"fs"}
    BY DEF Results
  <2>6. SoundReply(reply[d])
    BY DEF IInv, InitReplySound, SoundReply
  <2>7. UNCHANGED <<alive, reg, has_se, deferred, reply>>
    BY DEF fuse_ll_destroy
  <2>. HIDE DEF s
  <2>8. Becomes(d, s, "down", 0, reply[d], "ok")
    BY <1>2, <2>1, <2>2, <2>7 DEF Becomes
  <2>9. SoundSession(d, s, "down", 0)
    BY <2>2, <2>4 DEF SoundSession
  <2>. QED
    BY <2>1, <2>5, <2>6, <2>8, <2>9, SessionStep
<1>. QED
  BY <1>1, <1>2 DEF fuse_ll_destroy

LEMMA HandleKeeps ==
  ASSUME IInv, NEW d \in Devices, NEW op \in Opcodes, fuse_handle_req(d, op)
  PROVE  IInv' /\ \A e \in Devices : NoMore(se'[e], se[e])
<1>1. CASE alive' = FALSE /\ UNCHANGED <<answer, deferred>>
  <2>1. UNCHANGED <<reg, has_se, se, fs, inits, reply>>
    BY DEF fuse_handle_req
  <2>2. Types' /\ \A e \in Devices : ServesStarted(e)
    BY <1>1, <2>1 DEF IInv, Types, ServesStarted
  <2>. QED
    BY <2>1, <2>2, QuietStep
<1>2. ASSUME UNCHANGED alive,
             NEW in \in 0 .. 3, NEW out \in 0 .. 3, NEW sized \in BOOLEAN, NEW flock \in BOOLEAN,
             Answers(d, Result(d, op, in, out, sized, flock)),
             \/ UNCHANGED deferred
             \/ /\ Result(d, op, in, out, sized, flock) = "fs"
                /\ deferred' = [deferred EXCEPT ![d] = @ + 1]
      PROVE  IInv' /\ \A e \in Devices : NoMore(se'[e], se[e])
  <2>1. PICK res : res = Result(d, op, in, out, sized, flock)
    OBVIOUS
  <2>2. res \in {"ENOSYS", "EINVAL", "EBUSY", "fs", "ok"}
    BY <2>1 DEF Result
  <2>3. res = "fs" => fs[d] # "new"
    <3>1. res = "fs" => op \in Forgets \/ se[d].init_done
      BY <2>1 DEF Result
    <3>. QED
      BY <3>1 DEF fuse_handle_req, IInv, Started
  <2>4. UNCHANGED <<alive, reg, has_se, se, fs, inits, reply>> /\ deferred[d] < QueueDepth
    BY <1>2 DEF fuse_handle_req
  <2>5. Types'
    <3>1. answer' \in [Devices -> Results]
      BY <1>2, <2>1, <2>2 DEF Answers, Results, IInv, Types
    <3>2. deferred' \in [Devices -> 0 .. QueueDepth]
      BY <1>2, <2>4, FuseAssumption DEF IInv, Types
    <3>. QED
      BY <2>4, <3>1, <3>2 DEF IInv, Types
  <2>6. \A e \in Devices : ServesStarted(e)
    BY <1>2, <2>1, <2>3 DEF Answers, IInv, Types, ServesStarted
  <2>. QED
    BY <2>4, <2>5, <2>6, QuietStep
<1>. QED
  BY <1>1, <1>2 DEF fuse_handle_req

(* Every step keeps the invariant, and lets no limit of a session grow. *)
LEMMA StepsKeep ==
  ASSUME IInv, [Next]_vars
  PROVE  IInv' /\ \A d \in Devices : NoMore(se'[d], se[d])
<1>1. CASE UNCHANGED vars
  BY <1>1, QuietStep DEF vars, IInv, Types, ServesStarted
<1>2. ASSUME NEW d \in Devices, register_dpfs_device(d) \/ unregister_dpfs_device(d) \/ NoSession(d)
      PROVE  IInv' /\ \A e \in Devices : NoMore(se'[e], se[e])
  <2>1. UNCHANGED <<se, fs, inits, deferred, answer, reply>>
    BY <1>2 DEF register_dpfs_device, unregister_dpfs_device, NoSession
  <2>2. Types'
    BY <1>2, <2>1 DEF register_dpfs_device, unregister_dpfs_device, NoSession, IInv, Types
  <2>. QED
    BY <2>1, <2>2, QuietStep DEF ServesStarted
<1>3. ASSUME NEW d \in Devices, FsCompletes(d)
      PROVE  IInv' /\ \A e \in Devices : NoMore(se'[e], se[e])
  <2>1. UNCHANGED <<alive, reg, has_se, se, fs, inits, answer, reply>>
    BY <1>3 DEF FsCompletes
  <2>2. Types'
    BY <1>3, <2>1, FuseAssumption DEF FsCompletes, IInv, Types
  <2>3. \A e \in Devices : ServesStarted(e)
    BY <1>3 DEF FsCompletes, IInv, Types, ServesStarted
  <2>. QED
    BY <2>1, <2>2, <2>3, QuietStep
<1>. QED
  BY <1>1, <1>2, <1>3, InitKeeps, DestroyKeeps, HandleKeeps DEF Next

(* The inductive invariant of the sessions. *)
THEOREM Invariance == Spec => []IInv
<1>1. IInv /\ [Next]_vars => IInv'
  BY StepsKeep
<1>. QED
  BY InitHolds, <1>1, PTL DEF Spec

(* The fields of a session, the answers and the counters stay in range. *)
THEOREM TypeCorrect == Spec => []TypeOK
<1>1. IInv => TypeOK
  BY DEF IInv, Types, TypeOK, Sessions, Replies
<1>. QED
  BY Invariance, <1>1, PTL

(* The reply of fuse_ll_init holds nothing that the kernel did not offer or *)
(* cannot take, whatever the kernels, the file system and earlier mounts.   *)
THEOREM InitRepliesAreSound == Spec => []InitReplySound
<1>1. IInv => InitReplySound
  BY DEF IInv
<1>. QED
  BY Invariance, <1>1, PTL

(* Until DESTROY, the file system is initialised at most once. *)
THEOREM InitIsDoneOnce == Spec => []InitOnce
<1>1. IInv => InitOnce
  BY DEF IInv
<1>. QED
  BY Invariance, <1>1, PTL

(* Operations are called, and in flight, only after the file system's init. *)
THEOREM ServedOnlyAfterInit == Spec => []ServedAfterInit
<1>1. IInv => ServedAfterInit
  BY DEF IInv
<1>. QED
  BY Invariance, <1>1, PTL

(* No step of a session, over all its remounts, raises one of its limits. *)
THEOREM LimitsOnlyShrink == Spec => LimitsNeverGrow
<1>1. IInv /\ [Next]_vars =>
        [\A d \in Devices : /\ se'[d].bufsize <= se[d].bufsize
                            /\ se'[d].max_write <= se[d].max_write
                            /\ se'[d].max_readahead <= se[d].max_readahead]_vars
  BY StepsKeep DEF NoMore
<1>. QED
  BY Invariance, <1>1, PTL DEF Spec, LimitsNeverGrow
=============================================================================
