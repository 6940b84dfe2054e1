--------------------------- MODULE VnfsBootProofs ---------------------------
(***************************************************************************)
(* Theorems about the start of dpfs_nfs (module VnfsBoot), for any number  *)
(* of connections, requests, chunks, slots and files.                      *)
(*                                                                         *)
(* The handshake and the poller of a connection may take the same slot, so *)
(* what VnfsProofs proves of slots and sequence ids does not hold here.    *)
(* Its invariant Ownership does: chunks, requests, opens and file handles  *)
(* have one owner whoever else writes the slots.  To it comes how far the  *)
(* handshake is: the connections before conn_cntr are up, the ones from    *)
(* conn_cntr on are not, and each stage has what the stages before it      *)
(* made (a session, the root inode, a slot).                               *)
(***************************************************************************)
EXTENDS VnfsBoot, VnfsProofs

(* The stages that use the slot of a compound of the handshake, those that *)
(* come after the calloc of the session's slots, and those that come after *)
(* the insertion of the root inode.                                        *)
WithSlot    == {"claim_root", "send_root", "lookup_root", "claim_reclaim",
                "send_reclaim", "reclaim"}
WithSession == WithSlot \cup {"scan_root", "insert_root", "scan_reclaim", "up"}
WithRoot    == {"scan_reclaim", "claim_reclaim", "send_reclaim", "reclaim", "up"}

(* What the handshake of the current connection has made so far. *)
Made == /\ stage \in WithSlot => bootSlot \in Slots
        /\ stage \in WithSession => session[conn_cntr]
        /\ stage \in WithRoot => InTable(Root)

(* The connections are brought up in the order of their threads. *)
UpTo == /\ \A t \in Threads :
             /\ t < conn_cntr => conn_state[t] = "ESTABLISHED" /\ session[t]
             /\ t >= conn_cntr => conn_state[t] # "ESTABLISHED"
        /\ conn_cntr > 0 => InTable(Root)

BootSound == Ownership /\ BootTypeOK /\ Made /\ UpTo

(* As in VnfsProofs, nothing is claimed of chunks and requests once two    *)
(* mpool_free of one pool overlapped.                                      *)
BootIInv == PoolsIntact => BootSound

-----------------------------------------------------------------------------
(* What the handshake does to the state of the request path *)

(* The handshake writes slots, the server's sequence ids and the handle of *)
(* the root inode, and nothing that a request owns.                        *)
LEMMA HandshakeOwns ==
  ASSUME Ownership, \A f \in Files : fh'[f] \in {fh[f], "set"},
         fh' \in [Files -> {"absent", "none", "len", "set"}],
         in_use' \in [Threads -> [Slots -> BOOLEAN]],
         seqid' \in [Threads -> [Slots -> Nat]],
         srvSeq' \in [Threads -> [Slots -> Nat]],
         UNCHANGED <<halVars, vq, poolVars, cbdata, wire, nfs, openVars, srvOpens, lost,
                     hostVars>>
  PROVE  Ownership'
<1>1. UNCHANGED <<handler, completions, vq, pool, torn, cbdata, wire, nfs, nopen, fh_open,
                  open_stateid, srvOpens, lost, known, handles>>
  BY DEF halVars, poolVars, openVars, hostVars
<1>2. TypeOK'
  BY <1>1 DEF Ownership, Owned, TypeOK
<1>. QED
  BY <1>1, <1>2, OwnershipKept

(* A step that leaves the request path alone. *)
LEMMA HandshakeOnly ==
  ASSUME Ownership, UNCHANGED vars
  PROVE  Ownership' /\ UNCHANGED fh
<1>1. /\ UNCHANGED <<halVars, vq, poolVars, cbdata, wire, nfs, openVars, srvOpens, lost,
                     hostVars>>
      /\ UNCHANGED <<in_use, seqid, srvSeq, fh>>
  BY DEF vars, slotVars, inodeVars, serverVars
<1>2. /\ fh \in [Files -> {"absent", "none", "len", "set"}]
      /\ in_use \in [Threads -> [Slots -> BOOLEAN]]
      /\ seqid \in [Threads -> [Slots -> Nat]] /\ srvSeq \in [Threads -> [Slots -> Nat]]
  BY DEF Ownership, Owned, TypeOK
<1>. QED
  BY <1>1, <1>2, HandshakeOwns

(* The connection of a running callback exists. *)
LEMMA CurrentConnection ==
  ASSUME BootTypeOK, stage # "booted"
  PROVE  conn_cntr \in Threads /\ conn_cntr \in 0 .. NThreads /\ conn_cntr < NThreads
  BY BootAssumption DEF BootTypeOK

-----------------------------------------------------------------------------
(* Every step of the handshake preserves the invariant *)

(* A step from stage s to the next one stays at the connection, which it   *)
(* may mark to be closed.                                                  *)
GoesOn(s, next) ==
  /\ stage = s /\ stage' = next
  /\ \/ UNCHANGED conn_state
     \/ conn_state' = [conn_state EXCEPT ![conn_cntr] = "SHOULD_CLOSE"]
  /\ UNCHANGED <<conn_cntr, crashed>>

(* A step within one connection keeps the connections as they are. *)
LEMMA StaysAtConnection ==
  ASSUME BootSound, Ownership', NEW s, NEW next, GoesOn(s, next),
         s # "booted", next \in Stages,
         bootSlot' \in 0 .. NSlots, bootSeq' \in Nat,
         UNCHANGED session \/ session' = [session EXCEPT ![conn_cntr] = TRUE],
         InTable(Root) => InTable(Root)',
         next \in WithSlot => bootSlot' \in Slots,
         next \in WithSession => session'[conn_cntr],
         next \in WithRoot => InTable(Root)'
  PROVE  BootSound'
<1>1. conn_cntr \in Threads /\ conn_cntr \in 0 .. NThreads /\ conn_cntr < NThreads
  BY CurrentConnection DEF BootSound, GoesOn
<1>2. session' \in [Threads -> BOOLEAN] /\ \A t \in Threads : session[t] => session'[t]
  BY <1>1 DEF BootSound, BootTypeOK
<1>3. /\ conn_state' \in [Threads -> ConnStates]
      /\ \A t \in Threads : t # conn_cntr => conn_state'[t] = conn_state[t]
      /\ conn_state[conn_cntr] # "ESTABLISHED" => conn_state'[conn_cntr] # "ESTABLISHED"
  BY <1>1 DEF BootSound, BootTypeOK, GoesOn, ConnStates
<1>4. BootTypeOK'
  BY <1>1, <1>2, <1>3 DEF BootSound, BootTypeOK, GoesOn, Ownership, Owned
<1>5. Made'
  BY DEF Made, GoesOn
<1>6. UpTo'
  BY <1>1, <1>2, <1>3 DEF BootSound, UpTo, GoesOn
<1>. QED
  BY <1>4, <1>5, <1>6 DEF BootSound

(* EXCHANGE_ID and CREATE_SESSION make nothing the model keeps. *)
LEMMA ConnectStep ==
  ASSUME BootSound, vnfs_init_connections \/ exchangeid_cb \/ create_session_cb
  PROVE  BootSound'
<1>1. UNCHANGED <<vars, conn_cntr, bootSlot, bootSeq, session, crashed>>
  BY DEF vnfs_init_connections, exchangeid_cb, create_session_cb
<1>2. Ownership' /\ UNCHANGED fh
  BY <1>1, HandshakeOnly DEF BootSound
<1>3. \E s \in {"start", "exchange", "create_session"},
         next \in {"exchange", "create_session", "calloc", "failed"} : GoesOn(s, next)
  BY <1>1 DEF vnfs_init_connections, exchangeid_cb, create_session_cb, OnService,
     vnfs_destroy_connection, GoesOn
<1>4. PICK s \in {"start", "exchange", "create_session"},
           next \in {"exchange", "create_session", "calloc", "failed"} : GoesOn(s, next)
  BY <1>3
<1>5. /\ next \in Stages /\ next \notin WithSlot /\ next \notin WithSession
      /\ next \notin WithRoot /\ s # "booted"
  BY DEF Stages, Waiting, WithSlot, WithSession, WithRoot
<1>6. bootSlot' \in 0 .. NSlots /\ bootSeq' \in Nat /\ (InTable(Root) => InTable(Root)')
  BY <1>1, <1>2 DEF BootSound, BootTypeOK, InTable
<1>. QED
  BY <1>1, <1>2, <1>4, <1>5, <1>6, StaysAtConnection

(* The slots of the session are allocated; a later connection is up with   *)
(* that, since the first one has inserted the root inode.                  *)
LEMMA AllocSlotsStep ==
  ASSUME BootSound, AllocSlots
  PROVE  BootSound'
<1> DEFINE next == IF conn_cntr = 0 THEN "scan_root" ELSE "up"
<1>1. /\ UNCHANGED <<vars, conn_cntr, conn_state, bootSeq, crashed>>
      /\ stage = "calloc" /\ bootSlot' = 0
      /\ session' = [session EXCEPT ![conn_cntr] = TRUE]
      /\ GoesOn("calloc", next)
  BY DEF AllocSlots, OnService, GoesOn
<1>2. Ownership' /\ UNCHANGED fh
  BY <1>1, HandshakeOnly DEF BootSound
<1>3. conn_cntr \in Threads /\ conn_cntr \in 0 .. NThreads
  BY <1>1, CurrentConnection DEF BootSound
<1>4. next = "up" => InTable(Root)'
  <2>1. conn_cntr # 0 => conn_cntr > 0
    BY <1>3, BootAssumption
  <2>. QED
    BY <1>2, <2>1 DEF BootSound, UpTo, InTable
<1>5. session'[conn_cntr]
  BY <1>1, <1>3 DEF BootSound, BootTypeOK
<1>6. next \in Stages /\ next \notin WithSlot /\ (next \in WithRoot => next = "up")
  BY DEF Stages, WithSlot, WithRoot
<1>7. bootSlot' \in 0 .. NSlots /\ bootSeq' \in Nat /\ (InTable(Root) => InTable(Root)')
  BY <1>1, <1>2, VnfsAssumption DEF BootSound, BootTypeOK, InTable
<1> HIDE DEF next
<1>. QED
  BY <1>1, <1>2, <1>4, <1>5, <1>6, <1>7, StaysAtConnection

(* vnfs4_op_sequence of the handshake scans within the slots. *)
LEMMA BootScanStep ==
  ASSUME BootSound, NEW scan, NEW claim, BootScan(scan, claim),
         \/ scan = "scan_root" /\ claim = "claim_root"
         \/ scan = "scan_reclaim" /\ claim = "claim_reclaim"
  PROVE  BootSound'
<1>1. /\ UNCHANGED <<vars, conn_cntr, conn_state, bootSeq, session, crashed>>
      /\ stage = scan
  BY DEF BootScan, OnService
<1>2. Ownership' /\ UNCHANGED fh
  BY <1>1, HandshakeOnly DEF BootSound
<1>3. /\ bootSlot \in 0 .. NSlots /\ bootSeq \in Nat /\ NSlots \in Nat
      /\ session[conn_cntr] /\ (claim = "claim_reclaim" => InTable(Root))
  BY <1>1, VnfsAssumption
  DEF BootSound, BootTypeOK, Made, WithSession, WithRoot
<1>4. PICK next \in {scan, claim} :
        /\ GoesOn(scan, next)
        /\ bootSlot' \in 0 .. NSlots
        /\ next = claim => bootSlot' \in Slots
  <2>0. scan # claim
    OBVIOUS
  <2>1. CASE bootSlot = NSlots
    <3>1. bootSlot' \in 0 .. NSlots /\ GoesOn(scan, scan)
      BY <1>1, <1>3, <2>1 DEF BootScan, GoesOn
    <3>. QED
      BY <2>0, <3>1
  <2>2. CASE bootSlot # NSlots /\ in_use[conn_cntr][bootSlot]
    <3>1. bootSlot' \in 0 .. NSlots /\ GoesOn(scan, scan)
      BY <1>1, <1>3, <2>2 DEF BootScan, GoesOn
    <3>. QED
      BY <2>0, <3>1
  <2>3. CASE bootSlot # NSlots /\ ~in_use[conn_cntr][bootSlot]
    <3>1. bootSlot \in Slots
      BY <1>3, <2>3 DEF Slots
    <3>. QED
      BY <1>1, <1>3, <2>3, <3>1 DEF BootScan, GoesOn
  <2>. QED
    BY <2>1, <2>2, <2>3
<1>5. /\ next \in Stages /\ scan # "booted"
      /\ next \in WithSlot => next = claim
      /\ next \in WithRoot => claim = "claim_reclaim"
  BY DEF Stages, WithSlot, WithRoot
<1>6. InTable(Root) => InTable(Root)'
  BY <1>2 DEF InTable
<1>. QED
  BY <1>1, <1>2, <1>3, <1>4, <1>5, <1>6, StaysAtConnection

(* The claimed slot is one of the session, free or not. *)
LEMMA BootClaimStep ==
  ASSUME BootSound, NEW claim, NEW send, BootClaim(claim, send),
         \/ claim = "claim_root" /\ send = "send_root"
         \/ claim = "claim_reclaim" /\ send = "send_reclaim"
  PROVE  BootSound'
<1>1. /\ stage = claim /\ GoesOn(claim, send)
      /\ UNCHANGED <<halVars, vq, poolVars, cbdata, seqid, wire, nfs, inodeVars, serverVars,
                     hostVars, bootSlot, session>>
      /\ in_use' = [in_use EXCEPT ![conn_cntr][bootSlot] = TRUE]
      /\ bootSeq' = seqid[conn_cntr][bootSlot] + 1
  BY DEF BootClaim, OnService, GoesOn
<1>2. /\ bootSlot \in Slots /\ bootSlot \in 0 .. NSlots /\ session[conn_cntr]
      /\ claim = "claim_reclaim" => InTable(Root)
  BY <1>1 DEF BootSound, BootTypeOK, Made, WithSlot, WithSession, WithRoot
<1>3. conn_cntr \in Threads
  BY <1>1, CurrentConnection DEF BootSound
<1>4. /\ fh \in [Files -> {"absent", "none", "len", "set"}]
      /\ in_use \in [Threads -> [Slots -> BOOLEAN]]
      /\ seqid \in [Threads -> [Slots -> Nat]] /\ srvSeq \in [Threads -> [Slots -> Nat]]
  BY DEF BootSound, Ownership, Owned, TypeOK
<1>5. in_use' \in [Threads -> [Slots -> BOOLEAN]] /\ bootSeq' \in Nat
  BY <1>1, <1>2, <1>3, <1>4
<1>6. UNCHANGED <<fh, openVars, srvSeq, srvOpens, lost, seqid>>
  BY <1>1 DEF inodeVars, serverVars
<1>7. Ownership'
  BY <1>1, <1>4, <1>5, <1>6, HandshakeOwns DEF BootSound
<1>8. send \in Stages /\ claim # "booted" /\ (send \in WithRoot => claim = "claim_reclaim")
  BY DEF Stages, WithRoot
<1>9. UNCHANGED conn_cntr /\ (InTable(Root) => InTable(Root)')
  BY <1>1, <1>6 DEF GoesOn, InTable
<1>. QED
  BY <1>1, <1>2, <1>5, <1>7, <1>8, <1>9, StaysAtConnection

(* The sequence id is stored before the compound is sent, or not sent. *)
LEMMA BootSendStep ==
  ASSUME BootSound, NEW send, NEW wait, BootSend(send, wait),
         \/ send = "send_root" /\ wait = "lookup_root"
         \/ send = "send_reclaim" /\ wait = "reclaim"
  PROVE  BootSound'
<1>1. /\ stage = send
      /\ UNCHANGED <<halVars, vq, poolVars, cbdata, in_use, wire, nfs, inodeVars, serverVars,
                     hostVars, conn_cntr, bootSlot, bootSeq, session>>
      /\ seqid' = [seqid EXCEPT ![conn_cntr][bootSlot] = bootSeq]
  BY DEF BootSend, OnService
<1>2. PICK next \in {wait, "failed"} : GoesOn(send, next)
  BY DEF BootSend, OnService, GoesOn, vnfs_destroy_connection
<1>3. /\ bootSlot \in Slots /\ bootSlot \in 0 .. NSlots /\ session[conn_cntr]
      /\ bootSeq \in Nat /\ (send = "send_reclaim" => InTable(Root))
  BY <1>1 DEF BootSound, BootTypeOK, Made, WithSlot, WithSession, WithRoot
<1>4. conn_cntr \in Threads
  BY <1>1, CurrentConnection DEF BootSound
<1>5. /\ fh \in [Files -> {"absent", "none", "len", "set"}]
      /\ in_use \in [Threads -> [Slots -> BOOLEAN]]
      /\ seqid \in [Threads -> [Slots -> Nat]] /\ srvSeq \in [Threads -> [Slots -> Nat]]
  BY DEF BootSound, Ownership, Owned, TypeOK
<1>6. seqid' \in [Threads -> [Slots -> Nat]]
  BY <1>1, <1>3, <1>4, <1>5
<1>7. UNCHANGED <<fh, openVars, srvSeq, srvOpens, lost>>
  BY <1>1 DEF inodeVars, serverVars
<1>8. Ownership'
  BY <1>1, <1>5, <1>6, <1>7, HandshakeOwns DEF BootSound
<1>9. next \in Stages /\ send # "booted" /\ (next \in WithRoot => send = "send_reclaim")
  BY DEF Stages, Waiting, WithRoot
<1>10. InTable(Root) => InTable(Root)'
  BY <1>7 DEF InTable
<1>. QED
  BY <1>1, <1>2, <1>3, <1>8, <1>9, <1>10, StaysAtConnection

(* A reply of the handshake frees its slot, whoever else uses it, or is an *)
(* error that keeps it.                                                    *)
LEMMA BootReplyStep ==
  ASSUME BootSound, NEW wait, NEW then, BootReply(wait, then),
         \/ wait = "lookup_root" /\ then = "insert_root"
         \/ wait = "reclaim" /\ then = "up"
  PROVE  BootSound'
<1>1. /\ stage = wait /\ bootSlot' = 0
      /\ UNCHANGED <<halVars, vq, poolVars, cbdata, seqid, wire, nfs, inodeVars, srvOpens,
                     lost, hostVars, conn_cntr, bootSeq, session>>
      /\ UNCHANGED in_use \/ in_use' = [in_use EXCEPT ![conn_cntr][bootSlot] = FALSE]
      /\ UNCHANGED srvSeq \/ srvSeq' = [srvSeq EXCEPT ![conn_cntr][bootSlot] = bootSeq]
  BY DEF BootReply, OnService
<1>2. PICK next \in {then, "failed"} : GoesOn(wait, next)
  BY DEF BootReply, OnService, GoesOn, vnfs_destroy_connection
<1>3. /\ bootSlot \in Slots /\ session[conn_cntr]
      /\ bootSeq \in Nat /\ (wait = "reclaim" => InTable(Root))
  BY <1>1 DEF BootSound, BootTypeOK, Made, WithSlot, WithSession, WithRoot
<1>4. conn_cntr \in Threads
  BY <1>1, CurrentConnection DEF BootSound
<1>5. /\ fh \in [Files -> {"absent", "none", "len", "set"}]
      /\ in_use \in [Threads -> [Slots -> BOOLEAN]]
      /\ seqid \in [Threads -> [Slots -> Nat]] /\ srvSeq \in [Threads -> [Slots -> Nat]]
  BY DEF BootSound, Ownership, Owned, TypeOK
<1>6. in_use' \in [Threads -> [Slots -> BOOLEAN]]
  <2>1. CASE UNCHANGED in_use
    BY <2>1, <1>5
  <2>2. CASE in_use' = [in_use EXCEPT ![conn_cntr][bootSlot] = FALSE]
    BY <2>2, <1>3, <1>4, <1>5
  <2>. QED
    BY <1>1, <2>1, <2>2
<1>7. srvSeq' \in [Threads -> [Slots -> Nat]]
  <2>1. CASE UNCHANGED srvSeq
    BY <2>1, <1>5
  <2>2. CASE srvSeq' = [srvSeq EXCEPT ![conn_cntr][bootSlot] = bootSeq]
    BY <2>2, <1>3, <1>4, <1>5
  <2>. QED
    BY <1>1, <2>1, <2>2
<1>8. UNCHANGED <<fh, openVars>>
  BY <1>1 DEF inodeVars
<1>9. Ownership'
  BY <1>1, <1>5, <1>6, <1>7, <1>8, HandshakeOwns DEF BootSound
<1>10. /\ next \in Stages /\ wait # "booted" /\ next \notin WithSlot
       /\ next \in WithRoot => wait = "reclaim"
  BY DEF Stages, WithSlot, WithRoot
<1>11. (InTable(Root) => InTable(Root)') /\ bootSlot' \in 0 .. NSlots
  BY <1>1, <1>8, VnfsAssumption DEF InTable
<1>. QED
  BY <1>1, <1>2, <1>3, <1>9, <1>10, <1>11, StaysAtConnection

(* The root inode gets into the table with its file handle. *)
LEMMA InsertRootStep ==
  ASSUME BootSound, InsertRoot
  PROVE  BootSound'
<1>1. /\ stage = "insert_root" /\ GoesOn("insert_root", "scan_reclaim")
      /\ UNCHANGED <<halVars, vq, poolVars, cbdata, in_use, seqid, wire, nfs, openVars, srvSeq,
                     srvOpens, lost, hostVars, conn_cntr, bootSlot, bootSeq, session>>
      /\ fh' = [fh EXCEPT ![Root] = "set"]
  BY DEF InsertRoot, OnService, GoesOn, slotVars, serverVars
<1>2. /\ fh \in [Files -> {"absent", "none", "len", "set"}]
      /\ in_use \in [Threads -> [Slots -> BOOLEAN]]
      /\ seqid \in [Threads -> [Slots -> Nat]] /\ srvSeq \in [Threads -> [Slots -> Nat]]
  BY DEF BootSound, Ownership, Owned, TypeOK
<1>3. /\ fh' \in [Files -> {"absent", "none", "len", "set"}]
      /\ \A f \in Files : fh'[f] \in {fh[f], "set"}
  BY <1>1, <1>2
<1>4. Ownership'
  BY <1>1, <1>2, <1>3, HandshakeOwns DEF BootSound
<1>5. InTable(Root)'
  BY <1>1, <1>2, VnfsAssumption DEF InTable
<1>6. "scan_reclaim" \in Stages /\ "scan_reclaim" \notin WithSlot
  BY DEF Stages, WithSlot
<1>7. bootSlot' \in 0 .. NSlots /\ bootSeq' \in Nat /\ session'[conn_cntr]
  BY <1>1 DEF BootSound, BootTypeOK, Made, WithSession
<1>. QED
  BY <1>1, <1>4, <1>5, <1>6, <1>7, StaysAtConnection

(* A connection comes up last of all those before it, with its session and *)
(* with the root inode in the table.                                       *)
LEMMA ConnUpStep ==
  ASSUME BootSound, vnfs_conn_up
  PROVE  BootSound'
<1>1. /\ stage = "up" /\ conn_cntr' = conn_cntr + 1
      /\ conn_state' = [conn_state EXCEPT ![conn_cntr] = "ESTABLISHED"]
      /\ stage' = IF conn_cntr + 1 < NThreads THEN "start" ELSE "booted"
      /\ UNCHANGED <<vars, bootSlot, bootSeq, session, crashed>>
  BY DEF vnfs_conn_up, OnService
<1>2. Ownership' /\ UNCHANGED fh
  BY <1>1, HandshakeOnly DEF BootSound
<1>3. conn_cntr \in Threads /\ conn_cntr \in 0 .. NThreads /\ conn_cntr < NThreads
  BY <1>1, CurrentConnection DEF BootSound
<1>4. /\ NThreads \in Nat /\ \A t \in Threads : t \in Nat
      /\ session[conn_cntr] /\ InTable(Root)
  BY <1>1, BootAssumption DEF BootSound, Made, WithSession, WithRoot
<1>5. /\ conn_state' \in [Threads -> ConnStates] /\ conn_state'[conn_cntr] = "ESTABLISHED"
      /\ \A t \in Threads : t # conn_cntr => conn_state'[t] = conn_state[t]
  BY <1>1, <1>3 DEF BootSound, BootTypeOK, ConnStates
<1>6. BootTypeOK'
  BY <1>1, <1>2, <1>3, <1>4, <1>5 DEF BootSound, BootTypeOK, Stages, Ownership, Owned
<1>7. Made'
  BY <1>1 DEF Made, WithSlot, WithSession, WithRoot
<1>8. UpTo'
  BY <1>1, <1>2, <1>3, <1>4, <1>5 DEF BootSound, UpTo, InTable
<1>. QED
  BY <1>2, <1>6, <1>7, <1>8 DEF BootSound

(* Every step of the handshake preserves the invariant. *)
LEMMA HandshakeStep ==
  ASSUME BootSound, Handshake
  PROVE  BootSound'
<1>1. CASE lookup_true_rootfh
  BY <1>1, BootScanStep, BootClaimStep, BootSendStep DEF lookup_true_rootfh
<1>2. CASE lookup_true_rootfh_cb
  BY <1>2, BootReplyStep, InsertRootStep DEF lookup_true_rootfh_cb
<1>3. CASE reclaim_complete
  BY <1>3, BootScanStep, BootClaimStep, BootSendStep DEF reclaim_complete
<1>4. CASE reclaim_complete_cb
  BY <1>4, BootReplyStep DEF reclaim_complete_cb
<1>. QED
  BY <1>1, <1>2, <1>3, <1>4, ConnectStep, AllocSlotsStep, ConnUpStep DEF Handshake

-----------------------------------------------------------------------------
(* The requests of the host, and the crash *)

(* What leaves the handshake alone and keeps the root inode preserves its  *)
(* progress.                                                               *)
LEMMA ProgressKept ==
  ASSUME BootSound, Ownership', InTable(Root) => InTable(Root)', crashed' \in BOOLEAN,
         UNCHANGED <<conn_cntr, stage, conn_state, bootSlot, bootSeq, session>>
  PROVE  BootSound'
<1>1. BootTypeOK'
  BY DEF BootSound, BootTypeOK, Ownership, Owned
<1>2. Made' /\ UpTo'
  BY DEF BootSound, Made, UpTo
<1>. QED
  BY <1>1, <1>2 DEF BootSound

(* A request that is handled while the connections come up disturbs        *)
(* neither who holds what nor the handshake.                               *)
LEMMA RequestStepKeeps ==
  ASSUME BootSound, PoolsIntact, RequestStep
  PROVE  BootSound'
<1>1. Next /\ UNCHANGED bootVars
  BY DEF RequestStep, Next
<1>2. Ownership'
  BY <1>1, NextStep DEF BootSound
<1>3. InTable(Root) => InTable(Root)'
  BY <1>1, FhKept, VnfsAssumption DEF BootSound, Ownership, Owned, InTable
<1>4. /\ UNCHANGED <<conn_cntr, stage, conn_state, bootSlot, bootSeq, session>>
      /\ crashed' \in BOOLEAN
  BY <1>1 DEF bootVars, BootSound, BootTypeOK
<1>. QED
  BY <1>2, <1>3, <1>4, ProgressKept

(* A crash and a stuttering step leave everything as it was. *)
LEMMA CrashKeeps ==
  ASSUME BootSound, Crash \/ UNCHANGED allVars
  PROVE  BootSound'
<1>1. /\ UNCHANGED <<vars, conn_cntr, stage, conn_state, bootSlot, bootSeq, session>>
      /\ crashed' \in BOOLEAN
  BY DEF Crash, allVars, bootVars, BootSound, BootTypeOK
<1>2. Ownership' /\ UNCHANGED fh
  BY <1>1, HandshakeOnly DEF BootSound
<1>. QED
  BY <1>1, <1>2, ProgressKept DEF InTable

(* The handshake frees no cb_data. *)
LEMMA HandshakeTorn ==
  ASSUME Handshake
  PROVE  UNCHANGED <<handler, completions, torn>>
  BY DEF Handshake, vnfs_init_connections, exchangeid_cb, create_session_cb,
     AllocSlots, lookup_true_rootfh, lookup_true_rootfh_cb, reclaim_complete,
     reclaim_complete_cb, BootScan, BootClaim, BootSend, BootReply, InsertRoot,
     vnfs_conn_up, vars, halVars, poolVars

(* The inductive invariant holds from the start of dpfs_nfs on, whatever   *)
(* the host asks for before its connections are up.                        *)
THEOREM BootInvariance == BootSpec => []BootIInv
<1>1. BootInit => BootIInv
  <2> SUFFICES ASSUME BootInit PROVE BootSound
    BY DEF BootIInv
  <2> DEFINE handle == [f \in Files |-> "absent"]
  <2>1. handle \in [Files -> {"absent", "none", "len", "set"}]
    OBVIOUS
  <2>2. InitWith(handle)
    BY DEF BootInit
  <2> HIDE DEF handle
  <2>3. Ownership
    BY <2>1, <2>2, HoldingInit
  <2>4. BootTypeOK
    <3>1. /\ conn_cntr = 0 /\ stage = "start" /\ bootSlot = 0 /\ bootSeq = 0
          /\ conn_state = [t \in Threads |-> "UNINIT"]
          /\ session = [t \in Threads |-> FALSE] /\ crashed = FALSE
      BY DEF BootInit
    <3>2. conn_cntr \in 0 .. NThreads /\ conn_cntr < NThreads
      BY <3>1, BootAssumption
    <3>3. bootSlot \in 0 .. NSlots /\ bootSeq \in Nat
      BY <3>1, VnfsAssumption
    <3>4. conn_state \in [Threads -> ConnStates] /\ session \in [Threads -> BOOLEAN]
      BY <3>1 DEF ConnStates
    <3>. QED
      BY <2>3, <3>1, <3>2, <3>3, <3>4 DEF BootTypeOK, Stages, Ownership, Owned
  <2>5. Made
    BY DEF BootInit, Made, WithSlot, WithSession, WithRoot
  <2>6. UpTo
    BY BootAssumption DEF BootInit, UpTo
  <2>. QED
    BY <2>3, <2>4, <2>5, <2>6 DEF BootSound
<1>2. BootIInv /\ [BootNext]_allVars => BootIInv'
  <2> SUFFICES ASSUME BootIInv, [BootNext]_allVars, PoolsIntact'
               PROVE  BootSound'
    BY DEF BootIInv
  <2>1. CASE RequestStep
    <3>1. Next
      BY <2>1 DEF RequestStep, Next
    <3>2. PoolsIntact
      BY <3>1, TornStays DEF PoolsIntact
    <3>. QED
      BY <2>1, <3>2, RequestStepKeeps DEF BootIInv
  <2>2. CASE Handshake
    BY <2>2, HandshakeStep, HandshakeTorn DEF BootIInv, PoolsIntact
  <2>3. CASE Crash \/ UNCHANGED allVars
    <3>1. PoolsIntact
      BY <2>3 DEF Crash, allVars, vars, poolVars, PoolsIntact
    <3>. QED
      BY <2>3, <3>1, CrashKeeps DEF BootIInv
  <2>. QED
    BY <2>1, <2>2, <2>3 DEF BootNext
<1>. QED
  BY <1>1, <1>2, PTL DEF BootSpec

-----------------------------------------------------------------------------
(* What the run checks, for any number of connections and requests *)

(* The types hold: the handshake never indexes a connection that does not  *)
(* exist (vnfs->conn_cntr), nor a slot the session does not have.          *)
THEOREM BootTypeCorrect == BootSpec => [](PoolsIntact => BootTypeOK)
<1>1. BootIInv => (PoolsIntact => BootTypeOK)
  BY DEF BootIInv, BootSound
<1>. QED
  BY <1>1, BootInvariance, PTL

(* A connection is ESTABLISHED only with a session and the root inode, and *)
(* after all the connections before it.                                    *)
THEOREM ConnectionsEstablishedInOrder == BootSpec => [](PoolsIntact => EstablishedInOrder)
<1>1. BootIInv => (PoolsIntact => EstablishedInOrder)
  <2> SUFFICES ASSUME BootSound, NEW t \in Threads, conn_state[t] = "ESTABLISHED"
               PROVE  /\ session[t] /\ InTable(Root)
                      /\ \A u \in 0 .. t : conn_state[u] = "ESTABLISHED"
    BY DEF BootIInv, EstablishedInOrder
  <2>1. t \in 0 .. NThreads - 1 /\ conn_cntr \in 0 .. NThreads /\ NThreads \in Nat
    BY BootAssumption DEF BootSound, BootTypeOK
  <2>2. t < conn_cntr
    BY <2>1 DEF BootSound, UpTo
  <2>3. \A u \in 0 .. t : u \in Threads /\ u < conn_cntr
    BY <2>1, <2>2, BootAssumption
  <2>. QED
    BY <2>1, <2>2, <2>3 DEF BootSound, UpTo
<1>. QED
  BY <1>1, BootInvariance, PTL

(* A cb_data chunk has one owner from the first request on, though the     *)
(* handshake may take the slot of the request that owns it.                *)
THEOREM BootCbDataIsExclusive == BootSpec => []CbDataExclusive
<1>1. BootIInv => CbDataExclusive
  BY ChunksAreExclusive DEF BootIInv, BootSound, Ownership, CbDataExclusive
<1>. QED
  BY <1>1, BootInvariance, PTL

(* dpfs_nfs keeps the contract of the HAL from the start on: no request    *)
(* that comes in before the connections are up, is both handled and        *)
(* completed, or completed twice.                                          *)
THEOREM BootKeepsHalContract == BootSpec => HalSpec
<1>1. BootInit => Hal!Init
  BY DEF BootInit, InitWith, Hal!Init
<1>2. BootIInv /\ [BootNext]_allVars => [PoolsIntact => Hal!Next]_halVars
  <2>1. ASSUME BootIInv, RequestStep, PoolsIntact PROVE Hal!Next \/ UNCHANGED halVars
    <3>1. Next
      BY <2>1 DEF RequestStep, Next
    <3>. QED
      BY <2>1, <3>1, HalStep DEF BootIInv, BootSound, Ownership, halVars
  <2>2. ASSUME Handshake PROVE UNCHANGED halVars
    BY <2>2, HandshakeTorn DEF halVars
  <2>3. Crash \/ UNCHANGED allVars => UNCHANGED halVars
    BY DEF Crash, allVars, vars
  <2>. QED
    BY <2>1, <2>2, <2>3 DEF BootNext
<1>. QED
  BY <1>1, <1>2, BootInvariance, PTL DEF BootSpec, HalSpec
=============================================================================
