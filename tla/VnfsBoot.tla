------------------------------ MODULE VnfsBoot ------------------------------
(***************************************************************************)
(* The start of dpfs_nfs: the handshake of vnfs_connect.c, connection by   *)
(* connection, while the host may already send requests (init of           *)
(* dpfs_nfs.c answers FUSE_INIT without waiting for it).                   *)
(*                                                                         *)
(* The handshake is one chain of callbacks over all connections, driven by *)
(* vnfs->conn_cntr.  Its callbacks run on the service thread of the        *)
(* connection they belong to, and two of its compounds, LOOKUP of the      *)
(* export and RECLAIM_COMPLETE, take a slot with vnfs4_op_sequence just as *)
(* the request handlers of the poller do.                                  *)
(***************************************************************************)
EXTENDS Vnfs

CONSTANT NThreads

ASSUME BootAssumption == NThreads \in Nat \ {0} /\ Threads = 0 .. NThreads - 1

VARIABLES conn_cntr,       \* the connection the handshake is at
          stage,           \* where the handshake is
          conn_state,      \* struct vnfs_conn.state
          bootSlot,        \* scan index, then slot of the handshake compound
          bootSeq,         \* its sequence id
          session,         \* conn->session.slots is allocated
          crashed          \* the process died

bootVars == <<conn_cntr, stage, conn_state, bootSlot, bootSeq, session, crashed>>
allVars  == <<vars, bootVars>>

(* Waiting for a reply, or over. *)
Waiting == {"exchange", "create_session", "lookup_root", "reclaim"}
Stages  == Waiting \cup {"start", "calloc", "scan_root", "claim_root",
                         "send_root", "insert_root", "scan_reclaim",
                         "claim_reclaim", "send_reclaim", "up", "booted",
                         "failed"}

ConnStates == {"UNINIT", "ESTABLISHED", "SHOULD_CLOSE"}

BootTypeOK == /\ TypeOK
              /\ conn_cntr \in 0 .. NThreads
              /\ conn_cntr < NThreads \/ stage = "booted"
              /\ stage \in Stages
              /\ conn_state \in [Threads -> ConnStates]
              /\ bootSlot \in 0 .. NSlots /\ bootSeq \in Nat
              /\ session \in [Threads -> BOOLEAN]
              /\ crashed \in BOOLEAN

BootInit == /\ InitWith([f \in Files |-> "absent"])
            /\ conn_cntr = 0
            /\ stage = "start"
            /\ conn_state = [t \in Threads |-> "UNINIT"]
            /\ bootSlot = 0 /\ bootSeq = 0
            /\ session = [t \in Threads |-> FALSE]
            /\ crashed = FALSE

-----------------------------------------------------------------------------
(* The service thread of the connection is free to run a callback. *)
OnService(s) == /\ stage = s
                /\ ~crashed
                /\ nfs[conn_cntr].pc = "idle"

(* A failed step ends in vnfs_destroy_connection, which does nothing. *)
vnfs_destroy_connection == /\ stage' = "failed"
                           /\ UNCHANGED conn_state

(* Context, mount and service thread; then EXCHANGE_ID is sent. *)
vnfs_init_connections ==
  /\ stage = "start" /\ ~crashed
  /\ \/ stage' = "exchange" /\ UNCHANGED conn_state
     \/ /\ stage' = "failed"
        /\ conn_state' = [conn_state EXCEPT ![conn_cntr] = "SHOULD_CLOSE"]
     \/ vnfs_destroy_connection
  /\ UNCHANGED <<vars, conn_cntr, bootSlot, bootSeq, session, crashed>>

(* The first connection stores the server's identity, the others compare   *)
(* with it; then CREATE_SESSION is sent.                                   *)
exchangeid_cb ==
  /\ OnService("exchange")
  /\ \/ stage' = "create_session" /\ UNCHANGED conn_state
     \/ vnfs_destroy_connection
  /\ UNCHANGED <<vars, conn_cntr, bootSlot, bootSeq, session, crashed>>

(* nslots is set before slots is allocated. *)
create_session_cb ==
  /\ OnService("create_session")
  /\ \/ stage' = "calloc" /\ UNCHANGED conn_state
     \/ vnfs_destroy_connection
  /\ UNCHANGED <<vars, conn_cntr, bootSlot, bootSeq, session, crashed>>

(* Mutant: every connection takes the path of the later ones. *)
AllocSlotsNoRoot ==
  /\ OnService("calloc")
  /\ session' = [session EXCEPT ![conn_cntr] = TRUE]
  /\ stage' = "up"
  /\ bootSlot' = 0
  /\ UNCHANGED <<vars, conn_cntr, conn_state, bootSeq, crashed>>

AllocSlots ==
  /\ OnService("calloc")
  /\ session' = [session EXCEPT ![conn_cntr] = TRUE]
  /\ stage' = IF conn_cntr = 0 THEN "scan_root" ELSE "up"
  /\ bootSlot' = 0
  /\ UNCHANGED <<vars, conn_cntr, conn_state, bootSeq, crashed>>

(* vnfs4_op_sequence on the service thread, for either compound. *)
BootScan(scan, claim) ==
  /\ OnService(scan)
  /\ IF bootSlot = NSlots THEN bootSlot' = 0 /\ UNCHANGED stage
     ELSE IF in_use[conn_cntr][bootSlot]
     THEN bootSlot' = bootSlot + 1 /\ UNCHANGED stage
     ELSE stage' = claim /\ UNCHANGED bootSlot
  /\ UNCHANGED <<vars, conn_cntr, conn_state, bootSeq, session, crashed>>

BootClaim(claim, send) ==
  /\ OnService(claim)
  /\ in_use' = [in_use EXCEPT ![conn_cntr][bootSlot] = TRUE]
  /\ bootSeq' = seqid[conn_cntr][bootSlot] + 1
  /\ stage' = send
  /\ UNCHANGED <<halVars, vq, poolVars, cbdata, seqid, wire, nfs, inodeVars,
                 serverVars, hostVars, conn_cntr, conn_state, bootSlot,
                 session, crashed>>

BootSend(send, next) ==
  /\ OnService(send)
  /\ seqid' = [seqid EXCEPT ![conn_cntr][bootSlot] = bootSeq]
  /\ \/ stage' = next /\ UNCHANGED conn_state
     \/ vnfs_destroy_connection                       \* not sent
  /\ UNCHANGED <<halVars, vq, poolVars, cbdata, in_use, wire, nfs, inodeVars,
                 serverVars, hostVars, conn_cntr, bootSlot, bootSeq, session,
                 crashed>>

lookup_true_rootfh == \/ BootScan("scan_root", "claim_root")
                      \/ BootClaim("claim_root", "send_root")
                      \/ BootSend("send_root", "lookup_root")

reclaim_complete == \/ BootScan("scan_reclaim", "claim_reclaim")
                    \/ BootClaim("claim_reclaim", "send_reclaim")
                    \/ BootSend("send_reclaim", "reclaim")

(* The server executes a compound of the handshake that is in order.  Any  *)
(* error, of a compound that was executed or not, returns before           *)
(* vnfs4_handle_sequence and so keeps the slot.                            *)
BootReply(s, next) ==
  LET executed == /\ bootSeq = srvSeq[conn_cntr][bootSlot] + 1
                  /\ srvSeq' = [srvSeq EXCEPT ![conn_cntr][bootSlot] = bootSeq]
  IN /\ OnService(s)
     /\ \/ /\ executed
           /\ in_use' = [in_use EXCEPT ![conn_cntr][bootSlot] = FALSE]
           /\ stage' = next /\ UNCHANGED conn_state
        \/ /\ executed \/ UNCHANGED srvSeq
           /\ vnfs_destroy_connection
           /\ UNCHANGED in_use
     /\ bootSlot' = 0
     /\ UNCHANGED <<halVars, vq, poolVars, cbdata, seqid, wire, nfs, inodeVars,
                    srvOpens, lost, hostVars, conn_cntr, bootSeq, session,
                    crashed>>

InsertRoot ==
  /\ OnService("insert_root")
  /\ fh' = [fh EXCEPT ![Root] = "set"]
  /\ stage' = "scan_reclaim"
  /\ UNCHANGED <<halVars, vq, poolVars, cbdata, slotVars, wire, nfs, openVars,
                 serverVars, hostVars, conn_cntr, conn_state, bootSlot,
                 bootSeq, session, crashed>>

lookup_true_rootfh_cb == BootReply("lookup_root", "insert_root") \/ InsertRoot
reclaim_complete_cb   == BootReply("reclaim", "up")

(* Mutant: one connection too many is started. *)
vnfs_conn_upTooMany ==
  /\ OnService("up")
  /\ conn_state' = [conn_state EXCEPT ![conn_cntr] = "ESTABLISHED"]
  /\ conn_cntr' = conn_cntr + 1
  /\ stage' = IF conn_cntr < NThreads THEN "start" ELSE "booted"
  /\ UNCHANGED <<vars, bootSlot, bootSeq, session, crashed>>

vnfs_conn_up ==
  /\ OnService("up")
  /\ conn_state' = [conn_state EXCEPT ![conn_cntr] = "ESTABLISHED"]
  /\ conn_cntr' = conn_cntr + 1
  /\ stage' = IF conn_cntr + 1 < NThreads THEN "start" ELSE "booted"
  /\ UNCHANGED <<vars, bootSlot, bootSeq, session, crashed>>

Handshake ==
  \/ vnfs_init_connections \/ exchangeid_cb \/ create_session_cb
  \/ AllocSlots \/ lookup_true_rootfh \/ lookup_true_rootfh_cb
  \/ reclaim_complete \/ reclaim_complete_cb \/ vnfs_conn_up

-----------------------------------------------------------------------------
(* The requests of the host, once dpfs_nfs_main has entered the loop. *)

(* The service thread whose callback of the handshake is running. *)
Busy(t) == /\ stage \notin Waiting \cup {"booted", "failed"}
           /\ \/ t = conn_cntr /\ stage # "start"
              \/ t + 1 = conn_cntr /\ stage = "start"

(* A poller that scans zero slots spins; one that has nslots but no slots  *)
(* yet, and a statfs without a root inode, dereference NULL.               *)
NullDeref(t) == \/ vq[t].pc = "scan" /\ t = conn_cntr /\ stage = "calloc"
                \/ vq[t].pc = "send" /\ vq[t].op = "statfs" /\ ~InTable(Root)

Crash == /\ ~crashed
         /\ \E t \in Threads : NullDeref(t)
         /\ crashed' = TRUE
         /\ UNCHANGED <<vars, conn_cntr, stage, conn_state, bootSlot, bootSeq,
                        session>>

RequestStep ==
  /\ ~crashed
  /\ conn_cntr = 0 => stage # "start"
  /\ \/ \E t \in Threads : Virtio(t) /\ (vq[t].pc = "scan" => session[t])
     \/ \E t \in Threads : Service(t) /\ ~Busy(t)
     \/ \E r \in Requests : Serve(r) \/ RpcFail(r)
  /\ UNCHANGED bootVars

BootNext == Handshake \/ RequestStep \/ Crash

BootSpec == BootInit /\ [][BootNext]_allVars

-----------------------------------------------------------------------------
(* Properties *)

(* A connection is ESTABLISHED only with a session, with the root inode in *)
(* the table and after all the connections before it (vnfs_conn_up).       *)
EstablishedInOrder ==
  \A t \in Threads :
    conn_state[t] = "ESTABLISHED" =>
      session[t] /\ InTable(Root) /\ \A u \in 0 .. t : conn_state[u] = "ESTABLISHED"

(* vnfs4_op_sequence is safe because only the Virtq thread claims slots:   *)
(* no request shares a slot with an outstanding compound of the handshake. *)
BootSlotExclusive ==
  stage \in {"lookup_root", "reclaim"} =>
    \A r \in Requests :
      Held(r) /\ wire[r].t = conn_cntr => wire[r].slot # bootSlot
=============================================================================
