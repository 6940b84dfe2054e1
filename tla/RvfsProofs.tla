----------------------------- MODULE RvfsProofs -----------------------------
(***************************************************************************)
(* Remote virtio-fs: unless one of its races is lost, every request gets   *)
(* its own response once, and a message carries one request, for any       *)
(* requests and any number of messages.  Without two_threads and mock      *)
(* devices, and with a remote file system that completes in its handler,   *)
(* none of the races exists.                                               *)
(***************************************************************************)
EXTENDS Rvfs, TLAPS

(* An RPC: the message of the DPU that carries it, and its request. *)
Entry == [msg : Msgs, req : Requests]

(* Where an RPC is between enqueue_request and response_func. *)
Taken == IF rloop.pc = "idle" THEN {} ELSE {rloop.req}
Working == {reqh[w.msg] : w \in {v \in work : v.pc = "respond"}}
Transit == wire \cup replies \cup Taken \cup Working

-----------------------------------------------------------------------------
(* The DPU. *)

HalRecords == [pc : {"idle", "pop", "enqueue", "context"}, req : Requests \cup {None},
               msg : Msgs \cup {None}, at : Nat]

DpuTypes ==
  /\ handler \in [Requests -> {"queued", "running", "deferred"}]
  /\ completions \in [Requests -> 0..1]
  /\ data \in [Requests -> Requests \cup {None}]
  /\ hal \in [HalThreads -> HalRecords]
  /\ loop \in [pc : {"idle", "push"}, req : {None}, msg : Msgs \cup {None}]
  /\ avail \in Seq(Msgs) /\ rd \in Nat /\ rd <= Len(avail) /\ nmsg \in 0..MaxMsgs
  /\ context \in [Msgs -> Requests \cup {None}]

(* The message and the request of a handler are its own; its RPC may be on the way already. *)
(* Before pop has stored the read index the message is still in the queue.                  *)
Hand(v) ==
  /\ v.req \in Requests /\ v.msg \in Msgs /\ v.msg <= nmsg
  /\ handler[v.req] = "running" /\ completions[v.req] = 0
  /\ v.pc = "pop" => v.at = rd /\ rd < Len(avail) /\ v.msg = avail[rd + 1]
  /\ v.pc # "pop" => v.msg \notin Available
  /\ loop.pc = "push" => loop.msg # v.msg
  /\ \A e \in Transit : /\ e.msg = v.msg <=> e.req = v.req
                        /\ e.req = v.req => v.pc = "context"

HalOK == \A h \in HalThreads : hal[h].pc # "idle" => Hand(hal[h])

(* Two handlers have different requests, and different messages once one has popped its own. *)
Apart(u, v) == u.req # v.req /\ (u.pc # "pop" \/ v.pc # "pop" => u.msg # v.msg)

HalsApart == \A g, h \in HalThreads :
  g # h /\ hal[g].pc # "idle" /\ hal[h].pc # "idle" => Apart(hal[g], hal[h])

MockOK == ~mock => hal["mock"].pc = "idle"

LoopOK == loop.pc = "push" => /\ loop.msg \in Msgs /\ loop.msg <= nmsg
                              /\ loop.msg \notin Available
                              /\ \A e \in Transit : e.msg # loop.msg

(* The thread that is about to store the context of a message. *)
Storing(m) == \E h \in HalThreads : hal[h].pc = "context" /\ hal[h].msg = m

TransitOK ==
  /\ \A e \in Transit : /\ e.msg <= nmsg /\ e.msg \notin Available
                        /\ handler[e.req] # "queued" /\ completions[e.req] = 0
                        /\ context[e.msg] = e.req \/ Storing(e.msg)
  /\ \A d, e \in Transit : d.msg = e.msg \/ d.req = e.req => d = e

Once(q, n) == \A i, j \in (n + 1)..Len(q) : q[i] = q[j] => i = j

AvailOK == Once(avail, rd) /\ \A m \in Available : m <= nmsg

AnswersOK == \A r \in Requests : /\ handler[r] = "queued" => completions[r] = 0
                                 /\ completions[r] = 1 => data[r] = r

DpuOK == /\ DpuTypes /\ HalOK /\ HalsApart /\ MockOK /\ LoopOK /\ TransitOK /\ AvailOK /\ AnswersOK
         /\ ~early /\ ~doubled

-----------------------------------------------------------------------------
(* The remote side. *)

Works == [msg : Msgs, pc : {"respond", "push", "grow"}, len : 0..MaxMsgs]

RemoteTypes ==
  /\ wire \subseteq Entry /\ replies \subseteq Entry
  /\ vec \in [Msgs -> Msgs \cup {None}] /\ len \in 0..MaxMsgs /\ nrmsg \in 0..MaxMsgs
  /\ reqh \in [Msgs -> Entry \cup {None}]
  /\ work \subseteq Works
  /\ rloop = AtRest \/ rloop \in [pc : {"pop", "handle"}, req : Entry, msg : Msgs, len : 0..MaxMsgs]

VecOK == /\ \A i \in 1..len : vec[i] \in Msgs /\ vec[i] <= nrmsg
         /\ \A i, j \in 1..len : vec[i] = vec[j] => i = j

WorkOK ==
  /\ \A w \in work : /\ w.msg <= nrmsg /\ \A i \in 1..len : vec[i] # w.msg
                     /\ w.pc = "grow" => w.len < MaxMsgs
                     /\ w.pc = "respond" => reqh[w.msg] \in Entry
                     /\ rloop.pc = "handle" => rloop.msg # w.msg
  /\ \A v, w \in work : v.msg = w.msg => v = w

RloopOK ==
  /\ rloop.pc = "pop" => rloop.len \in 1..len /\ vec[rloop.len] = rloop.msg
  /\ rloop.pc = "handle" => rloop.msg <= nrmsg /\ \A i \in 1..len : vec[i] # rloop.msg

(* An RPC is in one place. *)
PlacesOK ==
  /\ wire \cap replies = {} /\ Taken \cap (wire \cup replies) = {}
  /\ Working \cap (wire \cup replies \cup Taken) = {}
  /\ \A v, w \in work : v.pc = "respond" /\ w.pc = "respond" /\ reqh[v.msg] = reqh[w.msg] => v = w

(* A remote file system that completes in its handler needs one message. *)
SyncOK == ~remoteAsync => /\ work = {} /\ nrmsg <= 1
                          /\ len = IF rloop.pc = "handle" THEN 0 ELSE nrmsg

RemoteOK == RemoteTypes /\ VecOK /\ WorkOK /\ RloopOK /\ PlacesOK /\ SyncOK /\ ~torn

IInv == /\ twoThreads \in BOOLEAN /\ mock \in BOOLEAN /\ remoteAsync \in BOOLEAN
        /\ early \in BOOLEAN /\ doubled \in BOOLEAN /\ torn \in BOOLEAN
        /\ NoRace => DpuOK /\ RemoteOK

-----------------------------------------------------------------------------
(* The queue of messages up for reuse. *)

From(q, n) == {q[i] : i \in (n + 1)..Len(q)}

LEMMA AvailableIs == Available = From(avail, rd)
  BY DEF Available, From

LEMMA TakeNext ==
  ASSUME NEW q \in Seq(Msgs), NEW n \in Nat, n < Len(q)
  PROVE  /\ q[n + 1] \in Msgs /\ q[n + 1] \in From(q, n) /\ n + 1 \in Nat /\ n + 1 <= Len(q)
         /\ From(q, n + 1) \subseteq From(q, n)
         /\ Once(q, n) => q[n + 1] \notin From(q, n + 1) /\ Once(q, n + 1)
<1>1. Len(q) \in Nat /\ n + 1 \in (n + 1)..Len(q) /\ n + 1 \in 1..Len(q) /\ n + 1 \in Nat /\ n + 1 <= Len(q)
  OBVIOUS
<1>2. \A i \in ((n + 1) + 1)..Len(q) : i \in (n + 1)..Len(q) /\ i # n + 1
  BY <1>1
<1>3. q[n + 1] \in Msgs
  BY <1>1
<1>4. q[n + 1] \in From(q, n) /\ From(q, n + 1) \subseteq From(q, n)
  BY <1>1, <1>2 DEF From
<1>5. Once(q, n) => q[n + 1] \notin From(q, n + 1)
  BY <1>1, <1>2 DEF From, Once
<1>6. Once(q, n) => Once(q, n + 1)
  BY <1>2 DEF Once
<1>. QED
  BY <1>1, <1>3, <1>4, <1>5, <1>6

LEMMA PutMsg ==
  ASSUME NEW q \in Seq(Msgs), NEW n \in Nat, n <= Len(q), NEW m \in Msgs, m \notin From(q, n), Once(q, n)
  PROVE  /\ Append(q, m) \in Seq(Msgs) /\ From(Append(q, m), n) = From(q, n) \cup {m}
         /\ Once(Append(q, m), n) /\ n <= Len(Append(q, m)) /\ Len(q) < Len(Append(q, m))
         /\ n < Len(q) => n < Len(Append(q, m)) /\ Append(q, m)[n + 1] = q[n + 1]
<1>1. /\ Append(q, m) \in Seq(Msgs) /\ Len(q) \in Nat /\ Len(Append(q, m)) = Len(q) + 1
      /\ Append(q, m)[Len(q) + 1] = m /\ \A i \in 1..Len(q) : Append(q, m)[i] = q[i]
  OBVIOUS
<1>2. \A i \in (n + 1)..Len(q) : i \in 1..Len(q) /\ i \in (n + 1)..(Len(q) + 1)
  BY <1>1
<1>3. \A i \in (n + 1)..(Len(q) + 1) : i \in (n + 1)..Len(q) \/ i = Len(q) + 1
  BY <1>1
<1>4. Len(q) + 1 \in (n + 1)..(Len(q) + 1)
  BY <1>1
<1>5. \A i \in (n + 1)..Len(q) : Append(q, m)[i] = q[i] /\ q[i] # m
  BY <1>1, <1>2 DEF From
<1>6. From(Append(q, m), n) = From(q, n) \cup {m}
  BY <1>1, <1>2, <1>3, <1>4, <1>5 DEF From
<1>7. Once(Append(q, m), n)
  BY <1>1, <1>3, <1>5 DEF Once
<1>8. n <= Len(Append(q, m)) /\ Len(q) < Len(Append(q, m))
  BY <1>1
<1>9. n < Len(q) => n < Len(Append(q, m)) /\ n + 1 \in 1..Len(q)
  BY <1>1
<1>. QED
  BY <1>1, <1>6, <1>7, <1>8, <1>9

-----------------------------------------------------------------------------
LEMMA InitHolds == ASSUME Init PROVE IInv
<1>1. Transit = {} /\ Working = {} /\ Taken = {}
  BY DEF Init, Transit, Taken, Working, AtRest
<1>2. /\ avail = <<>> /\ rd = 0 /\ Len(avail) = 0 /\ avail \in Seq(Msgs)
      /\ rd \in Nat /\ rd <= Len(avail) /\ (rd + 1)..Len(avail) = {}
  BY DEF Init
<1>3. 0 \in 0..MaxMsgs /\ 1..0 = {}
  BY RvfsAssumption
<1>4. DpuOK
  <2>0. \A h \in HalThreads : hal[h].pc = "idle" /\ hal[h] \in HalRecords
    BY DEF Init, HalAtRest, HalRecords
  <2>1. DpuTypes
    <3>1. hal \in [HalThreads -> HalRecords]
      BY <2>0 DEF Init
    <3>. QED
      BY <1>2, <1>3, <3>1 DEF Init, DpuTypes, AtRest
  <2>2. HalOK /\ HalsApart /\ MockOK
    BY <2>0 DEF HalOK, HalsApart, MockOK, HalThreads
  <2>3. Available = {} /\ Once(avail, rd)
    BY <1>2 DEF Available, Once
  <2>4. LoopOK /\ TransitOK /\ AvailOK /\ AnswersOK
    BY <1>1, <2>3 DEF Init, LoopOK, TransitOK, AvailOK, AnswersOK, AtRest
  <2>. QED
    BY <2>1, <2>2, <2>4 DEF DpuOK, Init
<1>5. RemoteOK
  <2>1. RemoteTypes
    BY <1>3 DEF Init, RemoteTypes, AtRest
  <2>2. VecOK /\ WorkOK /\ RloopOK /\ PlacesOK /\ SyncOK
    BY <1>1, <1>3 DEF Init, VecOK, WorkOK, RloopOK, PlacesOK, SyncOK, AtRest
  <2>. QED
    BY <2>1, <2>2 DEF RemoteOK, Init
<1>. QED
  BY <1>4, <1>5 DEF IInv, Init

(* A race that was lost stays lost. *)
LEMMA RacesStay ==
  ASSUME IInv, [Next]_rvfsVars
  PROVE  /\ UNCHANGED <<twoThreads, mock, remoteAsync>>
         /\ early' \in BOOLEAN /\ doubled' \in BOOLEAN /\ torn' \in BOOLEAN
         /\ NoRace' => NoRace
<1>. DEFINE Grows(x, y) == x = y \/ x = TRUE \/ (x \in BOOLEAN /\ (y => x))
            Kept == /\ UNCHANGED <<twoThreads, mock, remoteAsync>>
                    /\ Grows(early', early) /\ Grows(doubled', doubled) /\ Grows(torn', torn)
<1>1. ASSUME NEW h \in HalThreads, NEW r \in Requests, Deliver(h, r) PROVE Kept
  BY <1>1 DEF Deliver, modes, remoteVars, races
<1>2. ASSUME NEW h \in HalThreads, EnqueueRequest(h) \/ StoreContext(h) PROVE Kept
  BY <1>2 DEF EnqueueRequest, StoreContext, modes, remoteVars, races
<1>3. ASSUME PushMsg PROVE Kept
  BY <1>3 DEF PushMsg, modes, remoteVars, races
<1>4. ASSUME NEW h \in HalThreads, PopMsg(h) PROVE Kept
  BY <1>4, Zenon DEF PopMsg, modes, remoteVars
<1>5. ASSUME NEW e \in replies, ResponseFunc(e) PROVE Kept
  BY <1>5, Zenon DEF ResponseFunc, modes, remoteVars
<1>6. ASSUME NEW e \in replies, ResponseNull(e) PROVE Kept
  BY <1>6 DEF ResponseNull, modes, remoteVars
<1>7. ASSUME NEW e \in wire, RemoteTake(e) PROVE Kept
  BY <1>7 DEF RemoteTake, modes, races
<1>8. ASSUME RemotePop PROVE Kept
  BY <1>8, Zenon DEF RemotePop, modes, races
<1>9. ASSUME RemoteHandle PROVE Kept
  BY <1>9 DEF RemoteHandle, modes, races
<1>10. ASSUME NEW e, Dies(e) PROVE Kept
  BY <1>10 DEF Dies, modes, races
<1>11. ASSUME NEW w \in work, RemoteRespond(w) \/ RemotePush(w) PROVE Kept
  BY <1>11 DEF RemoteRespond, RemotePush, modes, races
<1>12. ASSUME NEW w \in work, RemoteGrow(w) PROVE Kept
  BY <1>12, Zenon DEF RemoteGrow, modes, races
<1>13. ASSUME UNCHANGED rvfsVars PROVE Kept
  BY <1>13 DEF rvfsVars, remoteVars, modes, races
<1>14. Kept
  <2>. HIDE DEF Kept
  <2>. QED
    BY <1>1, <1>2, <1>3, <1>4, <1>5, <1>6, <1>7, <1>8, <1>9, <1>10, <1>11, <1>12, <1>13
       DEF Next, HalStep, LoopStep, RemoteStep, WorkStep, RemoteHandleDies, RemoteRespondDies
<1>15. early \in BOOLEAN /\ doubled \in BOOLEAN /\ torn \in BOOLEAN
  BY DEF IInv
<1>16. early' \in BOOLEAN /\ (early => early')
  BY <1>14, <1>15, Zenon
<1>17. doubled' \in BOOLEAN /\ (doubled => doubled')
  BY <1>14, <1>15, Zenon
<1>18. torn' \in BOOLEAN /\ (torn => torn')
  BY <1>14, <1>15, Zenon
<1>. QED
  BY <1>14, <1>16, <1>17, <1>18, Zenon DEF NoRace

(* What the DPU knows of the remote side is the RPCs in transit. *)
LEMMA DpuQuiet ==
  ASSUME DpuOK, UNCHANGED <<dpuVars, mock, races, Transit>>
  PROVE  DpuOK'
<1>1. UNCHANGED <<handler, completions, hal, avail, rd, nmsg, context, loop, data, early, doubled>>
  BY DEF dpuVars, races
<1>2. Available' = Available
  BY <1>1 DEF Available
<1>3. DpuTypes' /\ AvailOK' /\ AnswersOK' /\ HalsApart' /\ MockOK'
  BY <1>1, <1>2 DEF DpuOK, DpuTypes, AvailOK, AnswersOK, HalsApart, Apart, MockOK, Once
<1>4. HalOK'
  BY <1>1, <1>2 DEF DpuOK, HalOK, Hand
<1>5. LoopOK' /\ TransitOK'
  BY <1>1, <1>2 DEF DpuOK, LoopOK, TransitOK, Storing
<1>. QED
  BY <1>1, <1>3, <1>4, <1>5 DEF DpuOK

(* A step of the DPU puts an RPC on the wire or takes a reply, and leaves the rest. *)
LEMMA RemoteQuiet ==
  ASSUME RemoteOK, UNCHANGED <<remoteAsync, vec, len, nrmsg, reqh, rloop, work, torn>>,
         wire' \subseteq Entry, replies' \subseteq replies,
         \A e \in wire' : e \in wire \/ e \notin Transit
  PROVE  RemoteOK' /\ Taken' = Taken /\ Working' = Working
<1>1. Taken' = Taken /\ Working' = Working
  BY DEF Taken, Working
<1>2. RemoteTypes' /\ VecOK' /\ WorkOK' /\ RloopOK' /\ SyncOK'
  BY DEF RemoteOK, RemoteTypes, VecOK, WorkOK, RloopOK, SyncOK
<1>3. PlacesOK'
  BY <1>1 DEF RemoteOK, PlacesOK, Transit
<1>. QED
  BY <1>1, <1>2, <1>3 DEF RemoteOK

LEMMA TransitType == ASSUME RemoteOK PROVE Transit \subseteq Entry
<1>1. Taken \subseteq Entry
  BY DEF RemoteOK, RemoteTypes, Taken, AtRest
<1>2. Working \subseteq Entry
  BY DEF RemoteOK, WorkOK, Working
<1>. QED
  BY <1>1, <1>2 DEF RemoteOK, RemoteTypes, Transit

LEMMA DeliverKeeps ==
  ASSUME DpuOK, RemoteOK, NEW h \in HalThreads, NEW r \in Requests, Deliver(h, r), mock \in BOOLEAN
  PROVE  DpuOK' /\ RemoteOK'
<1>1. UNCHANGED <<mock, remoteAsync, completions, avail, rd, context, loop, data, wire, replies, early, doubled>>
  BY DEF Deliver, modes, races
<1>2. UNCHANGED <<vec, len, nrmsg, reqh, rloop, work, torn>>
  BY DEF Deliver, remoteVars
<1>3. RemoteOK' /\ Transit' = Transit
  <2>1. wire' \subseteq Entry
    BY <1>1 DEF RemoteOK, RemoteTypes
  <2>. QED
    BY <1>1, <1>2, <2>1, RemoteQuiet DEF Transit
<1>4. /\ handler[r] = "queued" /\ handler' = [handler EXCEPT ![r] = "running"] /\ completions[r] = 0
      /\ hal[h].pc = "idle" /\ MayHandle(h)
  BY DEF Deliver, DpuOK, AnswersOK
<1>5. Available' = Available
  BY <1>1 DEF Available
<1>6. /\ avail \in Seq(Msgs) /\ rd \in Nat /\ rd <= Len(avail) /\ nmsg \in 0..MaxMsgs
      /\ hal \in [HalThreads -> HalRecords] /\ MaxMsgs \in Nat
  BY RvfsAssumption DEF DpuOK, DpuTypes
<1>7. PICK m \in Msgs, x \in {"pop", "enqueue"} :
        /\ hal' = [hal EXCEPT ![h] = [pc |-> x, req |-> r, msg |-> m, at |-> rd]]
        /\ x = "pop" => rd < Len(avail) /\ m = avail[rd + 1]
        /\ x = "enqueue" => m \notin Available
        /\ nmsg' \in 0..MaxMsgs /\ m <= nmsg' /\ nmsg' >= nmsg
        /\ loop.pc = "push" => loop.msg # m
        /\ \A e \in Transit : e.msg # m
        /\ \A g \in HalThreads : hal[g].pc # "idle" /\ (hal[g].pc # "pop" \/ x # "pop") => hal[g].msg # m
  <2>1. CASE rd < Len(avail)
    <3>1. hal' = [hal EXCEPT ![h] = [pc |-> "pop", req |-> r, msg |-> avail[rd + 1], at |-> rd]] /\ nmsg' = nmsg
      BY <1>6, <2>1 DEF Deliver
    <3>2. avail[rd + 1] \in Msgs /\ avail[rd + 1] \in Available
      BY <1>6, <2>1, TakeNext, AvailableIs
    <3>3. avail[rd + 1] <= nmsg /\ nmsg >= nmsg
      BY <1>6, <3>2 DEF DpuOK, AvailOK
    <3>4. (loop.pc = "push" => loop.msg # avail[rd + 1]) /\ \A e \in Transit : e.msg # avail[rd + 1]
      BY <3>2 DEF DpuOK, LoopOK, TransitOK
    <3>5. \A g \in HalThreads : hal[g].pc # "idle" /\ hal[g].pc # "pop" => hal[g].msg # avail[rd + 1]
      BY <3>2 DEF DpuOK, HalOK, Hand
    <3>. QED
      BY <1>6, <2>1, <3>1, <3>2, <3>3, <3>4, <3>5
  <2>2. CASE rd = Len(avail) /\ nmsg < MaxMsgs
    <3>1. hal' = [hal EXCEPT ![h] = [pc |-> "enqueue", req |-> r, msg |-> nmsg + 1, at |-> rd]] /\ nmsg' = nmsg + 1
      BY <1>6, <2>2 DEF Deliver
    <3>2. nmsg + 1 \in Msgs /\ nmsg + 1 \in 0..MaxMsgs /\ nmsg + 1 <= nmsg + 1 /\ nmsg + 1 >= nmsg
      BY <1>6, <2>2 DEF Msgs
    <3>3. nmsg + 1 \notin Available
      BY <1>6 DEF DpuOK, AvailOK
    <3>4. loop.pc = "push" => loop.msg # nmsg + 1
      BY <1>6 DEF DpuOK, LoopOK
    <3>5. \A e \in Transit : e.msg # nmsg + 1
      BY <1>6 DEF DpuOK, TransitOK
    <3>6. \A g \in HalThreads : hal[g].pc # "idle" => hal[g].msg # nmsg + 1
      BY <1>6 DEF DpuOK, HalOK, Hand
    <3>. QED
      BY <3>1, <3>2, <3>3, <3>4, <3>5, <3>6
  <2>. QED
    BY <1>6, <2>1, <2>2 DEF Deliver
<1>8. /\ hal'[h].pc = x /\ hal'[h].req = r /\ hal'[h].msg = m /\ hal'[h].at = rd /\ hal'[h] \in HalRecords
      /\ \A g \in HalThreads : g # h => hal'[g] = hal[g]
  BY <1>6, <1>7 DEF HalRecords
<1>9. hal' \in [HalThreads -> HalRecords]
  BY <1>6, <1>7, <1>8
<1>10. \A e \in Transit : e.msg \in Msgs /\ e.req \in Requests /\ e.req # r
  BY <1>4, TransitType DEF DpuOK, TransitOK, Entry
<1>11. \A n \in Msgs : n <= nmsg => n <= nmsg'
  BY <1>6, <1>7 DEF Msgs
<1>12. handler'[r] = "running" /\ \A t \in Requests : t # r => handler'[t] = handler[t]
  BY <1>4 DEF DpuOK, DpuTypes
<1>13. DpuTypes'
  BY <1>1, <1>4, <1>7, <1>9 DEF DpuOK, DpuTypes
<1>14. ASSUME NEW g \in HalThreads, g # h, hal[g].pc # "idle"
       PROVE  Hand(hal[g])' /\ hal[g].req # r
  <2>1. Hand(hal[g]) /\ hal'[g] = hal[g]
    BY <1>8, <1>14 DEF DpuOK, HalOK
  <2>2. hal[g].req # r
    BY <1>4, <2>1 DEF Hand
  <2>. QED
    BY <1>1, <1>3, <1>5, <1>11, <1>12, <2>1, <2>2 DEF Hand
<1>15. Hand(hal[h])'
  BY <1>1, <1>3, <1>4, <1>5, <1>7, <1>8, <1>10, <1>12 DEF Hand
<1>16. HalOK'
  BY <1>8, <1>14, <1>15 DEF HalOK
<1>17. HalsApart'
  <2>1. ASSUME NEW g \in HalThreads, g # h, hal[g].pc # "idle" PROVE Apart(hal'[g], hal'[h]) /\ Apart(hal'[h], hal'[g])
    BY <1>7, <1>8, <1>14, <2>1 DEF Apart
  <2>2. HalsApart
    BY DEF DpuOK
  <2>. QED
    BY <1>8, <2>1, <2>2 DEF HalsApart
<1>18. MockOK'
  BY <1>1, <1>4, <1>8 DEF DpuOK, MockOK, MayHandle, HalThreads
<1>19. LoopOK'
  BY <1>1, <1>3, <1>5, <1>11 DEF DpuOK, LoopOK
<1>20. TransitOK'
  <2>1. ASSUME NEW e \in Transit
        PROVE  /\ e.msg <= nmsg' /\ e.msg \notin Available'
               /\ handler'[e.req] # "queued" /\ completions'[e.req] = 0
    BY <1>1, <1>5, <1>10, <1>11, <1>12, <2>1 DEF DpuOK, TransitOK
  <2>2. ASSUME NEW e \in Transit PROVE context'[e.msg] = e.req \/ Storing(e.msg)'
    BY <1>1, <1>4, <1>8, <2>2 DEF DpuOK, TransitOK, Storing
  <2>. QED
    BY <1>3, <2>1, <2>2 DEF DpuOK, TransitOK, Storing
<1>21. AvailOK'
  <2>1. Available \subseteq Msgs
    BY <1>6 DEF Available
  <2>. QED
    BY <1>1, <1>5, <1>11, <2>1 DEF DpuOK, AvailOK, Once
<1>22. AnswersOK'
  BY <1>1, <1>4 DEF DpuOK, DpuTypes, AnswersOK
<1>. QED
  BY <1>1, <1>3, <1>13, <1>16, <1>17, <1>18, <1>19, <1>20, <1>21, <1>22 DEF DpuOK

(* The read index that is stored is the one that was loaded, plus one, unless another thread popped. *)
LEMMA PopKeeps ==
  ASSUME IInv, DpuOK, RemoteOK, NEW h \in HalThreads, PopMsg(h), NoRace'
  PROVE  DpuOK' /\ RemoteOK'
<1>1. UNCHANGED <<mock, remoteAsync, handler, completions, avail, nmsg, context, loop, data, wire, replies, early>>
  BY DEF PopMsg, modes
<1>2. UNCHANGED <<vec, len, nrmsg, reqh, rloop, work, torn>>
  BY DEF PopMsg, remoteVars
<1>3. RemoteOK' /\ Transit' = Transit
  <2>1. wire' \subseteq Entry
    BY <1>1 DEF RemoteOK, RemoteTypes
  <2>. QED
    BY <1>1, <1>2, <2>1, RemoteQuiet DEF Transit
<1>4. /\ hal[h].pc = "pop" /\ rd' = hal[h].at + 1 /\ doubled' = (doubled \/ Doubles(h))
      /\ hal' = [hal EXCEPT ![h].pc = "enqueue"]
  BY DEF PopMsg
<1>5. PICK m \in Msgs : /\ hal[h].msg = m /\ hal[h].at = rd /\ rd < Len(avail) /\ m = avail[rd + 1]
  BY <1>4 DEF DpuOK, HalOK, Hand
<1>6. \A g \in HalThreads : g # h => hal[g].pc # "pop"
  <2>1. CASE mock
    <3>1. ~Doubles(h)
      BY <1>1, <1>4, <2>1, Zenon DEF NoRace
    <3>. QED
      BY <3>1 DEF Doubles
  <2>2. CASE ~mock
    <3>1. hal["mock"].pc = "idle"
      BY <2>2 DEF DpuOK, MockOK
    <3>. QED
      BY <1>4, <3>1 DEF HalThreads
  <2>. QED
    BY <2>1, <2>2
<1>7. doubled' = FALSE
  <2>1. ~Doubles(h)
    BY <1>5, <1>6 DEF Doubles
  <2>2. ~doubled
    BY DEF DpuOK
  <2>. QED
    BY <1>4, <2>1, <2>2
<1>8. /\ avail \in Seq(Msgs) /\ rd \in Nat /\ hal \in [HalThreads -> HalRecords] /\ rd' = rd + 1
      /\ Once(avail, rd)
  BY <1>4, <1>5 DEF DpuOK, DpuTypes, AvailOK
<1>9. /\ rd' \in Nat /\ rd' <= Len(avail) /\ Available' \subseteq Available /\ m \notin Available'
      /\ m \in Available /\ Once(avail, rd')
  <2>1. Available' = From(avail, rd + 1) /\ Available = From(avail, rd)
    BY <1>1, <1>8 DEF Available, From
  <2>. QED
    BY <1>5, <1>8, <2>1, TakeNext
<1>10. /\ hal'[h].pc = "enqueue" /\ hal'[h].req = hal[h].req /\ hal'[h].msg = m /\ hal'[h] \in HalRecords
       /\ \A g \in HalThreads : g # h => hal'[g] = hal[g]
  BY <1>4, <1>5, <1>8 DEF HalRecords
<1>11. hal' \in [HalThreads -> HalRecords]
  BY <1>4, <1>8, <1>10
<1>12. DpuTypes'
  BY <1>1, <1>9, <1>11 DEF DpuOK, DpuTypes
<1>13. ASSUME NEW g \in HalThreads, g # h, hal[g].pc # "idle" PROVE Hand(hal[g])'
  <2>1. Hand(hal[g]) /\ hal'[g] = hal[g] /\ hal[g].pc # "pop"
    BY <1>6, <1>10, <1>13 DEF DpuOK, HalOK
  <2>. QED
    BY <1>1, <1>3, <1>9, <2>1 DEF Hand
<1>14. Hand(hal[h])'
  <2>1. Hand(hal[h])
    BY <1>4 DEF DpuOK, HalOK
  <2>. QED
    BY <1>1, <1>3, <1>4, <1>5, <1>9, <1>10, <2>1 DEF Hand
<1>15. HalOK'
  BY <1>10, <1>13, <1>14 DEF HalOK
<1>16. HalsApart'
  <2>1. ASSUME NEW g \in HalThreads, g # h, hal[g].pc # "idle" PROVE Apart(hal'[g], hal'[h]) /\ Apart(hal'[h], hal'[g])
    <3>1. Apart(hal[g], hal[h]) /\ hal[g].pc # "pop"
      BY <1>4, <1>6, <2>1 DEF DpuOK, HalsApart
    <3>. QED
      BY <1>5, <1>10, <2>1, <3>1 DEF Apart
  <2>2. HalsApart
    BY DEF DpuOK
  <2>. QED
    BY <1>10, <2>1, <2>2 DEF HalsApart
<1>17. MockOK'
  BY <1>1, <1>4, <1>10 DEF DpuOK, MockOK, HalThreads
<1>18. LoopOK' /\ AvailOK' /\ AnswersOK'
  BY <1>1, <1>3, <1>9 DEF DpuOK, LoopOK, AvailOK, AnswersOK, Once
<1>19. TransitOK'
  <2>1. ASSUME NEW e \in Transit PROVE context'[e.msg] = e.req \/ Storing(e.msg)'
    BY <1>1, <1>4, <1>10, <2>1 DEF DpuOK, TransitOK, Storing
  <2>. QED
    BY <1>1, <1>3, <1>9, <2>1 DEF DpuOK, TransitOK, Storing
<1>. QED
  BY <1>1, <1>3, <1>7, <1>12, <1>15, <1>16, <1>17, <1>18, <1>19 DEF DpuOK

LEMMA EnqueueKeeps ==
  ASSUME DpuOK, RemoteOK, NEW h \in HalThreads, EnqueueRequest(h)
  PROVE  DpuOK' /\ RemoteOK'
<1>1. UNCHANGED <<mock, remoteAsync, handler, completions, avail, rd, nmsg, context, loop, data, replies, early, doubled>>
  BY DEF EnqueueRequest, modes, races
<1>2. UNCHANGED <<vec, len, nrmsg, reqh, rloop, work, torn>>
  BY DEF EnqueueRequest, remoteVars
<1>3. PICK m \in Msgs, r \in Requests : hal[h].pc = "enqueue" /\ hal[h].msg = m /\ hal[h].req = r /\ Hand(hal[h])
  BY DEF EnqueueRequest, DpuOK, HalOK, Hand
<1>4. PICK e \in Entry : e.msg = m /\ e.req = r /\ wire' = wire \cup {e}
  BY <1>3 DEF EnqueueRequest, Entry
<1>5. e \notin Transit /\ \A d \in Transit : d.msg # m /\ d.req # r
  BY <1>3, <1>4 DEF Hand
<1>6. RemoteOK' /\ Transit' = Transit \cup {e}
  <2>1. wire' \subseteq Entry
    BY <1>4 DEF RemoteOK, RemoteTypes
  <2>2. RemoteOK' /\ Taken' = Taken /\ Working' = Working
    BY <1>1, <1>2, <1>4, <1>5, <2>1, RemoteQuiet
  <2>. QED
    BY <1>1, <1>4, <2>2 DEF Transit
<1>7. hal' = [hal EXCEPT ![h].pc = "context"] /\ hal \in [HalThreads -> HalRecords]
  BY DEF EnqueueRequest, DpuOK, DpuTypes
<1>8. /\ hal'[h].pc = "context" /\ hal'[h].msg = m /\ hal'[h].req = r /\ hal'[h] \in HalRecords
      /\ \A g \in HalThreads : g # h => hal'[g] = hal[g]
  BY <1>3, <1>7 DEF HalRecords
<1>9. /\ m <= nmsg /\ handler[r] = "running" /\ completions[r] = 0 /\ m \notin Available
      /\ loop.pc = "push" => loop.msg # m
  BY <1>3 DEF Hand
<1>10. Available' = Available
  BY <1>1 DEF Available
<1>11. hal' \in [HalThreads -> HalRecords]
  BY <1>7, <1>8
<1>12. DpuTypes'
  BY <1>1, <1>11 DEF DpuOK, DpuTypes
<1>13. ASSUME NEW g \in HalThreads, g # h, hal[g].pc # "idle"
       PROVE  Hand(hal[g])' /\ hal[g].req # r /\ hal[g].msg # m
  <2>1. Hand(hal[g]) /\ hal'[g] = hal[g] /\ Apart(hal[g], hal[h])
    BY <1>3, <1>8, <1>13 DEF DpuOK, HalOK, HalsApart
  <2>2. hal[g].req # r /\ hal[g].msg # m
    BY <1>3, <2>1 DEF Apart
  <2>. QED
    BY <1>1, <1>4, <1>6, <1>10, <2>1, <2>2 DEF Hand
<1>14. Hand(hal[h])'
  BY <1>1, <1>4, <1>5, <1>6, <1>8, <1>9, <1>10 DEF Hand
<1>15. HalOK'
  BY <1>8, <1>13, <1>14 DEF HalOK
<1>16. HalsApart'
  <2>1. ASSUME NEW g \in HalThreads, g # h, hal[g].pc # "idle" PROVE Apart(hal'[g], hal'[h]) /\ Apart(hal'[h], hal'[g])
    BY <1>8, <1>13, <2>1 DEF Apart
  <2>2. HalsApart
    BY DEF DpuOK
  <2>. QED
    BY <1>8, <2>1, <2>2 DEF HalsApart
<1>17. MockOK'
  BY <1>1, <1>3, <1>8 DEF DpuOK, MockOK, HalThreads
<1>18. LoopOK'
  BY <1>1, <1>4, <1>6, <1>9, <1>10 DEF DpuOK, LoopOK
<1>19. TransitOK'
  <2>1. ASSUME NEW d \in Transit
        PROVE  /\ d.msg <= nmsg' /\ d.msg \notin Available'
               /\ handler'[d.req] # "queued" /\ completions'[d.req] = 0
               /\ context'[d.msg] = d.req \/ Storing(d.msg)'
    BY <1>1, <1>3, <1>8, <1>10 DEF DpuOK, TransitOK, Storing
  <2>2. /\ e.msg <= nmsg' /\ e.msg \notin Available'
        /\ handler'[e.req] # "queued" /\ completions'[e.req] = 0
        /\ Storing(e.msg)'
    BY <1>1, <1>4, <1>8, <1>9, <1>10 DEF Storing
  <2>3. \A c, d \in Transit' : c.msg = d.msg \/ c.req = d.req => c = d
    BY <1>4, <1>5, <1>6 DEF DpuOK, TransitOK
  <2>. QED
    BY <1>6, <2>1, <2>2, <2>3 DEF TransitOK, Storing
<1>20. AvailOK' /\ AnswersOK'
  BY <1>1, <1>10 DEF DpuOK, AvailOK, AnswersOK, Once
<1>. QED
  BY <1>1, <1>6, <1>12, <1>15, <1>16, <1>17, <1>18, <1>19, <1>20 DEF DpuOK

LEMMA StoreKeeps ==
  ASSUME DpuOK, RemoteOK, NEW h \in HalThreads, StoreContext(h)
  PROVE  DpuOK' /\ RemoteOK'
<1>1. UNCHANGED <<mock, remoteAsync, completions, avail, rd, nmsg, loop, data, wire, replies, early, doubled>>
  BY DEF StoreContext, modes, races
<1>2. UNCHANGED <<vec, len, nrmsg, reqh, rloop, work, torn>>
  BY DEF StoreContext, remoteVars
<1>3. PICK m \in Msgs, r \in Requests : hal[h].pc = "context" /\ hal[h].msg = m /\ hal[h].req = r /\ Hand(hal[h])
  BY DEF StoreContext, DpuOK, HalOK, Hand
<1>4. RemoteOK' /\ Transit' = Transit
  <2>1. wire' \subseteq Entry
    BY <1>1 DEF RemoteOK, RemoteTypes
  <2>. QED
    BY <1>1, <1>2, <2>1, RemoteQuiet DEF Transit
<1>5. /\ context' = [context EXCEPT ![m] = r] /\ handler' = [handler EXCEPT ![r] = "deferred"]
      /\ hal' = [hal EXCEPT ![h] = HalAtRest] /\ hal \in [HalThreads -> HalRecords]
  BY <1>3 DEF StoreContext, DpuOK, DpuTypes
<1>6. hal'[h].pc = "idle" /\ hal'[h] \in HalRecords /\ \A g \in HalThreads : g # h => hal'[g] = hal[g]
  BY <1>5 DEF HalAtRest, HalRecords
<1>7. hal' \in [HalThreads -> HalRecords] /\ Available' = Available
  BY <1>1, <1>5, <1>6 DEF Available
<1>8. DpuTypes'
  BY <1>1, <1>5, <1>7 DEF DpuOK, DpuTypes
<1>9. handler'[r] = "deferred" /\ \A t \in Requests : t # r => handler'[t] = handler[t]
  BY <1>5 DEF DpuOK, DpuTypes
<1>10. ASSUME NEW g \in HalThreads, g # h, hal[g].pc # "idle" PROVE Hand(hal[g])'
  <2>1. Hand(hal[g]) /\ hal'[g] = hal[g] /\ Apart(hal[g], hal[h])
    BY <1>3, <1>6, <1>10 DEF DpuOK, HalOK, HalsApart
  <2>2. hal[g].req # r
    BY <1>3, <2>1 DEF Apart
  <2>. QED
    BY <1>1, <1>4, <1>7, <1>9, <2>1, <2>2 DEF Hand
<1>11. HalOK' /\ HalsApart' /\ MockOK'
  BY <1>1, <1>6, <1>10 DEF DpuOK, HalOK, HalsApart, MockOK, HalThreads
<1>12. LoopOK' /\ AvailOK'
  BY <1>1, <1>4, <1>7 DEF DpuOK, LoopOK, AvailOK, Once
<1>13. TransitOK'
  <2>1. ASSUME NEW d \in Transit
        PROVE  /\ d.msg <= nmsg' /\ d.msg \notin Available'
               /\ handler'[d.req] # "queued" /\ completions'[d.req] = 0
               /\ context'[d.msg] = d.req \/ Storing(d.msg)'
    <3>1. d.msg \in Msgs /\ d.req \in Requests /\ (d.msg = m => d.req = r)
      BY <1>3, <2>1, TransitType DEF Entry, Hand
    <3>2. context'[d.msg] = d.req \/ Storing(d.msg)'
      <4>1. CASE d.msg = m
        BY <1>5, <3>1, <4>1 DEF DpuOK, DpuTypes
      <4>2. CASE d.msg # m /\ context[d.msg] = d.req
        BY <1>5, <3>1, <4>2 DEF DpuOK, DpuTypes
      <4>3. CASE d.msg # m /\ Storing(d.msg)
        BY <1>3, <1>6, <4>3 DEF Storing
      <4>. QED
        BY <2>1, <4>1, <4>2, <4>3 DEF DpuOK, TransitOK
    <3>3. handler'[d.req] # "queued"
      BY <1>9, <2>1, <3>1 DEF DpuOK, TransitOK
    <3>. QED
      BY <1>1, <1>7, <2>1, <3>2, <3>3 DEF DpuOK, TransitOK
  <2>. QED
    BY <1>4, <2>1 DEF DpuOK, TransitOK, Storing
<1>14. AnswersOK'
  BY <1>1, <1>9 DEF DpuOK, AnswersOK
<1>. QED
  BY <1>1, <1>4, <1>8, <1>11, <1>12, <1>13, <1>14 DEF DpuOK

(* A response finds its context in place, unless it overtook the store of it. *)
LEMMA ResponseKeeps ==
  ASSUME IInv, DpuOK, RemoteOK, NEW e \in replies, ResponseFunc(e), NoRace'
  PROVE  DpuOK' /\ RemoteOK'
<1>1. UNCHANGED <<twoThreads, mock, remoteAsync, handler, hal, avail, rd, nmsg, context, wire, doubled>>
  BY DEF ResponseFunc, modes
<1>2. UNCHANGED <<vec, len, nrmsg, reqh, rloop, work, torn>>
  BY DEF ResponseFunc, remoteVars
<1>3. early' = (early \/ Storing(e.msg))
  BY DEF ResponseFunc, Storing
<1>4. ~Storing(e.msg)
  <2>1. CASE twoThreads \/ mock
    BY <1>1, <1>3, <2>1, Zenon DEF NoRace
  <2>2. CASE ~twoThreads /\ ~mock
    <3>1. hal["poller"].pc = "idle" /\ hal["mock"].pc = "idle"
      BY <2>2 DEF ResponseFunc, DpuOK, MockOK
    <3>. QED
      BY <3>1 DEF Storing, HalThreads
  <2>. QED
    BY <2>1, <2>2
<1>5. early' = FALSE
  BY <1>3, <1>4 DEF DpuOK
<1>6. e \in Transit /\ e \in Entry
  BY TransitType DEF Transit
<1>7. PICK m \in Msgs, r \in Requests : e.msg = m /\ e.req = r
  BY <1>6 DEF Entry
<1>8. context[m] = r /\ completions[r] = 0 /\ m <= nmsg /\ m \notin Available /\ handler[r] # "queued"
  BY <1>4, <1>6, <1>7 DEF DpuOK, TransitOK
<1>9. /\ data' = [data EXCEPT ![r] = r] /\ completions' = [completions EXCEPT ![r] = 1]
      /\ loop' = [pc |-> "push", req |-> None, msg |-> m] /\ replies' = replies \ {e}
  BY <1>7, <1>8 DEF ResponseFunc
<1>10. RemoteOK' /\ Transit' = Transit \ {e}
  <2>1. wire' \subseteq Entry
    BY <1>1 DEF RemoteOK, RemoteTypes
  <2>2. RemoteOK' /\ Taken' = Taken /\ Working' = Working
    BY <1>1, <1>2, <1>9, <2>1, RemoteQuiet
  <2>3. e \notin wire /\ e \notin Taken /\ e \notin Working
    BY DEF RemoteOK, PlacesOK
  <2>. QED
    BY <1>1, <1>9, <2>2, <2>3 DEF Transit
<1>11. \A d \in Transit' : d \in Transit /\ d.msg # m /\ d.req # r /\ d.req \in Requests
  BY <1>6, <1>7, <1>10, TransitType DEF DpuOK, TransitOK, Entry
<1>12. \A h \in HalThreads : hal[h].pc # "idle" => hal[h].req # r /\ hal[h].msg # m /\ hal[h].req \in Requests
  BY <1>4, <1>6, <1>7 DEF DpuOK, HalOK, Hand, Storing
<1>13. \A t \in Requests : t # r => completions'[t] = completions[t] /\ data'[t] = data[t]
  BY <1>9 DEF DpuOK, DpuTypes
<1>14. DpuTypes' /\ Available' = Available
  BY <1>1, <1>9 DEF DpuOK, DpuTypes, Available
<1>15. HalOK'
  <2>1. ASSUME NEW h \in HalThreads, hal[h].pc # "idle" PROVE Hand(hal[h])'
    <3>1. Hand(hal[h])
      BY <2>1 DEF DpuOK, HalOK
    <3>. QED
      BY <1>1, <1>9, <1>11, <1>12, <1>13, <1>14, <2>1, <3>1 DEF Hand
  <2>. QED
    BY <1>1, <2>1 DEF HalOK
<1>16. LoopOK'
  BY <1>1, <1>8, <1>9, <1>11, <1>14 DEF LoopOK
<1>17. TransitOK'
  BY <1>1, <1>11, <1>13, <1>14 DEF DpuOK, TransitOK, Storing
<1>18. AvailOK' /\ HalsApart' /\ MockOK'
  BY <1>1, <1>14 DEF DpuOK, AvailOK, HalsApart, Apart, MockOK, Once
<1>19. AnswersOK'
  BY <1>1, <1>8, <1>9, <1>13 DEF DpuOK, DpuTypes, AnswersOK
<1>. QED
  BY <1>1, <1>5, <1>10, <1>14, <1>15, <1>16, <1>17, <1>18, <1>19 DEF DpuOK

(* A response without a context is one that overtook the store of it. *)
LEMMA NoContextIsRace ==
  ASSUME IInv, DpuOK, RemoteOK, NEW e \in replies, ResponseNull(e)
  PROVE  ~NoRace'
<1>1. early' = TRUE /\ UNCHANGED <<twoThreads, mock>> /\ context[e.msg] = None
  BY DEF ResponseNull, modes
<1>2. CASE twoThreads \/ mock
  BY <1>1, <1>2, Zenon DEF NoRace
<1>3. CASE ~twoThreads /\ ~mock
  <2>1. hal["poller"].pc = "idle" /\ hal["mock"].pc = "idle" /\ e \in Transit /\ e \in Entry
    BY <1>3, TransitType DEF ResponseNull, Transit, DpuOK, MockOK
  <2>2. context[e.msg] = e.req /\ e.req \in Requests
    BY <2>1 DEF DpuOK, TransitOK, Entry, Storing, HalThreads
  <2>. QED
    BY <1>1, <2>2, RvfsAssumption
<1>. QED
  BY <1>2, <1>3

LEMMA PushKeeps ==
  ASSUME DpuOK, RemoteOK, PushMsg
  PROVE  DpuOK' /\ RemoteOK'
<1>1. UNCHANGED <<mock, remoteAsync, handler, completions, hal, rd, nmsg, context, data, wire, replies, early, doubled>>
  BY DEF PushMsg, modes, races
<1>2. UNCHANGED <<vec, len, nrmsg, reqh, rloop, work, torn>>
  BY DEF PushMsg, remoteVars
<1>3. RemoteOK' /\ Transit' = Transit
  <2>1. wire' \subseteq Entry
    BY <1>1 DEF RemoteOK, RemoteTypes
  <2>. QED
    BY <1>1, <1>2, <2>1, RemoteQuiet DEF Transit
<1>4. PICK m \in Msgs : /\ loop.pc = "push" /\ loop.msg = m /\ m <= nmsg /\ m \notin Available
                        /\ \A e \in Transit : e.msg # m
  BY DEF PushMsg, DpuOK, LoopOK
<1>5. avail' = Append(avail, m) /\ loop' = AtRest /\ loop'.pc = "idle"
  BY <1>4 DEF PushMsg, AtRest
<1>6. /\ avail' \in Seq(Msgs) /\ Available' = Available \cup {m} /\ Once(avail', rd) /\ rd <= Len(avail')
      /\ rd < Len(avail) => rd < Len(avail') /\ avail'[rd + 1] = avail[rd + 1]
  <2>1. avail \in Seq(Msgs) /\ rd \in Nat /\ rd <= Len(avail) /\ Once(avail, rd) /\ m \notin From(avail, rd)
    BY <1>4, AvailableIs DEF DpuOK, DpuTypes, AvailOK
  <2>2. Available' = From(avail', rd) /\ Available = From(avail, rd)
    BY <1>1 DEF Available, From
  <2>. QED
    BY <1>5, <2>1, <2>2, PutMsg
<1>7. \A h \in HalThreads : hal[h].pc # "idle" => hal[h].msg # m
  BY <1>4 DEF DpuOK, HalOK, Hand
<1>8. DpuTypes'
  BY <1>1, <1>5, <1>6 DEF DpuOK, DpuTypes, AtRest
<1>9. HalOK'
  <2>1. ASSUME NEW h \in HalThreads, hal[h].pc # "idle" PROVE Hand(hal[h])'
    <3>1. Hand(hal[h])
      BY <2>1 DEF DpuOK, HalOK
    <3>. QED
      BY <1>1, <1>3, <1>5, <1>6, <1>7, <2>1, <3>1 DEF Hand
  <2>. QED
    BY <1>1, <2>1 DEF HalOK
<1>10. LoopOK' /\ TransitOK' /\ AvailOK'
  BY <1>1, <1>3, <1>4, <1>5, <1>6 DEF DpuOK, LoopOK, TransitOK, AvailOK, Storing, Once
<1>11. AnswersOK' /\ HalsApart' /\ MockOK'
  BY <1>1 DEF DpuOK, AnswersOK, HalsApart, Apart, MockOK
<1>. QED
  BY <1>1, <1>3, <1>8, <1>9, <1>10, <1>11 DEF DpuOK

-----------------------------------------------------------------------------
(* Steps of the remote side keep the RPCs in transit, and so what the DPU has. *)

LEMMA TakeKeeps ==
  ASSUME RemoteOK, NEW e \in wire, RemoteTake(e)
  PROVE  RemoteOK' /\ Transit' = Transit
<1>1. UNCHANGED <<remoteAsync, replies, vec, len, reqh, work, torn>> /\ wire' = wire \ {e}
  BY DEF RemoteTake, modes
<1>2. rloop.pc = "idle" /\ Taken = {} /\ e \in Entry
  BY DEF RemoteTake, Taken, RemoteOK, RemoteTypes
<1>3. /\ len \in 0..MaxMsgs /\ nrmsg \in 0..MaxMsgs /\ MaxMsgs \in Nat
      /\ \A w \in work : w.msg \in Msgs
  BY RvfsAssumption DEF RemoteOK, RemoteTypes, Works
<1>4. Working' = Working
  BY <1>1 DEF Working
<1>5. PICK m \in Msgs, l \in 0..MaxMsgs, x \in {"pop", "handle"} :
        /\ rloop' = [pc |-> x, req |-> e, msg |-> m, len |-> l]
        /\ nrmsg' \in 0..MaxMsgs /\ nrmsg' >= nrmsg
        /\ x = "pop" => l \in 1..len /\ vec[l] = m /\ nrmsg' = nrmsg
        /\ x = "handle" => m = nrmsg + 1 /\ nrmsg' = m /\ len = 0
  <2>1. CASE len > 0
    <3>1. len \in 1..len
      BY <1>3, <2>1
    <3>2. vec[len] \in Msgs
      BY <3>1 DEF RemoteOK, VecOK
    <3>3. rloop' = [pc |-> "pop", req |-> e, msg |-> vec[len], len |-> len] /\ nrmsg' = nrmsg
      BY <2>1 DEF RemoteTake
    <3>. QED
      BY <1>3, <3>1, <3>2, <3>3
  <2>2. CASE ~(len > 0)
    <3>1. /\ rloop' = [pc |-> "handle", req |-> e, msg |-> nrmsg + 1, len |-> 0]
          /\ nrmsg' = nrmsg + 1 /\ nrmsg < MaxMsgs
      BY <2>2 DEF RemoteTake
    <3>2. nrmsg + 1 \in Msgs /\ nrmsg + 1 \in 0..MaxMsgs /\ 0 \in 0..MaxMsgs /\ nrmsg + 1 >= nrmsg /\ len = 0
      BY <1>3, <2>2, <3>1 DEF Msgs
    <3>. QED
      BY <3>1, <3>2
  <2>. QED
    BY <2>1, <2>2
<1>6. rloop'.pc = x /\ rloop'.req = e /\ rloop'.msg = m /\ rloop'.len = l /\ Taken' = {e}
  BY <1>5 DEF Taken
<1>7. Transit' = Transit
  BY <1>1, <1>2, <1>4, <1>6 DEF Transit
<1>8. RemoteTypes'
  BY <1>1, <1>2, <1>5 DEF RemoteOK, RemoteTypes
<1>9. VecOK'
  BY <1>1, <1>3, <1>5 DEF RemoteOK, VecOK, Msgs
<1>10. WorkOK'
  <2>1. \A w \in work : w.msg <= nrmsg' /\ (x = "handle" => w.msg # m)
    BY <1>3, <1>5 DEF RemoteOK, WorkOK, Msgs
  <2>. QED
    BY <1>1, <1>6, <2>1 DEF RemoteOK, WorkOK
<1>11. RloopOK'
  BY <1>1, <1>3, <1>5, <1>6 DEF RloopOK, Msgs
<1>12. PlacesOK'
  BY <1>1, <1>2, <1>4, <1>6 DEF RemoteOK, PlacesOK
<1>13. SyncOK'
  BY <1>1, <1>2, <1>3, <1>5, <1>6 DEF RemoteOK, SyncOK
<1>. QED
  BY <1>1, <1>7, <1>8, <1>9, <1>10, <1>11, <1>12, <1>13 DEF RemoteOK

(* The message that is popped is the one that was taken, unless the vector changed in between. *)
LEMMA TakenKeeps ==
  ASSUME IInv, RemoteOK, RemotePop, NoRace'
  PROVE  RemoteOK' /\ Transit' = Transit
<1>1. UNCHANGED <<remoteAsync, wire, replies, vec, nrmsg, reqh, work>>
  BY DEF RemotePop, modes
<1>2. /\ rloop.pc = "pop" /\ len' = rloop.len - 1 /\ rloop' = [rloop EXCEPT !.pc = "handle"]
      /\ torn' = (torn \/ len # rloop.len \/ vec[len] # rloop.msg)
  BY DEF RemotePop
<1>3. rloop \in [pc : {"pop", "handle"}, req : Entry, msg : Msgs, len : 0..MaxMsgs]
  BY <1>2 DEF RemoteOK, RemoteTypes, AtRest
<1>4. /\ len \in 0..MaxMsgs /\ nrmsg \in 0..MaxMsgs /\ MaxMsgs \in Nat
      /\ rloop.len \in 1..len /\ vec[rloop.len] = rloop.msg
  BY <1>2, RvfsAssumption DEF RemoteOK, RemoteTypes, RloopOK
<1>5. len = rloop.len
  <2>1. CASE remoteAsync
    BY <1>1, <1>2, <2>1, Zenon DEF NoRace
  <2>2. CASE ~remoteAsync
    BY <1>2, <1>4, <2>2 DEF RemoteOK, SyncOK
  <2>. QED
    BY <2>1, <2>2
<1>6. torn' = FALSE
  BY <1>2, <1>4, <1>5 DEF RemoteOK
<1>7. PICK m \in Msgs, e \in Entry : m = rloop.msg /\ e = rloop.req
  BY <1>3
<1>8. rloop'.pc = "handle" /\ rloop'.msg = m /\ rloop'.req = e
  BY <1>2, <1>3, <1>7
<1>9. Taken' = Taken /\ Working' = Working
  BY <1>1, <1>2, <1>7, <1>8 DEF Taken, Working
<1>10. Transit' = Transit
  BY <1>1, <1>9 DEF Transit
<1>11. len' \in 0..MaxMsgs /\ \A i \in 1..len' : i \in 1..len /\ i # len
  BY <1>2, <1>4, <1>5
<1>12. m <= nrmsg /\ \A i \in 1..len' : vec[i] # m
  BY <1>4, <1>5, <1>7, <1>11 DEF RemoteOK, VecOK
<1>13. RemoteTypes'
  BY <1>1, <1>2, <1>3, <1>11 DEF RemoteOK, RemoteTypes
<1>14. VecOK'
  BY <1>1, <1>11 DEF RemoteOK, VecOK
<1>15. WorkOK'
  <2>1. \A w \in work : w.msg # m
    BY <1>4, <1>7 DEF RemoteOK, WorkOK
  <2>. QED
    BY <1>1, <1>8, <1>11, <2>1 DEF RemoteOK, WorkOK
<1>16. RloopOK'
  BY <1>1, <1>8, <1>12 DEF RloopOK
<1>17. PlacesOK'
  BY <1>1, <1>9 DEF RemoteOK, PlacesOK
<1>18. SyncOK'
  BY <1>1, <1>2, <1>4, <1>5, <1>8 DEF RemoteOK, SyncOK
<1>. QED
  BY <1>6, <1>10, <1>13, <1>14, <1>15, <1>16, <1>17, <1>18 DEF RemoteOK

LEMMA HandleKeeps ==
  ASSUME IInv, RemoteOK, RemoteHandle
  PROVE  RemoteOK' /\ Transit' = Transit
<1>1. UNCHANGED <<remoteAsync, wire, nrmsg, torn>> /\ rloop.pc = "handle" /\ rloop' = AtRest /\ rloop'.pc = "idle"
  BY DEF RemoteHandle, modes, AtRest
<1>2. rloop \in [pc : {"pop", "handle"}, req : Entry, msg : Msgs, len : 0..MaxMsgs]
  BY <1>1 DEF RemoteOK, RemoteTypes, AtRest
<1>3. PICK m \in Msgs, e \in Entry : m = rloop.msg /\ e = rloop.req
  BY <1>2
<1>4. reqh' = [reqh EXCEPT ![m] = e] /\ reqh'[m] = e /\ \A n \in Msgs : n # m => reqh'[n] = reqh[n]
  BY <1>3 DEF RemoteHandle, RemoteOK, RemoteTypes
<1>5. /\ len \in 0..MaxMsgs /\ nrmsg \in 0..MaxMsgs /\ MaxMsgs \in Nat /\ m <= nrmsg
      /\ \A i \in 1..len : vec[i] # m
      /\ \A w \in work : w.msg # m /\ w.msg \in Msgs
  BY <1>1, <1>3, RvfsAssumption DEF RemoteOK, RemoteTypes, RloopOK, WorkOK, Works
<1>6. Taken = {e} /\ Taken' = {}
  BY <1>1, <1>3 DEF Taken
<1>7. e \notin wire /\ e \notin replies /\ e \notin Working
  BY <1>6 DEF RemoteOK, PlacesOK
<1>8. CASE remoteAsync
  <2>. DEFINE v == [msg |-> m, pc |-> "respond", len |-> 0]
  <2>1. UNCHANGED <<replies, vec, len>> /\ work' = work \cup {v}
    BY <1>3, <1>8 DEF RemoteHandle
  <2>2. v \in Works /\ v.msg = m /\ v.pc = "respond"
    BY <1>5 DEF Works
  <2>. HIDE DEF v
  <2>3. Working' = Working \cup {e}
    <3>1. {u \in work' : u.pc = "respond"} = {u \in work : u.pc = "respond"} \cup {v}
      BY <2>1, <2>2
    <3>. QED
      BY <1>4, <1>5, <2>2, <3>1 DEF Working
  <2>4. Transit' = Transit
    BY <1>1, <1>6, <2>1, <2>3 DEF Transit
  <2>5. RemoteTypes'
    BY <1>1, <1>4, <2>1, <2>2 DEF RemoteOK, RemoteTypes
  <2>6. VecOK' /\ RloopOK' /\ SyncOK'
    BY <1>1, <1>8, <2>1 DEF RemoteOK, VecOK, RloopOK, SyncOK
  <2>7. WorkOK'
    BY <1>1, <1>4, <1>5, <2>1, <2>2 DEF RemoteOK, WorkOK
  <2>8. PlacesOK'
    <3>1. ASSUME NEW w \in work, w.pc = "respond" PROVE reqh'[w.msg] \in Working /\ reqh'[w.msg] = reqh[w.msg]
      BY <1>4, <1>5, <3>1 DEF Working
    <3>2. \A u, w \in work' : u.pc = "respond" /\ w.pc = "respond" /\ reqh'[u.msg] = reqh'[w.msg] => u = w
      BY <1>4, <1>7, <2>1, <2>2, <3>1 DEF RemoteOK, PlacesOK
    <3>. QED
      BY <1>1, <1>6, <1>7, <2>1, <2>3, <3>2 DEF RemoteOK, PlacesOK
  <2>. QED
    BY <1>1, <2>4, <2>5, <2>6, <2>7, <2>8 DEF RemoteOK
<1>9. CASE ~remoteAsync
  <2>1. work = {} /\ nrmsg <= 1 /\ len = 0 /\ nrmsg = 1 /\ m = 1
    BY <1>1, <1>5, <1>9 DEF RemoteOK, SyncOK, Msgs
  <2>2. replies' = replies \cup {e} /\ vec' = [vec EXCEPT ![1] = m] /\ len' = 1 /\ work' = {}
    BY <1>3, <1>9, <2>1 DEF RemoteHandle
  <2>3. Working = {} /\ Working' = {}
    BY <2>1, <2>2 DEF Working
  <2>4. Transit' = Transit
    BY <1>1, <1>6, <2>2, <2>3 DEF Transit
  <2>5. 1 \in Msgs /\ 1 \in 0..MaxMsgs /\ vec'[1] = m /\ \A i \in 1..1 : i = 1
    BY <1>5, <2>1, <2>2 DEF Msgs, RemoteOK, RemoteTypes
  <2>6. RemoteTypes'
    BY <1>1, <1>4, <2>2, <2>5 DEF RemoteOK, RemoteTypes
  <2>7. VecOK' /\ RloopOK' /\ SyncOK' /\ WorkOK'
    BY <1>1, <1>5, <2>1, <2>2, <2>5 DEF VecOK, RloopOK, SyncOK, WorkOK
  <2>8. PlacesOK'
    BY <1>1, <1>6, <1>7, <2>2, <2>3 DEF RemoteOK, PlacesOK
  <2>. QED
    BY <1>1, <2>4, <2>6, <2>7, <2>8 DEF RemoteOK
<1>. QED
  BY <1>8, <1>9

(* Only a file system that completes elsewhere has work in progress. *)
LEMMA WorkIsAsync == ASSUME IInv, RemoteOK, NEW w \in work PROVE remoteAsync
  BY DEF IInv, RemoteOK, SyncOK

LEMMA RespondKeeps ==
  ASSUME IInv, RemoteOK, NEW w \in work, RemoteRespond(w)
  PROVE  RemoteOK' /\ Transit' = Transit
<1>1. UNCHANGED <<remoteAsync, wire, vec, len, nrmsg, reqh, rloop, torn>>
  BY DEF RemoteRespond, modes
<1>2. PICK u \in Works : u = [w EXCEPT !.pc = "push"] /\ u.msg = w.msg /\ u.pc = "push"
  <2>. DEFINE x == [w EXCEPT !.pc = "push"]
  <2>1. w \in Works
    BY DEF RemoteOK, RemoteTypes
  <2>2. x \in Works
    BY <2>1 DEF Works
  <2>3. x.msg = w.msg /\ x.pc = "push"
    BY <2>1 DEF Works
  <2>. QED
    BY <2>2, <2>3
<1>3. PICK e \in Entry : e = reqh[w.msg] /\ replies' = replies \cup {e} /\ e \in Working /\ w.pc = "respond"
  BY DEF RemoteRespond, RemoteOK, WorkOK, Working
<1>4. work' = (work \ {w}) \cup {u}
  BY <1>2 DEF RemoteRespond
<1>5. Taken' = Taken /\ e \notin wire /\ e \notin replies /\ e \notin Taken
  BY <1>1, <1>3 DEF RemoteOK, PlacesOK, Taken
<1>6. Working' = Working \ {e}
  <2>1. {v \in work' : v.pc = "respond"} = {v \in work : v.pc = "respond"} \ {w}
    BY <1>2, <1>4
  <2>2. \A v \in work : v.pc = "respond" /\ v # w => reqh[v.msg] # e
    BY <1>3 DEF RemoteOK, PlacesOK
  <2>. QED
    BY <1>1, <1>3, <2>1, <2>2 DEF Working
<1>7. Transit' = Transit
  BY <1>1, <1>3, <1>5, <1>6 DEF Transit
<1>8. RemoteTypes'
  BY <1>1, <1>3, <1>4 DEF RemoteOK, RemoteTypes
<1>9. VecOK' /\ RloopOK' /\ SyncOK'
  BY <1>1, WorkIsAsync DEF RemoteOK, VecOK, RloopOK, SyncOK
<1>10. WorkOK'
  <2>1. \A v \in work' : v = u \/ (v \in work /\ v.msg # w.msg)
    BY <1>4 DEF RemoteOK, WorkOK
  <2>2. w.msg <= nrmsg /\ (\A i \in 1..len : vec[i] # w.msg) /\ (rloop.pc = "handle" => rloop.msg # w.msg)
    BY DEF RemoteOK, WorkOK
  <2>. QED
    BY <1>1, <1>2, <2>1, <2>2 DEF RemoteOK, WorkOK
<1>11. PlacesOK'
  <2>1. \A x, y \in work' : x.pc = "respond" /\ y.pc = "respond" /\ reqh[x.msg] = reqh[y.msg] => x = y
    BY <1>2, <1>4 DEF RemoteOK, PlacesOK
  <2>. QED
    BY <1>1, <1>3, <1>5, <1>6, <2>1 DEF RemoteOK, PlacesOK
<1>. QED
  BY <1>1, <1>7, <1>8, <1>9, <1>10, <1>11 DEF RemoteOK

LEMMA LoadKeeps ==
  ASSUME IInv, RemoteOK, NEW w \in work, RemotePush(w)
  PROVE  RemoteOK' /\ Transit' = Transit
<1>1. UNCHANGED <<remoteAsync, wire, replies, vec, len, nrmsg, reqh, rloop, torn>>
  BY DEF RemotePush, modes
<1>2. len \in 0..MaxMsgs /\ len < MaxMsgs /\ w.pc = "push"
  BY DEF RemotePush, RemoteOK, RemoteTypes
<1>3. PICK u \in Works : u = [w EXCEPT !.pc = "grow", !.len = len] /\ u.msg = w.msg /\ u.pc = "grow" /\ u.len = len
  <2>. DEFINE x == [w EXCEPT !.pc = "grow", !.len = len]
  <2>1. w \in Works
    BY DEF RemoteOK, RemoteTypes
  <2>2. x \in Works
    BY <1>2, <2>1 DEF Works
  <2>3. x.msg = w.msg /\ x.pc = "grow" /\ x.len = len
    BY <2>1 DEF Works
  <2>. QED
    BY <2>2, <2>3
<1>4. work' = (work \ {w}) \cup {u}
  BY <1>3 DEF RemotePush
<1>5. Taken' = Taken
  BY <1>1 DEF Taken
<1>6. Working' = Working
  <2>1. {v \in work' : v.pc = "respond"} = {v \in work : v.pc = "respond"}
    BY <1>2, <1>3, <1>4
  <2>. QED
    BY <1>1, <2>1 DEF Working
<1>7. Transit' = Transit
  BY <1>1, <1>5, <1>6 DEF Transit
<1>8. RemoteTypes'
  BY <1>1, <1>4 DEF RemoteOK, RemoteTypes
<1>9. VecOK' /\ RloopOK' /\ SyncOK'
  BY <1>1, WorkIsAsync DEF RemoteOK, VecOK, RloopOK, SyncOK
<1>10. WorkOK'
  <2>1. \A v \in work' : v = u \/ (v \in work /\ v.msg # w.msg)
    BY <1>4 DEF RemoteOK, WorkOK
  <2>2. w.msg <= nrmsg /\ (\A i \in 1..len : vec[i] # w.msg) /\ (rloop.pc = "handle" => rloop.msg # w.msg)
    BY DEF RemoteOK, WorkOK
  <2>. QED
    BY <1>1, <1>2, <1>3, <2>1, <2>2 DEF RemoteOK, WorkOK
<1>11. PlacesOK'
  BY <1>1, <1>3, <1>4, <1>5, <1>6 DEF RemoteOK, PlacesOK
<1>. QED
  BY <1>1, <1>7, <1>8, <1>9, <1>10, <1>11 DEF RemoteOK

(* The length that is stored is the one that was loaded, plus one, unless the vector changed. *)
LEMMA GrowKeeps ==
  ASSUME IInv, RemoteOK, NEW w \in work, RemoteGrow(w), NoRace'
  PROVE  RemoteOK' /\ Transit' = Transit
<1>1. UNCHANGED <<remoteAsync, wire, replies, nrmsg, reqh, rloop>>
  BY DEF RemoteGrow, modes
<1>2. /\ w.pc = "grow" /\ vec' = [vec EXCEPT ![w.len + 1] = w.msg] /\ len' = w.len + 1
      /\ torn' = (torn \/ len # w.len \/ \E v \in work \ {w} : v.pc = "grow")
      /\ work' = work \ {w}
  BY DEF RemoteGrow
<1>3. ~torn' /\ len = w.len /\ remoteAsync
  <2>1. remoteAsync
    BY WorkIsAsync
  <2>2. ~torn'
    BY <1>1, <2>1, Zenon DEF NoRace
  <2>. QED
    BY <1>2, <2>1, <2>2, Zenon
<1>4. /\ len \in 0..MaxMsgs /\ len < MaxMsgs /\ nrmsg \in 0..MaxMsgs /\ MaxMsgs \in Nat
      /\ w \in Works /\ w.msg \in Msgs /\ w.msg <= nrmsg
  BY <1>2, <1>3, RvfsAssumption DEF RemoteOK, RemoteTypes, WorkOK, Works
<1>5. len + 1 \in Msgs /\ len' = len + 1 /\ len' \in 0..MaxMsgs
  BY <1>2, <1>3, <1>4 DEF Msgs
<1>6. /\ vec' \in [Msgs -> Msgs \cup {None}] /\ vec'[len + 1] = w.msg
      /\ \A i \in 1..len : vec'[i] = vec[i]
  BY <1>2, <1>3, <1>4, <1>5 DEF RemoteOK, RemoteTypes, Msgs
<1>7. \A i \in 1..len' : i \in 1..len \/ i = len + 1
  BY <1>4, <1>5
<1>8. \A i \in 1..len : vec[i] # w.msg
  BY DEF RemoteOK, WorkOK
<1>9. Taken' = Taken
  BY <1>1 DEF Taken
<1>10. Working' = Working
  <2>1. {v \in work' : v.pc = "respond"} = {v \in work : v.pc = "respond"}
    BY <1>2
  <2>. QED
    BY <1>1, <2>1 DEF Working
<1>11. Transit' = Transit
  BY <1>1, <1>9, <1>10 DEF Transit
<1>12. RemoteTypes'
  BY <1>1, <1>2, <1>5, <1>6 DEF RemoteOK, RemoteTypes
<1>13. VecOK'
  BY <1>1, <1>4, <1>6, <1>7, <1>8 DEF RemoteOK, VecOK
<1>14. WorkOK'
  <2>1. \A v \in work' : v \in work /\ v.msg # w.msg
    BY <1>2 DEF RemoteOK, WorkOK
  <2>. QED
    BY <1>1, <1>6, <1>7, <2>1 DEF RemoteOK, WorkOK
<1>15. RloopOK'
  <2>1. rloop.pc = "pop" => rloop.len \in 1..len' /\ vec'[rloop.len] = rloop.msg
    BY <1>4, <1>5, <1>6 DEF RemoteOK, RloopOK
  <2>2. rloop.pc = "handle" => rloop.msg # w.msg
    BY DEF RemoteOK, WorkOK
  <2>. QED
    BY <1>1, <1>6, <1>7, <2>1, <2>2 DEF RemoteOK, RloopOK
<1>16. PlacesOK' /\ SyncOK'
  BY <1>1, <1>2, <1>3, <1>9, <1>10 DEF RemoteOK, PlacesOK, SyncOK
<1>. QED
  BY <1>3, <1>11, <1>12, <1>13, <1>14, <1>15, <1>16 DEF RemoteOK

-----------------------------------------------------------------------------
LEMMA StepsKeep == ASSUME IInv, [Next]_rvfsVars PROVE IInv'
<1>1. /\ UNCHANGED <<twoThreads, mock, remoteAsync>>
      /\ early' \in BOOLEAN /\ doubled' \in BOOLEAN /\ torn' \in BOOLEAN
      /\ NoRace' => NoRace
  BY RacesStay
<1>. SUFFICES ASSUME NoRace' PROVE DpuOK' /\ RemoteOK'
  BY <1>1 DEF IInv
<1>2. DpuOK /\ RemoteOK /\ mock \in BOOLEAN
  BY <1>1 DEF IInv
<1>3. ASSUME RemoteOK' /\ Transit' = Transit, UNCHANGED <<dpuVars, races>> PROVE DpuOK' /\ RemoteOK'
  BY <1>1, <1>2, <1>3, DpuQuiet
<1>4. ASSUME UNCHANGED <<dpuVars, wire, replies, vec, len, nrmsg, reqh, rloop, work, torn, races>>
      PROVE  DpuOK' /\ RemoteOK'
  <2>1. wire' \subseteq Entry
    BY <1>2, <1>4 DEF RemoteOK, RemoteTypes
  <2>2. RemoteOK' /\ Transit' = Transit
    BY <1>1, <1>2, <1>4, <2>1, RemoteQuiet DEF Transit
  <2>. QED
    BY <1>3, <1>4, <2>2
<1>5. CASE UNCHANGED rvfsVars
  BY <1>4, <1>5 DEF rvfsVars, remoteVars
<1>6. ASSUME NEW e, Dies(e) PROVE DpuOK' /\ RemoteOK'
  BY <1>4, <1>6 DEF Dies
<1>7. ASSUME NEW h \in HalThreads, HalStep(h) \/ \E r \in Requests : Deliver(h, r)
      PROVE  DpuOK' /\ RemoteOK'
  BY <1>2, <1>7, DeliverKeeps, PopKeeps, EnqueueKeeps, StoreKeeps DEF HalStep
<1>8. CASE LoopStep
  BY <1>2, <1>8, ResponseKeeps, NoContextIsRace, PushKeeps DEF LoopStep
<1>9. CASE RemoteStep
  <2>1. ASSUME NEW e \in wire, RemoteTake(e) PROVE DpuOK' /\ RemoteOK'
    <3>1. UNCHANGED <<dpuVars, races>>
      BY <2>1 DEF RemoteTake
    <3>. QED
      BY <1>2, <1>3, <2>1, <3>1, TakeKeeps
  <2>2. CASE RemotePop
    <3>1. UNCHANGED <<dpuVars, races>>
      BY <2>2 DEF RemotePop
    <3>. QED
      BY <1>2, <1>3, <2>2, <3>1, TakenKeeps
  <2>3. CASE RemoteHandle
    <3>1. UNCHANGED <<dpuVars, races>>
      BY <2>3 DEF RemoteHandle
    <3>. QED
      BY <1>2, <1>3, <2>3, <3>1, HandleKeeps
  <2>. QED
    BY <1>6, <1>9, <2>1, <2>2, <2>3 DEF RemoteStep, RemoteHandleDies
<1>10. ASSUME NEW w \in work, WorkStep(w) PROVE DpuOK' /\ RemoteOK'
  <2>1. CASE RemoteRespondDies(w)
    BY <1>6, <2>1 DEF RemoteRespondDies
  <2>2. CASE RemoteRespond(w) \/ RemotePush(w) \/ RemoteGrow(w)
    <3>1. UNCHANGED <<dpuVars, races>>
      BY <2>2 DEF RemoteRespond, RemotePush, RemoteGrow
    <3>. QED
      BY <1>2, <1>3, <2>2, <3>1, RespondKeeps, LoadKeeps, GrowKeeps
  <2>. QED
    BY <1>10, <2>1, <2>2 DEF WorkStep
<1>. QED
  BY <1>5, <1>7, <1>8, <1>9, <1>10 DEF Next

(* The inductive invariant of the two sides: while no race was lost, each RPC *)
(* is in one place, and each message in one hand.                             *)
THEOREM Invariance == Spec => []IInv
<1>1. IInv /\ [Next]_rvfsVars => IInv'
  BY StepsKeep
<1>. QED
  BY InitHolds, <1>1, PTL DEF Spec

(* A request gets its own response, and gets it once, unless one of the races *)
(* of dpu.cpp and rvfs.cpp was lost.                                          *)
THEOREM ResponsesAreOwn == Spec => []OwnResponseOnce
<1>1. IInv => OwnResponseOnce
  BY DEF IInv, OwnResponseOnce, DpuOK, DpuTypes, AnswersOK
<1>. QED
  BY Invariance, <1>1, PTL

(* A message carries one request at a time, on the DPU and on the remote side, *)
(* and is not reused while it is in use, unless one of the races was lost.     *)
THEOREM MessagesAreExclusive == Spec => []MsgsExclusive
<1>1. IInv => MsgsExclusive
  <2>. SUFFICES ASSUME DpuOK, RemoteOK
       PROVE  /\ \A d, e \in wire \cup replies : d.msg = e.msg => d = e
              /\ \A e \in wire \cup replies : e.msg \notin Available
              /\ \A i, j \in (rd + 1)..Len(avail) : avail[i] = avail[j] => i = j
              /\ \A w \in work : \A i \in 1..len : vec[i] # w.msg
              /\ \A i, j \in 1..len : vec[i] = vec[j] => i = j
    BY DEF IInv, MsgsExclusive
  <2>1. \A e \in wire \cup replies : e \in Transit
    BY DEF Transit
  <2>. QED
    BY <2>1 DEF DpuOK, RemoteOK, TransitOK, AvailOK, Once, WorkOK, VecOK
<1>. QED
  BY Invariance, <1>1, PTL

(* With one thread on the DPU and a remote file system that completes in its  *)
(* handler, there is no race to lose: no response finds a message without a   *)
(* context, no message is popped twice, and no two operations on the vector   *)
(* overlap.                                                                   *)
THEOREM OneThreadEachIsSafe ==
  Spec => [](~twoThreads /\ ~mock /\ ~remoteAsync => ~early /\ ~doubled /\ ~torn)
<1>1. IInv => (~twoThreads /\ ~mock /\ ~remoteAsync => ~early /\ ~doubled /\ ~torn)
  BY DEF IInv, NoRace, DpuOK, RemoteOK
<1>. QED
  BY Invariance, <1>1, PTL
=============================================================================
