--------------------------- MODULE HalSnapProofs ---------------------------
(***************************************************************************)
(* Theorems about the SNAP front end (module HalSnap), for any number of   *)
(* devices, mock devices and threads that dpfs_hal_new accepts.            *)
(***************************************************************************)
EXTENDS HalSnap, TLAPS

-----------------------------------------------------------------------------
(* The windows *)

(* Division with remainder. *)
LEMMA DivMod ==
  ASSUME NEW a \in Nat, NEW b \in Nat, b >= 1
  PROVE  a = b * (a \div b) + (a % b)
  BY Z3

(* devices_per_thread and the remainder add up to the devices, and every   *)
(* thread has a device.                                                    *)
LEMMA DivisionFacts ==
  /\ Share \in Nat /\ Remainder \in Nat
  /\ NDevices = Share * NThreads + Remainder
  /\ Share >= 1
<1>1. NDevices \in Nat /\ NThreads \in Nat /\ NThreads >= 1 /\ NThreads <= NDevices
  BY HalSnapAssumption
<1>2. NDevices = NThreads * (NDevices \div NThreads) + (NDevices % NThreads)
  BY <1>1, DivMod
<1>3. NDevices \div NThreads \in Nat /\ NDevices % NThreads \in Nat /\ NDevices % NThreads < NThreads
  BY <1>1, SMT
<1>4. NDevices \div NThreads >= 1
  BY <1>1, <1>2, <1>3, SMT
<1>. QED
  BY <1>1, <1>2, <1>3, <1>4, SMT DEF Share, Remainder

(* Multiples are ordered as their factors. *)
LEMMA Multiples ==
  ASSUME NEW k \in Nat, NEW a \in Nat, NEW b \in Nat, a <= b
  PROVE  k * a \in Nat /\ k * b \in Nat /\ k * a <= k * b /\ k * (a + 1) = k * a + k
  BY SMT

(* A window is not empty and within the devices, and a later thread starts *)
(* where the earlier one has ended, or after that.                         *)
LEMMA Windows ==
  /\ \A t \in Pollers : /\ DevicesStart(t) \in Nat /\ DevicesEnd(t) \in Nat
                        /\ DevicesStart(t) < DevicesEnd(t)
                        /\ DevicesEnd(t) <= NDevices
  /\ \A t, u \in Pollers : t < u => DevicesEnd(t) <= DevicesStart(u)
<1> USE DivisionFacts
<1>0. NThreads \in Nat /\ NDevices \in Nat /\ NThreads >= 1
  BY HalSnapAssumption
<1>1. ASSUME NEW t \in Pollers
      PROVE  /\ t \in Nat /\ t # MockThread /\ t + 1 <= NThreads
             /\ Share * t \in Nat /\ Share * (t + 1) = Share * t + Share
             /\ Share * (t + 1) <= Share * NThreads
             /\ DevicesEnd(t) = Share * t + Share + Remainder
             /\ DevicesStart(t) = IF t = 0 THEN 0 ELSE Share * t + Remainder
  <2>1. t \in Nat /\ t + 1 \in Nat /\ t + 1 <= NThreads /\ t # MockThread
    BY <1>0 DEF Pollers, MockThread
  <2>2. /\ Share * t \in Nat /\ Share * (t + 1) = Share * t + Share
        /\ Share * (t + 1) <= Share * NThreads
    BY <1>0, <2>1, Multiples
  <2>. QED
    BY <2>1, <2>2 DEF DevicesEnd, DevicesStart
<1>2. ASSUME NEW t \in Pollers
      PROVE  /\ DevicesStart(t) \in Nat /\ DevicesEnd(t) \in Nat
             /\ DevicesStart(t) < DevicesEnd(t) /\ DevicesEnd(t) <= NDevices
  <2> DEFINE m == Share * t
             n == Share * NThreads
  <2>1. /\ m \in Nat /\ m + Share <= n /\ DevicesEnd(t) = m + Share + Remainder
        /\ DevicesStart(t) = IF t = 0 THEN 0 ELSE m + Remainder
    BY <1>1
  <2>2. n \in Nat /\ NDevices = n + Remainder
    BY <1>0, Multiples
  <2> HIDE DEF m, n
  <2>. QED
    BY <2>1, <2>2
<1>3. ASSUME NEW t \in Pollers, NEW u \in Pollers, t < u
      PROVE  DevicesEnd(t) <= DevicesStart(u)
  <2>1. t \in Nat /\ u \in Nat /\ t + 1 \in Nat /\ t + 1 <= u /\ u # 0
    BY <1>0, <1>3 DEF Pollers
  <2>2. Share * (t + 1) <= Share * u /\ Share * u \in Nat
    BY <2>1, Multiples
  <2> DEFINE m == Share * t
             n == Share * u
  <2>3. m \in Nat /\ n \in Nat /\ m + Share <= n
    BY <1>1, <2>2
  <2>4. DevicesEnd(t) = m + Share + Remainder /\ DevicesStart(u) = n + Remainder
    BY <1>1, <2>1
  <2> HIDE DEF m, n
  <2>. QED
    BY <2>3, <2>4
<1>. QED
  BY <1>2, <1>3

(* A worker is one of the pollers or the mock thread. *)
LEMMA WindowOf ==
  \A t \in Workers : t \in Pollers \/ t = MockThread
  BY HalSnapAssumption DEF Workers, Pollers, MockThread

-----------------------------------------------------------------------------
(* The inductive invariant *)

MainIndex == /\ main.pc \in {"init", "destroy"} => main.i < NDevices + NMock
             /\ main.pc = "spawn" => main.i < NThreads
             /\ main.pc = "join" => main.i <= NThreads
             /\ main.pc = "mock" => main.i = 0
             /\ main.pc = "init" => ~main.failed

(* A thread polls the devices of its window only, and the threads start    *)
(* after the devices are there.                                            *)
Placed ==
  \A t \in Workers :
    /\ thr[t].pc # "none" => main.pc # "init"
    /\ OnDevice(t) => /\ thr[t].dev >= DevicesStart(t)
                      /\ thr[t].dev < DevicesEnd(t)
    /\ t = MockThread /\ thr[t].pc # "none" => NMock > 0

(* A handler runs on a controller that is up and has room.  (It can find   *)
(* the controller destroyed only after a failed pthread_create.)           *)
Handling ==
  \A t \in Workers : thr[t].pc = "handler" =>
    /\ ctrl[thr[t].dev] \in {"up", "destroyed"}
    /\ inflight[thr[t].dev] < QueueDepth

Drained == \A d \in Devices : ctrl[d] = "suspended" => inflight[d] = 0

(* Unless a thread could not be created, threads end for one reason only,  *)
(* and the devices are destroyed after all of them have ended.             *)
Ended ==
  ~main.failed =>
    /\ cancelled = {}
    /\ \A t \in Workers : thr[t].pc = "exited" =>
         \A d \in 0 .. NDevices - 1 : ctrl[d] \in {"suspended", "destroyed"}
    /\ main.pc \notin {"destroy", "gone"} => \A d \in Devices : ctrl[d] # "destroyed"
    /\ main.pc = "join" => \A t \in Pollers : t < main.i => thr[t].pc = "exited"
    /\ main.pc \in {"destroy", "gone"} =>
         /\ \A t \in Pollers : thr[t].pc = "exited"
         /\ thr[MockThread].pc \in {"none", "exited"}
         /\ \A d \in 0 .. NDevices - 1 : inflight[d] = 0

IInv == TypeOK /\ MainIndex /\ Placed /\ Handling /\ Drained /\ Ended

(* The windows of all workers, the mock thread included, are within the    *)
(* devices and in order.                                                   *)
LEMMA AllWindows ==
  /\ \A t \in Workers :
       /\ DevicesStart(t) \in Nat /\ DevicesEnd(t) \in Nat
       /\ DevicesEnd(t) <= NDevices + NMock
       /\ t \in Pollers \/ NMock > 0 => DevicesStart(t) < DevicesEnd(t)
  /\ \A t, u \in Workers : t < u => DevicesEnd(t) <= DevicesStart(u)
<1>1. /\ NDevices \in Nat /\ NMock \in Nat
      /\ DevicesStart(MockThread) = NDevices /\ DevicesEnd(MockThread) = NDevices + NMock
  BY HalSnapAssumption DEF DevicesStart, DevicesEnd
<1>2. \A t, u \in Workers : t < u => t \in Pollers
  BY HalSnapAssumption DEF Workers, Pollers
<1>. QED
  BY <1>1, <1>2, Windows, WindowOf

(* Threads that stay in their windows never meet on a device. *)
LEMMA OnePoller ==
  ASSUME TypeOK, Placed
  PROVE  DeviceHasOnePoller
<1>1. SUFFICES ASSUME NEW t \in Workers, NEW u \in Workers, OnDevice(t), OnDevice(u),
                      thr[t].dev = thr[u].dev, t < u
               PROVE  FALSE
  <2>1. \A t, u \in Workers : t # u => t < u \/ u < t
    BY HalSnapAssumption DEF Workers
  <2>. QED
    BY <1>1, <2>1 DEF DeviceHasOnePoller
<1>2. thr[t].dev < DevicesEnd(t) /\ thr[u].dev >= DevicesStart(u)
  BY <1>1 DEF Placed
<1>3. DevicesEnd(t) <= DevicesStart(u) /\ DevicesEnd(t) \in Nat /\ DevicesStart(u) \in Nat
  BY <1>1, AllWindows
<1>4. thr[t].dev \in Nat
  BY <1>1, HalSnapAssumption DEF TypeOK, Devices
<1>. QED
  BY <1>1, <1>2, <1>3, <1>4

(* The initial states satisfy the invariant. *)
LEMMA InitIInv ==
  ASSUME Init
  PROVE  IInv
<1> USE HalSnapAssumption
<1>1. 0 \in Devices
  BY DEF Devices
<1>2. \A t \in Workers : thr[t].pc = "none"
  BY DEF Init
<1>3. TypeOK
  BY <1>1 DEF Init, TypeOK, MainPcs, WorkerPcs
<1>4. Placed /\ Handling
  BY <1>2, <1>3 DEF Placed, Handling, OnDevice
<1>5. MainIndex /\ Drained
  BY DEF Init, MainIndex, Drained
<1>6. Ended
  BY <1>2 DEF Init, Ended
<1>. QED
  BY <1>3, <1>4, <1>5, <1>6 DEF IInv

(* A step of one thread that leaves the devices alone. *)
LEMMA ThreadMoves ==
  ASSUME IInv, NEW t \in Workers, NEW x \in WorkerPcs \ {"none"}, NEW d \in Devices,
         thr[t].pc \notin {"none", "exited"},
         thr' \in [Workers -> [pc : WorkerPcs, dev : Devices]],
         thr'[t].pc = x, thr'[t].dev = d,
         \A u \in Workers \ {t} : thr'[u] = thr[u],
         x \in {"io", "handler", "mmio", "suspend"} => d >= DevicesStart(t) /\ d < DevicesEnd(t),
         x = "handler" => ctrl[d] = "up" /\ inflight[d] < QueueDepth,
         x = "exited" => main.failed \/ \A e \in 0 .. NDevices - 1 : ctrl[e] = "suspended",
         UNCHANGED <<main, cancelled, ctrl, suspending, poll_counter, inflight>>,
         keep_running' \in BOOLEAN
  PROVE  IInv'
<1>1. TypeOK' /\ MainIndex' /\ Drained'
  BY DEF IInv, TypeOK, MainIndex, Drained
<1>2. Placed'
  BY DEF IInv, Placed, OnDevice
<1>3. Handling'
  BY DEF IInv, Handling
<1>4. Ended'
  <2>1. SUFFICES ASSUME ~main.failed PROVE Ended'
    BY DEF Ended
  <2>2. /\ cancelled' = {}
        /\ \A u \in Workers : thr'[u].pc = "exited" =>
             \A e \in 0 .. NDevices - 1 : ctrl[e] \in {"suspended", "destroyed"}
    BY <2>1 DEF IInv, Ended
  <2>3. main.pc \notin {"destroy", "gone"}
    BY <2>1, WindowOf DEF IInv, Ended
  <2>4. main.pc = "join" => \A u \in Pollers : u < main.i => thr'[u].pc = "exited"
    <3>1. main.pc = "join" => \A u \in Pollers : u < main.i => u \in Workers \ {t} /\ thr[u].pc = "exited"
      BY <2>1, HalSnapAssumption DEF IInv, Ended, Pollers, Workers
    <3>. QED
      BY <3>1
  <2>. QED
    BY <2>1, <2>2, <2>3, <2>4 DEF IInv, Ended
<1>. QED
  BY <1>1, <1>2, <1>3, <1>4 DEF IInv

(* A step that changes the state or the counts of one device, by the thread *)
(* that is on it, and moves that thread on.                                *)
LEMMA DeviceMoves ==
  ASSUME IInv, NEW t \in Workers, OnDevice(t), NEW x \in {"io", "mmio", "suspend", "test"},
         NEW e \in Devices,
         thr' \in [Workers -> [pc : WorkerPcs, dev : Devices]],
         thr'[t].pc = x, thr'[t].dev = e,
         \A u \in Workers \ {t} : thr'[u] = thr[u],
         x # "test" => e >= DevicesStart(t) /\ e < DevicesEnd(t),
         TypeOK',
         \A d \in Devices \ {thr[t].dev} : ctrl'[d] = ctrl[d] /\ inflight'[d] = inflight[d],
         ctrl'[thr[t].dev] = "suspended" => inflight'[thr[t].dev] = 0,
         ctrl[thr[t].dev] \in {"suspended", "destroyed"} =>
           ctrl'[thr[t].dev] = ctrl[thr[t].dev],
         ctrl'[thr[t].dev] = "destroyed" => ctrl[thr[t].dev] = "destroyed",
         UNCHANGED <<main, cancelled, keep_running>>
  PROVE  IInv'
<1> DEFINE c == thr[t].dev
<1>1. MainIndex' /\ Drained'
  BY DEF IInv, MainIndex, Drained
<1>2. Placed'
  BY DEF IInv, Placed, OnDevice
<1>3. Handling'
  <2>1. \A u \in Workers \ {t} : OnDevice(u) => thr[u].dev # c
    BY OnePoller DEF IInv, DeviceHasOnePoller
  <2>2. \A u \in Workers : thr[u].dev \in Devices
    BY DEF IInv, TypeOK
  <2>. QED
    BY <2>1, <2>2 DEF IInv, Handling, OnDevice
<1>4. Ended'
  <2>1. SUFFICES ASSUME ~main.failed PROVE Ended'
    BY DEF Ended
  <2>2. main.pc \notin {"destroy", "gone"} /\ cancelled = {}
    BY <2>1, WindowOf DEF IInv, Ended, OnDevice
  <2>3. c \in Devices /\ \A d \in 0 .. NDevices - 1 : d \in Devices
    <3>1. c \in Devices
      BY DEF IInv, TypeOK
    <3>2. \A d \in 0 .. NDevices - 1 : d \in Devices
      BY HalSnapAssumption DEF Devices
    <3>. QED
      BY <3>1, <3>2
  <2>4. \A d \in Devices : ctrl[d] # "destroyed"
    BY <2>1, <2>2 DEF IInv, Ended
  <2>5. \A d \in Devices : ctrl[d] = "suspended" => ctrl'[d] = "suspended"
    BY <2>3
  <2>6. \A d \in Devices : ctrl'[d] # "destroyed"
    BY <2>3, <2>4
  <2>7. \A u \in Workers : thr'[u].pc = "exited" => u # t /\ thr[u].pc = "exited"
    OBVIOUS
  <2>8. \A u \in Workers : thr'[u].pc = "exited" =>
          \A d \in 0 .. NDevices - 1 : ctrl'[d] = "suspended"
    BY <2>1, <2>3, <2>4, <2>5, <2>7 DEF IInv, Ended
  <2>9. main.pc = "join" => \A u \in Pollers : u < main.i => thr'[u].pc = "exited"
    <3>1. main.pc = "join" => \A u \in Pollers : u < main.i => u \in Workers /\ thr[u].pc = "exited"
      BY <2>1, HalSnapAssumption DEF IInv, Ended, Pollers, Workers
    <3>. QED
      BY <3>1 DEF OnDevice
  <2>. QED
    BY <2>1, <2>2, <2>6, <2>8, <2>9 DEF Ended
<1>. QED
  BY <1>1, <1>2, <1>3, <1>4 DEF IInv

(* Every step of a polling thread preserves the invariant. *)
LEMMA WorkerStep ==
  ASSUME IInv, NEW t \in Workers, Worker(t) \/ Cancelled(t)
  PROVE  IInv'
<1> DEFINE d == thr[t].dev
<1>1. thr \in [Workers -> [pc : WorkerPcs, dev : Devices]] /\ d \in Devices
      /\ d \in Nat /\ 0 \in Devices
  <2>1. thr \in [Workers -> [pc : WorkerPcs, dev : Devices]]
    BY DEF IInv, TypeOK
  <2>. QED
    BY <2>1, HalSnapAssumption DEF Devices
<1>2. {"test", "io", "handler", "mmio", "suspend", "exited"} \subseteq WorkerPcs \ {"none"}
  BY DEF WorkerPcs
<1>3. /\ DevicesStart(t) \in Nat /\ DevicesEnd(t) \in Nat /\ DevicesEnd(t) <= NDevices + NMock
      /\ \A e \in Nat : e < NDevices + NMock => e \in Devices
  BY AllWindows, HalSnapAssumption DEF Devices
<1>4. OnDevice(t) => d >= DevicesStart(t) /\ d < DevicesEnd(t)
  BY DEF IInv, Placed
<1>5. CASE LoopTest(t)
  <2>1. /\ thr[t].pc = "test" /\ UNCHANGED <<keep_running, main, cancelled, ctrl,
                                   suspending, poll_counter, inflight>>
        /\ \/ thr' = [thr EXCEPT ![t] = [pc |-> "io", dev |-> DevicesStart(t)]]
           \/ /\ thr' = [thr EXCEPT ![t] = [pc |-> "exited", dev |-> 0]]
              /\ all_devices_suspended
    BY <1>5 DEF LoopTest, deviceVars
  <2>2. DevicesStart(t) \in Devices /\ DevicesStart(t) < DevicesEnd(t)
    <3>1. t \in Pollers \/ NMock > 0
      BY <2>1, WindowOf DEF IInv, Placed
    <3>2. DevicesStart(t) < DevicesEnd(t)
      BY <3>1, AllWindows
    <3>3. DevicesStart(t) < NDevices + NMock
      BY <1>3, <3>2, HalSnapAssumption
    <3>. QED
      BY <1>3, <3>2, <3>3
  <2>3. keep_running' \in BOOLEAN
    BY <2>1 DEF IInv, TypeOK
  <2>4. CASE thr' = [thr EXCEPT ![t] = [pc |-> "io", dev |-> DevicesStart(t)]]
    <3>1. /\ thr' \in [Workers -> [pc : WorkerPcs, dev : Devices]]
          /\ thr'[t].pc = "io" /\ thr'[t].dev = DevicesStart(t)
          /\ \A u \in Workers \ {t} : thr'[u] = thr[u]
      BY <1>1, <1>2, <2>2, <2>4
    <3>. QED
      BY <1>2, <1>3, <2>1, <2>2, <2>3, <3>1, ThreadMoves
  <2>5. CASE /\ thr' = [thr EXCEPT ![t] = [pc |-> "exited", dev |-> 0]]
             /\ all_devices_suspended
    <3>1. /\ thr' \in [Workers -> [pc : WorkerPcs, dev : Devices]]
          /\ thr'[t].pc = "exited" /\ thr'[t].dev = 0
          /\ \A u \in Workers \ {t} : thr'[u] = thr[u]
      BY <1>1, <1>2, <2>5
    <3>2. \A e \in 0 .. NDevices - 1 : ctrl[e] = "suspended"
      BY <2>5 DEF all_devices_suspended
    <3>. QED
      BY <1>1, <1>2, <2>1, <2>3, <3>1, <3>2, ThreadMoves
  <2>. QED
    BY <2>1, <2>4, <2>5
<1>6. CASE PollIo(t)
  <2>1. /\ thr[t].pc = "io" /\ UNCHANGED <<keep_running, main, cancelled, ctrl,
                                 suspending, poll_counter, inflight>>
    BY <1>6 DEF PollIo, deviceVars
  <2>2. PICK x \in {"mmio", "handler"} :
          /\ thr' = [thr EXCEPT ![t].pc = x]
          /\ x = "handler" => ctrl[d] = "up" /\ inflight[d] < QueueDepth
    BY <1>6 DEF PollIo, Goto
  <2>3. /\ thr' \in [Workers -> [pc : WorkerPcs, dev : Devices]]
        /\ thr'[t].pc = x /\ thr'[t].dev = d
        /\ \A u \in Workers \ {t} : thr'[u] = thr[u]
    BY <1>1, <1>2, <2>2
  <2>4. d >= DevicesStart(t) /\ d < DevicesEnd(t) /\ keep_running' \in BOOLEAN
    BY <1>4, <2>1 DEF OnDevice, IInv, TypeOK
  <2>5. x \in WorkerPcs \ {"none"} /\ x # "exited"
    BY <1>2
  <2>. QED
    BY <1>1, <2>1, <2>2, <2>3, <2>4, <2>5, ThreadMoves
<1>7. CASE Cancelled(t)
  <2>1. /\ t \in cancelled /\ thr[t].pc # "exited"
        /\ thr' = [thr EXCEPT ![t] = [pc |-> "exited", dev |-> 0]]
        /\ UNCHANGED <<keep_running, main, cancelled, ctrl, suspending, poll_counter,
                       inflight>>
    BY <1>7 DEF Cancelled, deviceVars
  <2>2. main.failed
    BY <2>1 DEF IInv, Ended
  <2>3. /\ thr' \in [Workers -> [pc : WorkerPcs, dev : Devices]]
        /\ thr'[t].pc = "exited" /\ thr'[t].dev = 0
        /\ \A u \in Workers \ {t} : thr'[u] = thr[u]
    BY <1>1, <1>2, <2>1
  <2>4. TypeOK' /\ MainIndex' /\ Drained'
    BY <2>1, <2>3 DEF IInv, TypeOK, MainIndex, Drained
  <2>5. Handling' /\ Ended'
    BY <2>1, <2>2, <2>3 DEF IInv, Handling, Ended
  <2>6. Placed'
    <3>1. t # MockThread
      BY <2>1, HalSnapAssumption DEF IInv, TypeOK, Pollers, MockThread
    <3>. QED
      BY <2>1, <2>2, <2>3, <3>1 DEF IInv, MainIndex, Placed, OnDevice
  <2>. QED
    BY <2>4, <2>5, <2>6 DEF IInv
<1>8. CASE HandlerReturns(t)
  <2>1. /\ thr[t].pc = "handler"
        /\ UNCHANGED <<keep_running, main, cancelled, ctrl, suspending, poll_counter>>
        /\ thr' = [thr EXCEPT ![t].pc = "mmio"]
        /\ inflight' = inflight \/ inflight' = [inflight EXCEPT ![d] = @ + 1]
    BY <1>8 DEF HandlerReturns, Goto
  <2>2. /\ thr' \in [Workers -> [pc : WorkerPcs, dev : Devices]]
        /\ thr'[t].pc = "mmio" /\ thr'[t].dev = d
        /\ \A u \in Workers \ {t} : thr'[u] = thr[u]
    BY <1>1, <1>2, <2>1
  <2>3. ctrl[d] \in {"up", "destroyed"} /\ inflight[d] < QueueDepth
    BY <2>1 DEF IInv, Handling
  <2>4. /\ inflight' \in [Devices -> 0 .. QueueDepth]
        /\ \A e \in Devices \ {d} : inflight'[e] = inflight[e]
    <3>1. inflight \in [Devices -> 0 .. QueueDepth]
      BY DEF IInv, TypeOK
    <3>2. inflight[d] + 1 \in 0 .. QueueDepth
      BY <1>1, <2>3, <3>1, HalSnapAssumption
    <3> HIDE DEF d
    <3>. QED
      BY <1>1, <2>1, <3>1, <3>2
  <2>5. TypeOK'
    BY <2>1, <2>2, <2>4 DEF IInv, TypeOK
  <2>6. OnDevice(t) /\ d >= DevicesStart(t) /\ d < DevicesEnd(t)
    BY <1>4, <2>1 DEF OnDevice
  <2>. QED
    BY <1>1, <2>1, <2>2, <2>3, <2>4, <2>5, <2>6, DeviceMoves
<1>9. CASE PollMmio(t)
  <2>1. /\ thr[t].pc = "mmio"
        /\ UNCHANGED <<keep_running, main, cancelled, suspending, inflight>>
        /\ thr' = [thr EXCEPT ![t].pc = "suspend"]
    BY <1>9 DEF PollMmio, Goto
  <2>2. /\ thr' \in [Workers -> [pc : WorkerPcs, dev : Devices]]
        /\ thr'[t].pc = "suspend" /\ thr'[t].dev = d
        /\ \A u \in Workers \ {t} : thr'[u] = thr[u]
    BY <1>1, <1>2, <2>1
  <2>3. \/ ctrl' = ctrl
        \/ ctrl[d] = "suspending" /\ inflight[d] = 0 /\ ctrl' = [ctrl EXCEPT ![d] = "suspended"]
    BY <1>9 DEF PollMmio, Progressed
  <2>4. /\ ctrl' \in [Devices -> {"absent", "up", "suspending", "suspended", "destroyed"}]
        /\ \A e \in Devices \ {d} : ctrl'[e] = ctrl[e]
        /\ \/ ctrl'[d] = ctrl[d]
           \/ ctrl[d] = "suspending" /\ ctrl'[d] = "suspended" /\ inflight[d] = 0
    <3>1. ctrl \in [Devices -> {"absent", "up", "suspending", "suspended", "destroyed"}]
      BY DEF IInv, TypeOK
    <3>2. CASE ctrl' = ctrl
      BY <3>1, <3>2
    <3>3. CASE /\ ctrl[d] = "suspending" /\ inflight[d] = 0
               /\ ctrl' = [ctrl EXCEPT ![d] = "suspended"]
      BY <1>1, <3>1, <3>3
    <3>. QED
      BY <2>3, <3>2, <3>3
  <2>5. poll_counter' \in [Devices -> 0 .. MmioEvery]
    <3>1. poll_counter \in [Devices -> 0 .. MmioEvery]
      BY DEF IInv, TypeOK
    <3>2. \/ poll_counter' = poll_counter
          \/ poll_counter' = [poll_counter EXCEPT ![d] = IF @ = MmioEvery THEN 0 ELSE @ + 1]
      BY <1>9 DEF PollMmio
    <3>3. \A n \in 0 .. MmioEvery : (IF n = MmioEvery THEN 0 ELSE n + 1) \in 0 .. MmioEvery
      BY HalSnapAssumption
    <3> HIDE DEF d
    <3>. QED
      BY <1>1, <3>1, <3>2, <3>3
  <2>6. TypeOK'
    BY <2>1, <2>2, <2>4, <2>5 DEF IInv, TypeOK
  <2>7. OnDevice(t) /\ d >= DevicesStart(t) /\ d < DevicesEnd(t)
    BY <1>4, <2>1 DEF OnDevice
  <2>8. ctrl'[d] = "suspended" => inflight'[d] = 0
    BY <1>1, <2>1, <2>4 DEF IInv, Drained
  <2>. QED
    BY <1>1, <2>1, <2>2, <2>4, <2>6, <2>7, <2>8, DeviceMoves
<1>10. CASE SuspendCheck(t)
  <2>1. /\ thr[t].pc = "suspend"
        /\ UNCHANGED <<keep_running, main, cancelled, poll_counter, inflight>>
        /\ thr' = [thr EXCEPT ![t] = IF d + 1 < DevicesEnd(t)
                                     THEN [pc |-> "io", dev |-> d + 1]
                                     ELSE [pc |-> "test", dev |-> 0]]
    BY <1>10 DEF SuspendCheck
  <2>2. PICK x \in {"io", "test"}, e \in Devices :
          /\ thr' = [thr EXCEPT ![t] = [pc |-> x, dev |-> e]]
          /\ x = "io" => e = d + 1 /\ e < DevicesEnd(t)
    <3>1. CASE d + 1 < DevicesEnd(t)
      <4>1. d + 1 \in Devices
        BY <1>1, <1>3, <3>1, HalSnapAssumption
      <4>. QED
        BY <2>1, <3>1, <4>1
    <3>2. CASE ~(d + 1 < DevicesEnd(t))
      BY <1>1, <2>1, <3>2
    <3>. QED
      BY <3>1, <3>2
  <2>3. /\ thr' \in [Workers -> [pc : WorkerPcs, dev : Devices]]
        /\ thr'[t].pc = x /\ thr'[t].dev = e
        /\ \A u \in Workers \ {t} : thr'[u] = thr[u]
    BY <1>1, <1>2, <2>2
  <2>4. /\ ctrl' \in [Devices -> {"absent", "up", "suspending", "suspended", "destroyed"}]
        /\ \A c \in Devices \ {d} : ctrl'[c] = ctrl[c]
        /\ \/ ctrl'[d] = ctrl[d]
           \/ ctrl[d] = "up" /\ ctrl'[d] = "suspending"
        /\ suspending' \in [Devices -> BOOLEAN]
    <3>1. /\ ctrl \in [Devices -> {"absent", "up", "suspending", "suspended", "destroyed"}]
          /\ suspending \in [Devices -> BOOLEAN]
      BY DEF IInv, TypeOK
    <3>2. /\ \/ ctrl' = ctrl
             \/ ctrl[d] = "up" /\ ctrl' = [ctrl EXCEPT ![d] = "suspending"]
          /\ suspending' = suspending \/ suspending' = [suspending EXCEPT ![d] = TRUE]
      <4>1. \/ /\ ctrl' = IF ctrl[d] = "up" THEN [ctrl EXCEPT ![d] = "suspending"] ELSE ctrl
               /\ suspending' = [suspending EXCEPT ![d] = TRUE]
            \/ UNCHANGED <<ctrl, suspending>>
        BY <1>10 DEF SuspendCheck
      <4>. QED
        BY <4>1
    <3>3. suspending' \in [Devices -> BOOLEAN]
      BY <1>1, <3>1, <3>2
    <3>4. CASE ctrl' = ctrl
      BY <3>1, <3>3, <3>4
    <3>5. CASE ctrl[d] = "up" /\ ctrl' = [ctrl EXCEPT ![d] = "suspending"]
      BY <1>1, <3>1, <3>3, <3>5
    <3>. QED
      BY <3>2, <3>4, <3>5
  <2>5. TypeOK'
    BY <2>1, <2>3, <2>4 DEF IInv, TypeOK
  <2>6. OnDevice(t) /\ d >= DevicesStart(t)
    BY <1>4, <2>1 DEF OnDevice
  <2>7. ctrl'[d] = "suspended" => inflight'[d] = 0
    BY <1>1, <2>1, <2>4 DEF IInv, Drained
  <2>8. x = "io" => e >= DevicesStart(t) /\ e < DevicesEnd(t)
    BY <1>1, <1>3, <2>2, <2>6
  <2>. QED
    BY <2>1, <2>2, <2>3, <2>4, <2>5, <2>6, <2>7, <2>8, DeviceMoves
<1>. QED
  BY <1>5, <1>6, <1>7, <1>8, <1>9, <1>10 DEF Worker

(* A step of main that sets its fields as the actions do. *)
MainIs(p, n, f) == /\ main' \in [pc : MainPcs, i : Nat, failed : BOOLEAN]
                   /\ main'.pc = p /\ main'.i = n /\ main'.failed = f

(* What the assignments of the main thread make of its state. *)
LEMMA MainSets ==
  ASSUME TypeOK
  PROVE  /\ main.pc \in MainPcs /\ main.i \in Nat /\ main.failed \in BOOLEAN
         /\ \A p \in MainPcs : main' = [main EXCEPT !.pc = p]
              => MainIs(p, main.i, main.failed)
         /\ \A n \in Nat : main' = [main EXCEPT !.i = n]
              => MainIs(main.pc, n, main.failed)
         /\ \A p \in MainPcs, n \in Nat : main' = [main EXCEPT !.pc = p, !.i = n]
              => MainIs(p, n, main.failed)
         /\ \A p \in MainPcs : main' = [main EXCEPT !.pc = p, !.failed = TRUE]
              => MainIs(p, main.i, TRUE)
         /\ \A p \in MainPcs : main' = [main EXCEPT !.failed = TRUE, !.i = 0, !.pc = p]
              => MainIs(p, 0, TRUE)
<1>1. main \in [pc : MainPcs, i : Nat, failed : BOOLEAN]
  BY DEF TypeOK
<1>2. main.pc \in MainPcs /\ main.i \in Nat /\ main.failed \in BOOLEAN
  BY <1>1
<1>3. ASSUME NEW p \in MainPcs, main' = [main EXCEPT !.pc = p]
      PROVE  MainIs(p, main.i, main.failed)
  BY <1>1, <1>3 DEF MainIs
<1>4. ASSUME NEW n \in Nat, main' = [main EXCEPT !.i = n]
      PROVE  MainIs(main.pc, n, main.failed)
  BY <1>1, <1>4 DEF MainIs
<1>5. ASSUME NEW p \in MainPcs, NEW n \in Nat, main' = [main EXCEPT !.pc = p, !.i = n]
      PROVE  MainIs(p, n, main.failed)
  BY <1>1, <1>5 DEF MainIs
<1>6. ASSUME NEW p \in MainPcs, main' = [main EXCEPT !.pc = p, !.failed = TRUE]
      PROVE  MainIs(p, main.i, TRUE)
  BY <1>1, <1>6 DEF MainIs
<1>7. ASSUME NEW p \in MainPcs, main' = [main EXCEPT !.failed = TRUE, !.i = 0, !.pc = p]
      PROVE  MainIs(p, 0, TRUE)
  BY <1>1, <1>7 DEF MainIs
<1>. QED
  BY <1>2, <1>3, <1>4, <1>5, <1>6, <1>7

(* dpfs_hal_new preserves the invariant. *)
LEMMA InitDevStep ==
  ASSUME IInv, InitDev
  PROVE  IInv'
<1> USE HalSnapAssumption
<1>1. /\ thr \in [Workers -> [pc : WorkerPcs, dev : Devices]]
      /\ ctrl \in [Devices -> {"absent", "up", "suspending", "suspended", "destroyed"}]
      /\ TypeOK
  BY DEF IInv, TypeOK
<1>2. /\ main.pc = "init" /\ main.i < NDevices + NMock /\ main.i \in Nat
      /\ main.failed = FALSE
      /\ UNCHANGED <<keep_running, thr, cancelled, suspending, poll_counter, inflight>>
  BY <1>1, MainSets DEF InitDev, IInv, MainIndex
<1>3. main.i \in Devices
  BY <1>2 DEF Devices
<1>4. \A t \in Workers : thr[t].pc = "none"
  BY <1>2 DEF IInv, Placed
<1>5. /\ cancelled = {} /\ \A d \in Devices : ctrl[d] # "destroyed"
  BY <1>2 DEF IInv, Ended
<1>6. \/ /\ ctrl' = [ctrl EXCEPT ![main.i] = "up"]
         /\ main' = [main EXCEPT !.pc = "spawn", !.i = 0]
      \/ /\ ctrl' = [ctrl EXCEPT ![main.i] = "up"]
         /\ main.i + 1 # NDevices + NMock /\ main' = [main EXCEPT !.i = main.i + 1]
      \/ /\ ctrl' = [d \in Devices |-> IF d < main.i THEN "destroyed" ELSE ctrl[d]]
         /\ main' = [main EXCEPT !.pc = "gone", !.failed = TRUE]
  BY InitDev DEF InitDev
<1>0. {"spawn", "init", "gone"} \subseteq MainPcs
  BY DEF MainPcs
<1>7. /\ main' \in [pc : MainPcs, i : Nat, failed : BOOLEAN]
      /\ \/ main'.pc = "spawn" /\ main'.i = 0 /\ main'.failed = FALSE
         \/ main'.pc = "init" /\ main'.i = main.i + 1 /\ main'.i < NDevices + NMock
            /\ main'.failed = FALSE
         \/ main'.pc = "gone" /\ main'.failed = TRUE
  <2>1. CASE main' = [main EXCEPT !.pc = "spawn", !.i = 0]
    <3>1. MainIs("spawn", 0, main.failed)
      BY <1>1, <1>0, <2>1, MainSets
    <3>. QED
      BY <1>2, <3>1 DEF MainIs
  <2>2. CASE main.i + 1 # NDevices + NMock /\ main' = [main EXCEPT !.i = main.i + 1]
    <3>1. main.i + 1 \in Nat /\ main.i + 1 < NDevices + NMock
      BY <1>2, <2>2
    <3>2. MainIs(main.pc, main.i + 1, main.failed)
      BY <1>1, <2>2, <3>1, MainSets
    <3>. QED
      BY <1>2, <3>1, <3>2 DEF MainIs
  <2>3. CASE main' = [main EXCEPT !.pc = "gone", !.failed = TRUE]
    <3>1. MainIs("gone", main.i, TRUE)
      BY <1>1, <1>0, <2>3, MainSets
    <3>. QED
      BY <3>1 DEF MainIs
  <2>. QED
    BY <1>6, <2>1, <2>2, <2>3
<1>8. /\ ctrl' \in [Devices -> {"absent", "up", "suspending", "suspended", "destroyed"}]
      /\ \A d \in Devices : ctrl'[d] = "suspended" => ctrl[d] = "suspended"
      /\ \A d \in Devices : ctrl'[d] = "destroyed" => main'.failed
  <2>1. CASE ctrl' = [ctrl EXCEPT ![main.i] = "up"]
    BY <1>1, <1>3, <1>5, <2>1
  <2>2. CASE /\ ctrl' = [d \in Devices |-> IF d < main.i THEN "destroyed" ELSE ctrl[d]]
             /\ main' = [main EXCEPT !.pc = "gone", !.failed = TRUE]
    <3>1. main'.failed
      BY <1>1, <1>0, <2>2, MainSets DEF MainIs
    <3>. QED
      BY <1>1, <2>2, <3>1
  <2>. QED
    BY <1>6, <2>1, <2>2
<1>9. TypeOK'
  BY <1>2, <1>7, <1>8 DEF IInv, TypeOK
<1>10. MainIndex'
  BY <1>7 DEF MainIndex
<1>11. Placed' /\ Handling' /\ Drained'
  BY <1>2, <1>4, <1>8 DEF IInv, Placed, Handling, Drained, OnDevice
<1>12. Ended'
  BY <1>2, <1>4, <1>5, <1>7, <1>8 DEF Ended
<1>. QED
  BY <1>9, <1>10, <1>11, <1>12 DEF IInv

(* A step of main that leaves the devices alone and may start one thread.  *)
LEMMA MainMoves ==
  ASSUME IInv, TypeOK', MainIndex', main.pc # "init", main'.pc # "init",
         main.failed => main'.failed,
         UNCHANGED <<keep_running, ctrl, suspending, poll_counter, inflight>>,
         main'.failed \/ cancelled' = cancelled,
         \A t \in Workers : thr'[t] = thr[t] \/ thr'[t].pc = "test",
         thr'[MockThread] = thr[MockThread] \/ NMock > 0,
         ~main'.failed => main.pc \notin {"destroy", "gone"},
         ~main'.failed /\ main'.pc = "join" =>
           \A t \in Pollers : t < main'.i => thr'[t].pc = "exited",
         ~main'.failed /\ main'.pc \in {"destroy", "gone"} =>
           /\ \A t \in Pollers : thr'[t].pc = "exited"
           /\ thr'[MockThread].pc \in {"none", "exited"}
  PROVE  IInv'
<1> USE HalSnapAssumption
<1>1. Placed'
  <2>1. ASSUME NEW t \in Workers, thr'[t] = thr[t]
        PROVE  /\ OnDevice(t)' => thr'[t].dev >= DevicesStart(t) /\ thr'[t].dev < DevicesEnd(t)
               /\ t = MockThread /\ thr'[t].pc # "none" => NMock > 0
    BY <2>1 DEF IInv, Placed, OnDevice
  <2>2. ASSUME NEW t \in Workers, thr'[t].pc = "test"
        PROVE  ~OnDevice(t)'
    BY <2>2 DEF OnDevice
  <2>3. NMock > 0 \/ thr'[MockThread] = thr[MockThread]
    OBVIOUS
  <2>. QED
    BY <2>1, <2>2, <2>3 DEF Placed
<1>2. Handling' /\ Drained'
  BY DEF IInv, Handling, Drained
<1>3. Ended'
  <2>1. SUFFICES ASSUME ~main'.failed PROVE Ended'
    BY DEF Ended
  <2>2. ~main.failed /\ cancelled' = {}
    BY <2>1 DEF IInv, Ended
  <2>3. \A d \in Devices : ctrl'[d] # "destroyed"
    BY <2>1, <2>2 DEF IInv, Ended
  <2>4. \A t \in Workers : thr'[t].pc = "exited" =>
          \A d \in 0 .. NDevices - 1 : ctrl'[d] \in {"suspended", "destroyed"}
    BY <2>2 DEF IInv, Ended
  <2>5. \A d \in 0 .. NDevices - 1 : d \in Devices
    BY DEF Devices
  <2>6. main'.pc \in {"destroy", "gone"} => \A d \in 0 .. NDevices - 1 : inflight'[d] = 0
    <3>1. SUFFICES ASSUME main'.pc \in {"destroy", "gone"}, NEW d \in 0 .. NDevices - 1
                   PROVE  inflight[d] = 0
      OBVIOUS
    <3>2. 0 \in Pollers /\ 0 \in Workers
      BY DEF Pollers, Workers
    <3>3. thr'[0].pc = "exited"
      BY <2>1, <3>1, <3>2
    <3>4. ctrl[d] = "suspended"
      BY <2>3, <2>4, <2>5, <3>2, <3>3
    <3>. QED
      BY <2>5, <3>4 DEF IInv, Drained
  <2>. QED
    BY <2>1, <2>2, <2>3, <2>4, <2>6 DEF Ended
<1>. QED
  BY <1>1, <1>2, <1>3 DEF IInv

(* A new thread starts at its loop test, and leaves the others alone. *)
LEMMA ThreadStarts ==
  ASSUME TypeOK, NEW t \in Workers, Started(t)
  PROVE  /\ thr' \in [Workers -> [pc : WorkerPcs, dev : Devices]]
         /\ thr'[t].pc = "test" /\ \A u \in Workers \ {t} : thr'[u] = thr[u]
<1>1. thr \in [Workers -> [pc : WorkerPcs, dev : Devices]]
  BY DEF TypeOK
<1>2. "test" \in WorkerPcs /\ 0 \in Devices
  BY HalSnapAssumption DEF WorkerPcs, Devices
<1>. QED
  BY <1>1, <1>2 DEF Started

(* Creating a polling thread, or failing to, preserves the invariant. *)
LEMMA SpawnPollerStep ==
  ASSUME IInv, SpawnPoller
  PROVE  IInv'
<1> USE HalSnapAssumption
<1>0. {"spawn", "mock", "destroy", "cancel_loop"} \subseteq MainPcs
  BY DEF MainPcs
<1>1. /\ TypeOK /\ main.pc = "spawn" /\ main.i \in Nat /\ main.i < NThreads
      /\ UNCHANGED <<keep_running, ctrl, suspending, poll_counter, inflight>>
  BY MainSets DEF IInv, SpawnPoller, MainIndex, deviceVars
<1>2. main.i \in Pollers /\ main.i \in Workers /\ main.i # MockThread /\ MockThread \in Workers
      /\ 0 \in Pollers
  BY <1>1 DEF Pollers, Workers, MockThread
<1>3. CASE /\ Started(main.i) /\ UNCHANGED cancelled
           /\ main' = IF main.i + 1 = NThreads
                      THEN [main EXCEPT !.pc = "mock", !.i = 0]
                      ELSE [main EXCEPT !.i = @ + 1]
  <2>1. /\ thr' \in [Workers -> [pc : WorkerPcs, dev : Devices]]
        /\ thr'[main.i].pc = "test" /\ \A u \in Workers \ {main.i} : thr'[u] = thr[u]
    BY <1>1, <1>2, <1>3, ThreadStarts
  <2>2. \/ MainIs("mock", 0, main.failed)
        \/ MainIs("spawn", main.i + 1, main.failed) /\ main.i + 1 < NThreads
    <3>1. CASE main.i + 1 = NThreads
      BY <1>0, <1>1, <1>3, <3>1, MainSets
    <3>2. CASE main.i + 1 # NThreads
      <4>1. main' = [main EXCEPT !.i = main.i + 1]
        BY <1>3, <3>2
      <4>2. main.i + 1 \in Nat /\ main.i + 1 < NThreads
        BY <1>1, <3>2
      <4>3. MainIs(main.pc, main.i + 1, main.failed)
        BY <1>1, <4>1, <4>2, MainSets
      <4>. QED
        BY <1>1, <4>2, <4>3
    <3>. QED
      BY <3>1, <3>2
  <2>3. /\ main' \in [pc : MainPcs, i : Nat, failed : BOOLEAN] /\ main'.failed = main.failed
        /\ main'.pc \in {"mock", "spawn"} /\ main'.i < NThreads
        /\ main'.pc = "mock" => main'.i = 0
    BY <2>2 DEF MainIs
  <2>4. TypeOK'
    BY <1>1, <1>3, <2>1, <2>3 DEF TypeOK
  <2>5. MainIndex'
    BY <2>3 DEF MainIndex
  <2>. QED
    BY <1>1, <1>2, <1>3, <2>1, <2>3, <2>4, <2>5, MainMoves
<1>4. CASE /\ main' = [main EXCEPT !.failed = TRUE, !.i = 0,
                         !.pc = IF main.i = 0 THEN "destroy" ELSE "cancel_loop"]
           /\ cancelled' = IF main.i = 0 THEN {} ELSE {0}
           /\ UNCHANGED thr
  <2>1. PICK p \in {"destroy", "cancel_loop"} :
          main' = [main EXCEPT !.failed = TRUE, !.i = 0, !.pc = p]
    BY <1>4
  <2>2. MainIs(p, 0, TRUE)
    BY <1>0, <1>1, <2>1, MainSets
  <2>3. /\ main' \in [pc : MainPcs, i : Nat, failed : BOOLEAN] /\ main'.failed
        /\ main'.pc \in {"destroy", "cancel_loop"} /\ main'.i = 0
    BY <2>2 DEF MainIs
  <2>4. cancelled' \in SUBSET Pollers
    BY <1>2, <1>4
  <2>5. TypeOK'
    BY <1>1, <1>4, <2>3, <2>4 DEF TypeOK
  <2>6. MainIndex'
    BY <2>3 DEF MainIndex
  <2>. QED
    BY <1>1, <1>4, <2>3, <2>5, <2>6, MainMoves
<1>. QED
  BY SpawnPoller, <1>3, <1>4 DEF SpawnPoller

(* Creating the mock thread, or failing to, preserves the invariant. *)
LEMMA SpawnMockStep ==
  ASSUME IInv, SpawnMock
  PROVE  IInv'
<1> USE HalSnapAssumption
<1>0. {"join", "destroy"} \subseteq MainPcs
  BY DEF MainPcs
<1>1. /\ TypeOK /\ main.pc = "mock" /\ main.i = 0
      /\ UNCHANGED <<keep_running, ctrl, suspending, poll_counter, inflight>>
      /\ MockThread \in Workers
      /\ \A t \in Pollers : ~(t < 0)
  BY DEF IInv, SpawnMock, MainIndex, deviceVars, MockThread, Workers, Pollers
<1>2. CASE main' = [main EXCEPT !.pc = "join"] /\ UNCHANGED cancelled
           /\ (UNCHANGED thr \/ (Started(MockThread) /\ NMock > 0))
  <2>1. MainIs("join", 0, main.failed)
    BY <1>0, <1>1, <1>2, MainSets
  <2>2. /\ thr' \in [Workers -> [pc : WorkerPcs, dev : Devices]]
        /\ \A t \in Workers : thr'[t] = thr[t] \/ thr'[t].pc = "test"
        /\ thr'[MockThread] = thr[MockThread] \/ NMock > 0
    <3>1. CASE UNCHANGED thr
      BY <1>1, <3>1 DEF TypeOK
    <3>2. CASE Started(MockThread) /\ NMock > 0
      BY <1>1, <3>2, ThreadStarts
    <3>. QED
      BY <1>2, <3>1, <3>2
  <2>3. /\ main' \in [pc : MainPcs, i : Nat, failed : BOOLEAN] /\ main'.failed = main.failed
        /\ main'.pc = "join" /\ main'.i = 0
    BY <2>1 DEF MainIs
  <2>4. TypeOK'
    BY <1>1, <1>2, <2>2, <2>3 DEF TypeOK
  <2>5. MainIndex'
    BY <2>3 DEF MainIndex
  <2>. QED
    BY <1>1, <1>2, <2>2, <2>3, <2>4, <2>5, MainMoves
<1>3. CASE main' = [main EXCEPT !.pc = "destroy", !.failed = TRUE]
           /\ cancelled' = Pollers /\ UNCHANGED thr
  <2>1. MainIs("destroy", 0, TRUE)
    BY <1>0, <1>1, <1>3, MainSets
  <2>3. /\ main' \in [pc : MainPcs, i : Nat, failed : BOOLEAN] /\ main'.failed
        /\ main'.pc = "destroy" /\ main'.i = 0
    BY <2>1 DEF MainIs
  <2>4. TypeOK'
    BY <1>1, <1>3, <2>3 DEF TypeOK
  <2>5. MainIndex'
    BY <2>3 DEF MainIndex
  <2>. QED
    BY <1>1, <1>3, <2>3, <2>4, <2>5, MainMoves
<1>4. \/ /\ main' = [main EXCEPT !.pc = "join"] /\ UNCHANGED cancelled
         /\ (UNCHANGED thr \/ (Started(MockThread) /\ NMock > 0))
      \/ /\ main' = [main EXCEPT !.pc = "destroy", !.failed = TRUE]
         /\ cancelled' = Pollers /\ UNCHANGED thr
  <2>1. SpawnMock
    OBVIOUS
  <2>. QED
    BY <2>1 DEF SpawnMock
<1>. QED
  BY <1>2, <1>3, <1>4

(* Joining a thread preserves the invariant. *)
LEMMA JoinStep ==
  ASSUME IInv, Join
  PROVE  IInv'
<1> USE HalSnapAssumption
<1>0. {"join", "destroy"} \subseteq MainPcs
  BY DEF MainPcs
<1>1. /\ TypeOK /\ main.pc = "join" /\ main.i \in Nat /\ main.i <= NThreads
      /\ UNCHANGED <<keep_running, thr, cancelled, ctrl, suspending, poll_counter, inflight>>
  BY MainSets DEF IInv, Join, MainIndex, deviceVars
<1>2. ~main.failed => \A t \in Pollers : t < main.i => thr[t].pc = "exited"
  BY <1>1 DEF IInv, Ended
<1>3. CASE main.i = NThreads
  <2>1. MainIs("destroy", 0, main.failed) /\ (NMock > 0 => thr[MockThread].pc = "exited")
    <3>1. main' = [main EXCEPT !.pc = "destroy", !.i = 0]
          /\ (NMock > 0 => thr[MockThread].pc = "exited")
      BY Join, <1>3 DEF Join
    <3>. QED
      BY <1>0, <1>1, <3>1, MainSets
  <2>2. /\ main' \in [pc : MainPcs, i : Nat, failed : BOOLEAN] /\ main'.failed = main.failed
        /\ main'.pc = "destroy" /\ main'.i = 0
    BY <2>1 DEF MainIs
  <2>3. TypeOK'
    BY <1>1, <2>2 DEF TypeOK
  <2>4. MainIndex'
    BY <2>2 DEF MainIndex
  <2>5. \A t \in Pollers : t < main.i
    BY <1>3 DEF Pollers
  <2>6. thr[MockThread].pc \in {"none", "exited"}
    <3>1. MockThread \in Workers
      BY DEF MockThread, Workers
    <3>. QED
      BY <2>1, <3>1 DEF IInv, Placed
  <2>. QED
    BY <1>1, <1>2, <2>2, <2>3, <2>4, <2>5, <2>6, MainMoves
<1>4. CASE main.i # NThreads
  <2>1. main' = [main EXCEPT !.i = main.i + 1] /\ thr[main.i].pc = "exited"
    BY Join, <1>4 DEF Join
  <2>2. main.i + 1 \in Nat /\ main.i + 1 <= NThreads
    BY <1>1, <1>4
  <2>3. MainIs(main.pc, main.i + 1, main.failed)
    BY <1>1, <2>1, <2>2, MainSets
  <2>4. /\ main' \in [pc : MainPcs, i : Nat, failed : BOOLEAN] /\ main'.failed = main.failed
        /\ main'.pc = "join" /\ main'.i = main.i + 1
    BY <1>1, <2>3 DEF MainIs
  <2>5. TypeOK'
    BY <1>1, <2>4 DEF TypeOK
  <2>6. MainIndex'
    BY <2>2, <2>4 DEF MainIndex
  <2>7. \A t \in Pollers : t < main.i + 1 => t < main.i \/ t = main.i
    BY <1>1 DEF Pollers
  <2>8. ~main.failed => \A t \in Pollers : t < main'.i => thr'[t].pc = "exited"
    BY <1>1, <1>2, <2>1, <2>4, <2>7
  <2>. QED
    BY <1>1, <2>4, <2>5, <2>6, <2>8, MainMoves
<1>. QED
  BY <1>3, <1>4

(* dpfs_hal_destroy preserves the invariant. *)
LEMMA DestroyDevStep ==
  ASSUME IInv, DestroyDev
  PROVE  IInv'
<1> USE HalSnapAssumption
<1>0. {"gone", "destroy"} \subseteq MainPcs
  BY DEF MainPcs
<1>1. /\ TypeOK /\ main.pc = "destroy" /\ main.i \in Nat /\ main.i < NDevices + NMock
      /\ UNCHANGED <<keep_running, thr, cancelled, suspending, poll_counter, inflight>>
      /\ ctrl' = [ctrl EXCEPT ![main.i] = "destroyed"]
  BY MainSets DEF IInv, DestroyDev, MainIndex
<1>2. \/ MainIs("gone", main.i, main.failed)
      \/ MainIs("destroy", main.i + 1, main.failed) /\ main.i + 1 < NDevices + NMock
  <2>1. CASE main.i + 1 = NDevices + NMock
    <3>1. main' = [main EXCEPT !.pc = "gone"]
      BY DestroyDev, <2>1 DEF DestroyDev
    <3>. QED
      BY <1>0, <1>1, <3>1, MainSets
  <2>2. CASE main.i + 1 # NDevices + NMock
    <3>1. main' = [main EXCEPT !.i = main.i + 1]
      BY DestroyDev, <2>2 DEF DestroyDev
    <3>2. main.i + 1 \in Nat /\ main.i + 1 < NDevices + NMock
      BY <1>1, <2>2
    <3>3. MainIs(main.pc, main.i + 1, main.failed)
      BY <1>1, <3>1, <3>2, MainSets
    <3>. QED
      BY <1>1, <3>2, <3>3
  <2>. QED
    BY <2>1, <2>2
<1>3. /\ main' \in [pc : MainPcs, i : Nat, failed : BOOLEAN] /\ main'.failed = main.failed
      /\ main'.pc \in {"gone", "destroy"} /\ (main'.pc = "destroy" => main'.i < NDevices + NMock)
  BY <1>2 DEF MainIs
<1>4. /\ ctrl' \in [Devices -> {"absent", "up", "suspending", "suspended", "destroyed"}]
      /\ \A d \in Devices : ctrl'[d] = ctrl[d] \/ ctrl'[d] = "destroyed"
  <2>1. ctrl \in [Devices -> {"absent", "up", "suspending", "suspended", "destroyed"}]
    BY <1>1 DEF TypeOK
  <2>2. main.i \in Devices
    BY <1>1 DEF Devices
  <2>. QED
    BY <1>1, <2>1, <2>2
<1>5. TypeOK'
  BY <1>1, <1>3, <1>4 DEF TypeOK
<1>6. MainIndex'
  BY <1>3 DEF MainIndex
<1>7. Placed'
  BY <1>1, <1>3 DEF IInv, Placed, OnDevice
<1>8. Handling'
  <2>1. \A t \in Workers : thr[t].dev \in Devices
    BY <1>1 DEF TypeOK
  <2>. QED
    BY <1>1, <1>4, <2>1 DEF IInv, Handling
<1>9. Drained'
  BY <1>1, <1>4 DEF IInv, Drained
<1>10. Ended'
  <2>1. \A d \in 0 .. NDevices - 1 : d \in Devices
    BY DEF Devices
  <2>2. ~main.failed => \A t \in Workers : thr[t].pc = "exited" =>
          \A d \in 0 .. NDevices - 1 : ctrl'[d] \in {"suspended", "destroyed"}
    BY <1>4, <2>1 DEF IInv, Ended
  <2>. QED
    BY <1>1, <1>3, <2>2 DEF IInv, Ended
<1>. QED
  BY <1>5, <1>6, <1>7, <1>8, <1>9, <1>10 DEF IInv

(* A completed request preserves the invariant. *)
LEMMA CompleteStep ==
  ASSUME IInv, NEW d \in Devices, async_complete(d)
  PROVE  IInv'
<1> USE HalSnapAssumption
<1>1. /\ inflight[d] > 0 /\ inflight' = [inflight EXCEPT ![d] = inflight[d] - 1]
      /\ UNCHANGED <<keep_running, main, thr, cancelled, ctrl, suspending, poll_counter>>
  BY async_complete(d) DEF async_complete
<1>2. inflight \in [Devices -> 0 .. QueueDepth]
  BY DEF IInv, TypeOK
<1>3. inflight[d] - 1 \in 0 .. QueueDepth /\ inflight[d] - 1 < inflight[d]
  BY <1>1, <1>2
<1>4. /\ inflight' \in [Devices -> 0 .. QueueDepth]
      /\ \A e \in Devices : inflight'[e] = inflight[e] \/ inflight'[e] < inflight[e]
  BY <1>1, <1>2, <1>3
<1>5. \A e \in Devices : inflight[e] = 0 => inflight'[e] = 0
  BY <1>2, <1>4
<1>6. TypeOK'
  BY <1>1, <1>4 DEF IInv, TypeOK
<1>7. MainIndex' /\ Placed'
  BY <1>1 DEF IInv, MainIndex, Placed, OnDevice
<1>8. Handling'
  <2>1. \A t \in Workers : thr[t].dev \in Devices
    BY DEF IInv, TypeOK
  <2>2. \A e \in Devices : inflight[e] < QueueDepth => inflight'[e] < QueueDepth
    BY <1>2, <1>4
  <2>. QED
    BY <1>1, <2>1, <2>2 DEF IInv, Handling
<1>9. Drained'
  BY <1>1, <1>5 DEF IInv, Drained
<1>10. Ended'
  <2>1. \A e \in 0 .. NDevices - 1 : e \in Devices
    BY DEF Devices
  <2>. QED
    BY <1>1, <1>5, <2>1 DEF IInv, Ended
<1>. QED
  BY <1>6, <1>7, <1>8, <1>9, <1>10 DEF IInv

(* What only changes keep_running preserves the invariant. *)
LEMMA Quiet ==
  ASSUME IInv, keep_running' \in BOOLEAN, UNCHANGED <<main, thr, cancelled, deviceVars>>
  PROVE  IInv'
  BY DEF IInv, TypeOK, MainIndex, Placed, OnDevice, Handling, Drained, Ended, deviceVars

-----------------------------------------------------------------------------
(* The theorems *)

(* Whatever the pollers, the main thread, the signal and the completions   *)
(* do, in any order, the invariant holds.                                  *)
THEOREM Invariance == Spec => []IInv
<1>1. Init => IInv
  BY InitIInv
<1>2. IInv /\ [Next]_vars => IInv'
  <2>1. SUFFICES ASSUME IInv, [Next]_vars PROVE IInv'
    OBVIOUS
  <2>2. CASE Main
    BY <2>1, <2>2, InitDevStep, SpawnPollerStep, SpawnMockStep, JoinStep, DestroyDevStep
       DEF Main
  <2>3. CASE signal_handler
    BY <2>1, <2>3, Quiet DEF signal_handler
  <2>4. CASE \E t \in Workers : Worker(t) \/ Cancelled(t)
    BY <2>1, <2>4, WorkerStep
  <2>5. CASE \E d \in Devices : async_complete(d)
    BY <2>1, <2>5, CompleteStep
  <2>6. CASE UNCHANGED vars
    <3>1. keep_running' \in BOOLEAN /\ UNCHANGED <<main, thr, cancelled, deviceVars>>
      BY <2>1, <2>6 DEF vars, deviceVars, IInv, TypeOK
    <3>. QED
      BY <2>1, <3>1, Quiet
  <2>. QED
    BY <2>1, <2>2, <2>3, <2>4, <2>5, <2>6 DEF Next
<1>. QED
  BY <1>1, <1>2, PTL DEF Spec

(* Every index, device, counter and number of requests in flight stays in  *)
(* its range: no thread leaves the array of devices (dpfs_hal_loop_static_ *)
(* thread), poll_counter never passes the mmio interval.                   *)
THEOREM TypeCorrect == Spec => []TypeOK
<1>1. IInv => TypeOK
  BY DEF IInv
<1>. QED
  BY <1>1, Invariance, PTL

(* A device is polled by one thread only, for every number of devices and  *)
(* threads: the windows with the remainder never overlap.                  *)
THEOREM OnePollerPerDevice == Spec => []DeviceHasOnePoller
<1>1. IInv => DeviceHasOnePoller
  BY OnePoller DEF IInv
<1>. QED
  BY <1>1, Invariance, PTL

(* When no thread was refused, dpfs_hal_destroy frees devices that are     *)
(* suspended, have nothing in flight and that no thread polls any more.    *)
THEOREM DestroyIsDrained == Spec => []DestroyedDrained
<1>1. IInv => DestroyedDrained
  <2>1. SUFFICES ASSUME IInv, main.pc \in {"destroy", "gone"}, ~main.failed
                 PROVE  \A d \in 0 .. NDevices - 1 :
                          /\ ctrl[d] \in {"suspended", "destroyed"} /\ inflight[d] = 0
                          /\ \A t \in Workers : ~OnDevice(t)
    BY DEF DestroyedDrained
  <2>2. /\ \A t \in Pollers : thr[t].pc = "exited"
        /\ thr[MockThread].pc \in {"none", "exited"}
        /\ \A d \in 0 .. NDevices - 1 : inflight[d] = 0
    BY <2>1 DEF IInv, Ended
  <2>3. 0 \in Pollers /\ 0 \in Workers
    BY HalSnapAssumption DEF Pollers, Workers
  <2>4. \A d \in 0 .. NDevices - 1 : ctrl[d] \in {"suspended", "destroyed"}
    BY <2>1, <2>2, <2>3 DEF IInv, Ended
  <2>5. \A t \in Workers : ~OnDevice(t)
    BY <2>2, WindowOf DEF OnDevice
  <2>. QED
    BY <2>2, <2>4, <2>5
<1>. QED
  BY <1>1, Invariance, PTL

(* dpfs_hal_loop_static_thread forgets no device: each lies in the window  *)
(* of a polling thread, also when the threads do not divide the devices.   *)
THEOREM EveryDeviceHasAPoller ==
  \A d \in 0 .. NDevices - 1 :
    \E t \in Pollers : DevicesStart(t) <= d /\ d < DevicesEnd(t)
<1> USE DivisionFacts
<1>0. NThreads \in Nat /\ NDevices \in Nat /\ NThreads >= 1
  BY HalSnapAssumption
<1>1. SUFFICES ASSUME NEW d \in 0 .. NDevices - 1
               PROVE  \E t \in Pollers : DevicesStart(t) <= d /\ d < DevicesEnd(t)
  OBVIOUS
<1>2. CASE d < Share + Remainder
  <2>1. 0 \in Pollers /\ 0 # MockThread
    BY <1>0 DEF Pollers, MockThread
  <2>2. Share * 0 = 0
    BY Z3
  <2>3. DevicesStart(0) = 0 /\ DevicesEnd(0) = Share + Remainder
    BY <2>1, <2>2 DEF DevicesStart, DevicesEnd
  <2>. QED
    BY <1>2, <2>1, <2>3
<1>3. CASE ~(d < Share + Remainder)
  <2> DEFINE a == d - Remainder
             t == a \div Share
  <2>1. a \in Nat /\ a >= Share /\ d = a + Remainder
    BY <1>0, <1>3
  <2>2. a = Share * t + (a % Share)
    BY <2>1, DivMod
  <2>3. t \in Nat /\ a % Share \in Nat /\ a % Share < Share
    BY <2>1, Z3
  <2> HIDE DEF t
  <2>4. t # 0
    <3>1. Share * 0 = 0
      BY Z3
    <3>. QED
      BY <2>1, <2>2, <2>3, <3>1
  <2>5. t < NThreads
    <3>1. ASSUME NThreads <= t PROVE FALSE
      <4>1. Share * NThreads <= Share * t /\ Share * NThreads \in Nat /\ Share * t \in Nat
        BY <1>0, <2>3, <3>1, Multiples
      <4> DEFINE m == Share * NThreads
                 n == Share * t
      <4>2. m \in Nat /\ n \in Nat /\ m <= n /\ NDevices = m + Remainder /\ a = n + (a % Share)
        BY <4>1, <2>2
      <4> HIDE DEF m, n
      <4>. QED
        BY <1>0, <2>1, <2>3, <4>2
    <3>. QED
      BY <1>0, <2>3, <3>1
  <2>6. t \in Pollers /\ t # MockThread
    BY <1>0, <2>3, <2>5 DEF Pollers, MockThread
  <2>7. DevicesStart(t) = Share * t + Remainder /\ DevicesEnd(t) = Share * t + Share + Remainder
    BY <2>4, <2>6 DEF DevicesStart, DevicesEnd
  <2>8. DevicesStart(t) <= d /\ d < DevicesEnd(t)
    <3> DEFINE n == Share * t
    <3>1. n \in Nat /\ a = n + (a % Share)
      BY <2>2, <2>3, Multiples
    <3> HIDE DEF n
    <3>2. n + Remainder <= d /\ d < n + Share + Remainder
      BY <2>1, <2>3, <3>1
    <3>. QED
      BY <2>7, <3>2 DEF n
  <2>. QED
    BY <2>6, <2>8
<1>. QED
  BY <1>2, <1>3
=============================================================================
