------------------------------ MODULE HalSnap ------------------------------
(***************************************************************************)
(* The SNAP front end of the HAL, dpfs_hal/src/snap.c, driven as           *)
(* dpfs_fuse_main does: dpfs_hal_new, dpfs_hal_loop until a signal asks    *)
(* for the end, dpfs_hal_destroy.  The main thread starts NThreads polling *)
(* threads, each with a window of the devices, and one more thread for the *)
(* mock devices, and waits for them.                                       *)
(*                                                                         *)
(* The SNAP controllers (virtio_fs_ctrl_...) are modelled from how this    *)
(* file uses them: progress_all_io calls the request handler for what the  *)
(* host has queued, and a controller asked to suspend is suspended by      *)
(* progress once no request is in flight.  CPU pinning and the parsing of  *)
(* the configuration are left out, but for the bounds it enforces.         *)
(***************************************************************************)
EXTENDS Naturals

CONSTANTS NDevices,        \* length of pf_ids
          NMock,           \* length of mock_pf_ids
          NThreads,        \* nthreads
          PollInterval,    \* polling_interval_usec
          MmioEvery,       \* poll_counter at which mmio is polled (10000)
          QueueDepth       \* queue_depth: requests in flight on a device

(* dpfs_hal_new refuses other configurations. *)
ASSUME HalSnapAssumption == /\ NDevices \in Nat \ {0}
                            /\ NMock \in Nat
                            /\ NThreads \in 1 .. NDevices
                            /\ PollInterval \in Nat
                            /\ MmioEvery \in Nat \ {0}
                            /\ QueueDepth \in Nat \ {0}

Devices == 0 .. NDevices + NMock - 1        \* device ids; the mock ones last
Pollers == 0 .. NThreads - 1
MockThread == NThreads
Workers == 0 .. NThreads

VARIABLES keep_running,
          main,            \* the main thread; failed: a thread was refused
          thr,             \* polling threads: where, and on which device
          cancelled,       \* threads that pthread_cancel was called for
          ctrl,            \* state of the SNAP controllers
          suspending,      \* dpfs_hal_device.suspending
          poll_counter,    \* dpfs_hal_device.poll_counter
          inflight         \* requests whose handler returned EWOULDBLOCK

vars == <<keep_running, main, thr, cancelled, ctrl, suspending, poll_counter,
          inflight>>
deviceVars == <<ctrl, suspending, poll_counter, inflight>>

MainPcs == {"init", "spawn", "mock", "join", "cancel_loop", "destroy", "gone"}
WorkerPcs == {"none", "test", "io", "handler", "mmio", "suspend", "exited"}

TypeOK ==
  /\ keep_running \in BOOLEAN
  /\ main \in [pc : MainPcs, i : Nat, failed : BOOLEAN]
  /\ thr \in [Workers -> [pc : WorkerPcs, dev : Devices]]
  /\ cancelled \in SUBSET Pollers
  /\ ctrl \in [Devices -> {"absent", "up", "suspending", "suspended",
                           "destroyed"}]
  /\ suspending \in [Devices -> BOOLEAN]
  /\ poll_counter \in [Devices -> 0 .. MmioEvery]
  /\ inflight \in [Devices -> 0 .. QueueDepth]

Init ==
  /\ keep_running = TRUE
  /\ main = [pc |-> "init", i |-> 0, failed |-> FALSE]
  /\ thr = [t \in Workers |-> [pc |-> "none", dev |-> 0]]
  /\ cancelled = {}
  /\ ctrl = [d \in Devices |-> "absent"]
  /\ suspending = [d \in Devices |-> FALSE]
  /\ poll_counter = [d \in Devices |-> 0]
  /\ inflight = [d \in Devices |-> 0]

-----------------------------------------------------------------------------
(* The windows of the threads *)

Share     == NDevices \div NThreads
Remainder == NDevices % NThreads

(* Mutant: the windows of the other threads are not moved. *)
DevicesStartUnmoved(t) == IF t = MockThread THEN NDevices ELSE Share * t

(* Thread 0 has the remainder too; the others start that much later. *)
DevicesStart(t) == IF t = MockThread THEN NDevices
                   ELSE IF t = 0 THEN 0
                   ELSE Share * t + Remainder

(* Mutant: the window includes its end. *)
DevicesEndIncluded(t) == IF t = MockThread THEN NDevices + NMock
                         ELSE Share * t + Share + Remainder + 1

DevicesEnd(t) == IF t = MockThread THEN NDevices + NMock
                 ELSE Share * t + Share + Remainder

-----------------------------------------------------------------------------
(* The main thread *)

(* dpfs_hal_new initialises the devices in order; when one fails those     *)
(* before it are destroyed and the program ends.                           *)
InitDev ==
  /\ main.pc = "init"
  /\ \/ /\ ctrl' = [ctrl EXCEPT ![main.i] = "up"]
        /\ main' = IF main.i + 1 = NDevices + NMock
                   THEN [main EXCEPT !.pc = "spawn", !.i = 0]
                   ELSE [main EXCEPT !.i = @ + 1]
     \/ /\ ctrl' = [d \in Devices |->
                      IF d < main.i THEN "destroyed" ELSE ctrl[d]]
        /\ main' = [main EXCEPT !.pc = "gone", !.failed = TRUE]
  /\ UNCHANGED <<keep_running, thr, cancelled, suspending, poll_counter,
                 inflight>>

Started(t) == thr' = [thr EXCEPT ![t] = [pc |-> "test", dev |-> 0]]

(* dpfs_hal_loop_static creates the polling threads.  When that fails for  *)
(* a later thread, the loop that cancels the earlier ones increments i     *)
(* instead of j: it cancels thread 0 over and over.                        *)
SpawnPoller ==
  /\ main.pc = "spawn"
  /\ \/ /\ Started(main.i)
        /\ main' = IF main.i + 1 = NThreads
                   THEN [main EXCEPT !.pc = "mock", !.i = 0]
                   ELSE [main EXCEPT !.i = @ + 1]
        /\ UNCHANGED cancelled
     \/ /\ main' = [main EXCEPT !.failed = TRUE, !.i = 0,
                      !.pc = IF main.i = 0 THEN "destroy" ELSE "cancel_loop"]
        /\ cancelled' = IF main.i = 0 THEN {} ELSE {0}
        /\ UNCHANGED thr
  /\ UNCHANGED <<keep_running, deviceVars>>

(* The thread of the mock devices.  When it cannot be created the pollers  *)
(* are cancelled, but not joined.                                          *)
SpawnMock ==
  /\ main.pc = "mock"
  /\ \/ /\ NMock = 0
        /\ main' = [main EXCEPT !.pc = "join"]
        /\ UNCHANGED <<thr, cancelled>>
     \/ /\ NMock > 0
        /\ Started(MockThread)
        /\ main' = [main EXCEPT !.pc = "join"]
        /\ UNCHANGED cancelled
     \/ /\ NMock > 0
        /\ main' = [main EXCEPT !.pc = "destroy", !.failed = TRUE]
        /\ cancelled' = Pollers
        /\ UNCHANGED thr
  /\ UNCHANGED <<keep_running, deviceVars>>

(* pthread_join of the pollers in order, then of the mock thread. *)
Join ==
  /\ main.pc = "join"
  /\ IF main.i = NThreads
     THEN /\ NMock > 0 => thr[MockThread].pc = "exited"
          /\ main' = [main EXCEPT !.pc = "destroy", !.i = 0]
     ELSE /\ thr[main.i].pc = "exited"
          /\ main' = [main EXCEPT !.i = @ + 1]
  /\ UNCHANGED <<keep_running, thr, cancelled, deviceVars>>

(* dpfs_hal_destroy *)
DestroyDev ==
  /\ main.pc = "destroy"
  /\ ctrl' = [ctrl EXCEPT ![main.i] = "destroyed"]
  /\ main' = IF main.i + 1 = NDevices + NMock
             THEN [main EXCEPT !.pc = "gone"]
             ELSE [main EXCEPT !.i = @ + 1]
  /\ UNCHANGED <<keep_running, thr, cancelled, suspending, poll_counter,
                 inflight>>

Main == InitDev \/ SpawnPoller \/ SpawnMock \/ Join \/ DestroyDev

(* SIGINT, SIGPIPE or SIGTERM once dpfs_hal_loop_static handles them. *)
signal_handler ==
  /\ main.pc # "init" /\ keep_running
  /\ keep_running' = FALSE
  /\ UNCHANGED <<main, thr, cancelled, deviceVars>>

-----------------------------------------------------------------------------
(* The polling threads *)

Goto(t, pc) == thr' = [thr EXCEPT ![t].pc = pc]

(* Mutant: a device that was asked to suspend is taken for suspended. *)
all_devices_suspendedEarly == \A d \in 0 .. NDevices - 1 : suspending[d]

(* The mock devices are not looked at. *)
all_devices_suspended == \A d \in 0 .. NDevices - 1 : ctrl[d] = "suspended"

LoopTest(t) ==
  /\ thr[t].pc = "test"
  /\ thr' = [thr EXCEPT ![t] =
               IF keep_running \/ ~all_devices_suspended
               THEN [pc |-> "io", dev |-> DevicesStart(t)]
               ELSE [pc |-> "exited", dev |-> 0]]
  /\ UNCHANGED <<keep_running, main, cancelled, deviceVars>>

(* virtio_fs_ctrl_progress_all_io finds nothing, or calls                  *)
(* dpfs_hal_handle_req with a request of the host.                         *)
PollIo(t) ==
  /\ thr[t].pc = "io"
  /\ \/ Goto(t, "mmio")
     \/ /\ ctrl[thr[t].dev] = "up"
        /\ inflight[thr[t].dev] < QueueDepth
        /\ Goto(t, "handler")
  /\ UNCHANGED <<keep_running, main, cancelled, deviceVars>>

(* The request handler returns 0 or EWOULDBLOCK. *)
HandlerReturns(t) ==
  /\ thr[t].pc = "handler"
  /\ \/ UNCHANGED inflight
     \/ inflight' = [inflight EXCEPT ![thr[t].dev] = @ + 1]
  /\ Goto(t, "mmio")
  /\ UNCHANGED <<keep_running, main, cancelled, ctrl, suspending, poll_counter>>

(* dpfs_hal_async_complete, by whoever finishes a request. *)
async_complete(d) ==
  /\ inflight[d] > 0
  /\ inflight' = [inflight EXCEPT ![d] = @ - 1]
  /\ UNCHANGED <<keep_running, main, thr, cancelled, ctrl, suspending,
                 poll_counter>>

Progressed(d) == IF ctrl[d] = "suspending" /\ inflight[d] = 0
                 THEN [ctrl EXCEPT ![d] = "suspended"] ELSE ctrl

(* Mutant: the counter starts over with every poll. *)
PollMmioRestarted(t) ==
  LET d == thr[t].dev
      counted == t # MockThread /\ PollInterval = 0
  IN /\ thr[t].pc = "mmio"
     /\ ctrl' = IF counted /\ poll_counter[d] # MmioEvery THEN ctrl
                ELSE Progressed(d)
     /\ poll_counter' = [poll_counter EXCEPT ![d] = 0]
     /\ Goto(t, "suspend")
     /\ UNCHANGED <<keep_running, main, cancelled, suspending, inflight>>

(* virtio_fs_ctrl_progress: with every poll when polling at an interval    *)
(* and on the mock thread, else when poll_counter says so.                 *)
PollMmio(t) ==
  LET d == thr[t].dev
      counted == t # MockThread /\ PollInterval = 0
  IN /\ thr[t].pc = "mmio"
     /\ ctrl' = IF counted /\ poll_counter[d] # MmioEvery THEN ctrl
                ELSE Progressed(d)
     /\ poll_counter' = IF ~counted THEN poll_counter
                        ELSE [poll_counter EXCEPT ![d] =
                                IF @ = MmioEvery THEN 0 ELSE @ + 1]
     /\ Goto(t, "suspend")
     /\ UNCHANGED <<keep_running, main, cancelled, suspending, inflight>>

(* virtio_fs_ctrl_suspend, once, and on to the next device of the window.  *)
SuspendCheck(t) ==
  LET d == thr[t].dev
  IN /\ thr[t].pc = "suspend"
     /\ \/ /\ ~keep_running /\ ~suspending[d]
           /\ ctrl' = IF ctrl[d] = "up" THEN [ctrl EXCEPT ![d] = "suspending"]
                      ELSE ctrl
           /\ suspending' = [suspending EXCEPT ![d] = TRUE]
        \/ /\ keep_running \/ suspending[d]
           /\ UNCHANGED <<ctrl, suspending>>
     /\ thr' = [thr EXCEPT ![t] = IF d + 1 < DevicesEnd(t)
                                  THEN [pc |-> "io", dev |-> d + 1]
                                  ELSE [pc |-> "test", dev |-> 0]]
     /\ UNCHANGED <<keep_running, main, cancelled, poll_counter, inflight>>

(* A cancelled thread ends at a cancellation point, if it meets one. *)
Cancelled(t) ==
  /\ t \in cancelled /\ thr[t].pc # "exited"
  /\ thr' = [thr EXCEPT ![t] = [pc |-> "exited", dev |-> 0]]
  /\ UNCHANGED <<keep_running, main, cancelled, deviceVars>>

Worker(t) == LoopTest(t) \/ PollIo(t) \/ HandlerReturns(t) \/ PollMmio(t)
             \/ SuspendCheck(t)

Next == \/ Main \/ signal_handler
        \/ \E t \in Workers : Worker(t) \/ Cancelled(t)
        \/ \E d \in Devices : async_complete(d)

Spec == Init /\ [][Next]_vars

(* Threads that can run do run, and the file system completes every        *)
(* request it deferred.  A signal need not come.                           *)
Fairness == /\ WF_vars(Main)
            /\ \A t \in Workers : WF_vars(Worker(t))
            /\ \A d \in Devices : WF_vars(async_complete(d))

FairSpec == Spec /\ Fairness

-----------------------------------------------------------------------------
(* Properties *)

OnDevice(t) == thr[t].pc \in {"io", "handler", "mmio", "suspend"}

(* "A device is owned by a single thread" (dpfs_hal_init_dev): no two      *)
(* threads ever poll the same device, however the remainder is divided.    *)
DeviceHasOnePoller ==
  \A t, u \in Workers :
    OnDevice(t) /\ OnDevice(u) /\ thr[t].dev = thr[u].dev => t = u

(* dpfs_hal_destroy finds every device of the pollers suspended, without a *)
(* request in flight and out of every thread's hands.                      *)
DestroyedDrained ==
  main.pc \in {"destroy", "gone"} /\ ~main.failed =>
    \A d \in 0 .. NDevices - 1 :
      /\ ctrl[d] \in {"suspended", "destroyed"} /\ inflight[d] = 0
      /\ \A t \in Workers : OnDevice(t) => thr[t].dev # d

(* After a signal dpfs_hal_loop returns and the devices are destroyed,     *)
(* unless a thread could not be created.                                   *)
LoopReturns == ~keep_running ~> main.pc = "gone" \/ main.failed

=============================================================================
