---------------------------- MODULE HalContract ----------------------------
(***************************************************************************)
(* What a DPFS file system promises to the hardware abstraction layer,     *)
(* whatever its backend: dpfs_hal/include/dpfs/hal.h, the comment on       *)
(* dpfs_hal_handler_t and dpfs_hal_async_complete.                         *)
(*                                                                         *)
(* The HAL calls the request handler once per request.  A handler that     *)
(* returns 0 has fully handled the request and async_complete is never     *)
(* called for it.  A handler that returns EWOULDBLOCK is completed by      *)
(* exactly one call of async_complete, which may come before the handler   *)
(* has returned (a completion thread can be faster than the poller).       *)
(***************************************************************************)
EXTENDS Naturals

CONSTANT Requests          \* the requests the host puts on its virtqueues

VARIABLES handler,         \* where the request_handler call of a request is
          completions      \* calls of dpfs_hal_async_complete per request

halVars == <<handler, completions>>

HandlerStates == {"queued", "running", "handled", "deferred"}

HalTypeOK == /\ handler \in [Requests -> HandlerStates]
             /\ completions \in [Requests -> Nat]

Init == /\ handler = [r \in Requests |-> "queued"]
        /\ completions = [r \in Requests |-> 0]

(* dpfs_hal_handle_req hands the request to the file system. *)
Deliver(r) == /\ handler[r] = "queued"
              /\ handler' = [handler EXCEPT ![r] = "running"]
              /\ UNCHANGED completions

(* The handler returns 0: nobody else may have answered, or will. *)
ReturnHandled(r) == /\ handler[r] = "running"
                    /\ completions[r] = 0
                    /\ handler' = [handler EXCEPT ![r] = "handled"]
                    /\ UNCHANGED completions

(* The handler returns EWOULDBLOCK: a completion came or will come. *)
ReturnDeferred(r) == /\ handler[r] = "running"
                     /\ handler' = [handler EXCEPT ![r] = "deferred"]
                     /\ UNCHANGED completions

(* dpfs_hal_async_complete, from any thread. *)
AsyncComplete(r) == /\ handler[r] \in {"running", "deferred"}
                    /\ completions[r] = 0
                    /\ completions' = [completions EXCEPT ![r] = 1]
                    /\ UNCHANGED handler

Next == \E r \in Requests : \/ Deliver(r)
                            \/ ReturnHandled(r)
                            \/ ReturnDeferred(r)
                            \/ AsyncComplete(r)

Spec == Init /\ [][Next]_halVars

(* A request is answered when its handler handled it or it was completed. *)
Answered(r) == handler[r] = "handled" \/ completions[r] = 1
=============================================================================
