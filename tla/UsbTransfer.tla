---------------------------- MODULE UsbTransfer ----------------------------
(***************************************************************************)
(* One control transfer of nut.cpp, as get_descriptor_,                    *)
(* request_hid_report_ and send_hid_report_ all make it: allocate the      *)
(* transfer, create a binary semaphore for its context on the stack,       *)
(* submit, then take the semaphore for 100 ms at a time and pump the       *)
(* client's events in between.                                             *)
(*                                                                         *)
(* The callback that gives the semaphore runs inside the pump, in the task *)
(* that waits, so a transfer the host has finished is not over before the  *)
(* next pump.  A tick is 100 ms, the time one take may block.  External:   *)
(* the host finishes every submitted transfer, with whatever status, at    *)
(* the latest when its timeout_ms is over (nut.cpp relies on it at 361).   *)
(***************************************************************************)
EXTENDS Naturals

CONSTANT Timeout    \* timeout_ms in ticks, at least one

VARIABLES
  xpc,        \* where the caller is in the function
  transfer,   \* the usb_transfer_t: none, allocated, in flight, finished by
              \* the host, or returned by the callback
  done,       \* the semaphore of its context: none, empty or given
  completed,  \* transfer->status = USB_TRANSFER_STATUS_COMPLETED
  acted,      \* history: the device has acted on the request
  ok,         \* what the function returned
  age         \* ticks since the submission

transferVars == <<xpc, transfer, done, completed, acted, ok, age>>

TransferTypeOK ==
  /\ xpc \in {"idle", "allocate", "semaphore", "submit", "take", "pump", "last", "release"}
  /\ transfer \in {"none", "allocated", "inflight", "finished", "returned"}
  /\ done \in {"none", "empty", "given"}
  /\ completed \in BOOLEAN /\ acted \in BOOLEAN /\ ok \in BOOLEAN
  /\ age \in Nat

TransferInit ==
  /\ xpc = "idle" /\ transfer = "none" /\ done = "none"
  /\ completed = FALSE /\ acted = FALSE /\ ok = FALSE
  /\ age = 0

XGoes(from, to) == xpc = from /\ xpc' = to

-----------------------------------------------------------------------------
(* The caller.                                                             *)

Call ==
  /\ XGoes("idle", "allocate")
  /\ completed' = FALSE
  /\ acted' = FALSE
  /\ age' = 0
  /\ UNCHANGED <<transfer, done, ok>>

Allocate ==
  /\ XGoes("allocate", "semaphore")
  /\ transfer' = "allocated"
  /\ UNCHANGED <<done, completed, acted, ok, age>>

AllocateFails ==
  /\ XGoes("allocate", "idle")
  /\ ok' = FALSE
  /\ UNCHANGED <<transfer, done, completed, acted, age>>

CreateSemaphore ==
  /\ XGoes("semaphore", "submit")
  /\ done' = "empty"
  /\ UNCHANGED <<transfer, completed, acted, ok, age>>

CreateSemaphoreFails ==
  /\ XGoes("semaphore", "idle")
  /\ transfer' = "none"
  /\ ok' = FALSE
  /\ UNCHANGED <<done, completed, acted, age>>

Submit ==
  /\ XGoes("submit", "take")
  /\ transfer' = "inflight"
  /\ UNCHANGED <<done, completed, acted, ok, age>>

\* Slip: the early return forgets the semaphore.
SubmitFailsLeaks ==
  /\ XGoes("submit", "idle")
  /\ transfer' = "none"
  /\ ok' = FALSE
  /\ UNCHANGED <<done, completed, acted, age>>

SubmitFails ==
  /\ XGoes("submit", "idle")
  /\ done' = "none"
  /\ transfer' = "none"
  /\ ok' = FALSE
  /\ UNCHANGED <<completed, acted, age>>

\* usb_host_client_handle_events: the callback of a finished transfer runs and
\* gives the semaphore.
Deliver ==
  IF transfer = "finished"
    THEN transfer' = "returned" /\ done' = "given"
    ELSE UNCHANGED <<transfer, done>>

Pump ==
  /\ XGoes("pump", "take")
  /\ Deliver
  /\ UNCHANGED <<completed, acted, ok, age>>

\* The wait ends when the semaphore has been given, and only then.
Take ==
  /\ XGoes("take", "last")
  /\ done = "given"
  /\ done' = "empty"
  /\ UNCHANGED <<transfer, completed, acted, ok, age>>

LastPump ==
  /\ XGoes("last", "release")
  /\ Deliver
  /\ UNCHANGED <<completed, acted, ok, age>>

\* Slip: the status is not looked at.
ReleaseUnchecked ==
  /\ XGoes("release", "idle")
  /\ done' = "none"
  /\ transfer' = "none"
  /\ ok' = TRUE
  /\ UNCHANGED <<completed, acted, age>>

Release ==
  /\ XGoes("release", "idle")
  /\ done' = "none"
  /\ transfer' = "none"
  /\ ok' = completed
  /\ UNCHANGED <<completed, acted, age>>

CallerStep ==
  \/ Allocate \/ AllocateFails
  \/ CreateSemaphore \/ CreateSemaphoreFails
  \/ Submit \/ SubmitFails
  \/ Pump \/ Take \/ LastPump
  \/ Release

-----------------------------------------------------------------------------
(* The host, the device and the clock.                                     *)

DeviceActs ==
  /\ transfer = "inflight" /\ ~acted
  /\ acted' = TRUE
  /\ UNCHANGED <<xpc, transfer, done, completed, ok, age>>

\* A transfer that fails may have been acted upon as well.
HostFinishes(complete) ==
  /\ transfer = "inflight"
  /\ complete => acted
  /\ transfer' = "finished"
  /\ completed' = complete
  /\ UNCHANGED <<xpc, done, acted, ok, age>>

HostStep == DeviceActs \/ \E complete \in BOOLEAN : HostFinishes(complete)

\* The caller has something to do, or the host must finish the transfer.
Blocked == xpc = "take" /\ done = "empty"
Due     == transfer = "inflight" /\ age >= Timeout

\* Slip: one take for as long as the transfer may last, then no more waiting.
TakeTimesOutOnce ==
  /\ Blocked
  /\ xpc' = IF age + 1 >= Timeout THEN "last" ELSE "take"
  /\ age' = age + 1
  /\ UNCHANGED <<transfer, done, completed, acted, ok>>

\* Slip: the take has no timeout, so nothing is ever pumped.
TakeForever ==
  /\ Blocked
  /\ age' = age + 1
  /\ UNCHANGED <<xpc, transfer, done, completed, acted, ok>>

\* xSemaphoreTake gives up after 100 ms and the loop pumps the events.
TakeTimesOut ==
  /\ XGoes("take", "pump")
  /\ Blocked
  /\ age' = age + 1
  /\ UNCHANGED <<transfer, done, completed, acted, ok>>

TransferTick == ~Due /\ TakeTimesOut

TransferNext == Call \/ CallerStep \/ HostStep \/ TransferTick

TransferSpec == TransferInit /\ [][TransferNext]_transferVars

-----------------------------------------------------------------------------
\* The host and its callback never touch a transfer or a semaphore that is
\* gone: both are given up before the submission or after the callback only.
FreedOnlyWhenReturned ==
  [][/\ transfer' = "none" => transfer \in {"none", "allocated", "returned"}
     /\ done' = "none" /\ done # "none" => transfer \in {"allocated", "returned"}]_transferVars

\* Whichever way a request ends, nothing it allocated is left.
NothingLeaks == xpc = "idle" => transfer = "none" /\ done = "none"

\* A caller comes back one take after the timeout of its transfer at the latest.
TransferEnds == age <= Timeout + 1

\* The steps above carry out an atomic request.
Request == INSTANCE UsbRequest WITH busy <- xpc # "idle", acted <- acted, ok <- ok
RequestSpec == Request!Spec
=============================================================================
