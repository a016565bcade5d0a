------------------------- MODULE UsbTransferProofs -------------------------
(***************************************************************************)
(* What is proved about a control transfer, whatever its timeout.          *)
(***************************************************************************)
EXTENDS UsbTransfer, TLAPS

Waiting == /\ transfer \in {"inflight", "finished"} /\ done = "empty"

\* What the caller holds at each point of the function.
Holds ==
  /\ xpc \in {"idle", "allocate"} => transfer = "none" /\ done = "none"
  /\ xpc = "semaphore" => transfer = "allocated" /\ done = "none"
  /\ xpc = "submit" => transfer = "allocated" /\ done = "empty"
  /\ xpc = "take" => Waiting \/ (transfer = "returned" /\ done = "given")
  /\ xpc = "pump" => Waiting
  /\ xpc \in {"last", "release"} => transfer = "returned" /\ done = "empty"

CompletedIsActed ==
  /\ completed \in BOOLEAN /\ acted \in BOOLEAN
  /\ completed => acted

\* The inductive invariant of a transfer.
TransferInv == Holds /\ CompletedIsActed

USE DEF Holds, Waiting, CompletedIsActed, XGoes

\* The invariant holds from the start.
LEMMA InitHolds == TransferInit => TransferInv
  BY DEF TransferInit, TransferInv

\* Every step of the caller keeps the invariant.
LEMMA CallerKeeps == TransferInv /\ (Call \/ CallerStep) => TransferInv'
<1> SUFFICES ASSUME TransferInv, Call \/ CallerStep PROVE TransferInv'
  OBVIOUS
<1> USE DEF TransferInv
<1>1. CASE Call
  BY <1>1 DEF Call
<1>2. CASE Allocate \/ AllocateFails
  BY <1>2 DEF Allocate, AllocateFails
<1>3. CASE CreateSemaphore \/ CreateSemaphoreFails
  BY <1>3 DEF CreateSemaphore, CreateSemaphoreFails
<1>4. CASE Submit \/ SubmitFails
  BY <1>4 DEF Submit, SubmitFails
<1>5. CASE Pump
  BY <1>5 DEF Pump, Deliver
<1>6. CASE Take
  BY <1>6 DEF Take
<1>7. CASE LastPump
  BY <1>7 DEF LastPump, Deliver
<1>8. CASE Release
  BY <1>8 DEF Release
<1> QED
  BY <1>1, <1>2, <1>3, <1>4, <1>5, <1>6, <1>7, <1>8 DEF CallerStep

\* So do the host, the device and the clock.
LEMMA HostKeeps == TransferInv /\ (HostStep \/ TransferTick) => TransferInv'
<1> SUFFICES ASSUME TransferInv, HostStep \/ TransferTick PROVE TransferInv'
  OBVIOUS
<1> USE DEF TransferInv
<1>1. CASE DeviceActs
  BY <1>1 DEF DeviceActs
<1>2. ASSUME NEW complete \in BOOLEAN, HostFinishes(complete) PROVE TransferInv'
  BY <1>2 DEF HostFinishes
<1>3. CASE TransferTick
  BY <1>3 DEF TransferTick, TakeTimesOut, Blocked
<1> QED
  BY <1>1, <1>2, <1>3 DEF HostStep

\* The invariant of a transfer: what is allocated at each point of the
\* function, and that a completed transfer was acted upon.
THEOREM TransferInvariant == TransferSpec => []TransferInv
<1>1. TransferInv /\ UNCHANGED transferVars => TransferInv'
  BY DEF TransferInv, transferVars
<1>2. TransferInv /\ [TransferNext]_transferVars => TransferInv'
  BY <1>1, CallerKeeps, HostKeeps DEF TransferNext
<1> QED
  BY InitHolds, <1>2, PTL DEF TransferSpec

\* Whichever way the function returns, its transfer and its semaphore are gone.
THEOREM NothingIsLeaked == TransferSpec => []NothingLeaks
<1>1. TransferInv => NothingLeaks
  BY DEF TransferInv, NothingLeaks
<1> QED
  BY <1>1, TransferInvariant, PTL

\* The callback never finds a transfer or a semaphore that was given up.
THEOREM FreedAfterCallback == TransferSpec => FreedOnlyWhenReturned
<1> DEFINE Freed == /\ transfer' = "none" => transfer \in {"none", "allocated", "returned"}
                    /\ done' = "none" /\ done # "none" => transfer \in {"allocated", "returned"}
<1>1. TransferInv /\ [TransferNext]_transferVars => [Freed]_transferVars
  <2> SUFFICES ASSUME TransferInv, [TransferNext]_transferVars PROVE [Freed]_transferVars
    OBVIOUS
  <2> USE DEF TransferInv
  <2>1. CASE Call \/ Allocate \/ AllocateFails \/ CreateSemaphore \/ CreateSemaphoreFails
    BY <2>1 DEF Call, Allocate, AllocateFails, CreateSemaphore, CreateSemaphoreFails
  <2>2. CASE Submit \/ SubmitFails
    BY <2>2 DEF Submit, SubmitFails
  <2>3. CASE Pump \/ Take \/ LastPump
    BY <2>3 DEF Pump, Take, LastPump, Deliver
  <2>4. CASE Release
    BY <2>4 DEF Release
  <2>5. CASE HostStep
    BY <2>5 DEF HostStep, DeviceActs, HostFinishes
  <2>6. CASE TransferTick
    BY <2>6 DEF TransferTick, TakeTimesOut, Blocked
  <2>7. CASE UNCHANGED transferVars
    BY <2>7 DEF transferVars
  <2> QED
    BY <2>1, <2>2, <2>3, <2>4, <2>5, <2>6, <2>7 DEF TransferNext, CallerStep
<1> QED
  BY <1>1, TransferInvariant, PTL DEF TransferSpec, FreedOnlyWhenReturned

\* How long the caller has waited: a transfer that is still in flight, or that
\* the next take finds undelivered, is not older than its timeout.
AgeInv ==
  /\ age \in 0..(Timeout + 1)
  /\ xpc \in {"allocate", "semaphore", "submit"} => age = 0
  /\ transfer = "inflight" => age <= Timeout
  /\ xpc = "take" /\ transfer = "finished" => age <= Timeout

\* Only a take that times out lets time pass, and it needs a transfer that is
\* not due.
LEMMA AgeStep ==
  ASSUME Timeout \in Nat
  PROVE  TransferInv /\ AgeInv /\ [TransferNext]_transferVars => AgeInv'
<1> SUFFICES ASSUME TransferInv, AgeInv, [TransferNext]_transferVars PROVE AgeInv'
  OBVIOUS
<1> USE DEF TransferInv, AgeInv
<1>1. CASE Call
  BY <1>1 DEF Call
<1>2. CASE Allocate \/ AllocateFails \/ CreateSemaphore \/ CreateSemaphoreFails
  BY <1>2 DEF Allocate, AllocateFails, CreateSemaphore, CreateSemaphoreFails
<1>3. CASE Submit \/ SubmitFails
  BY <1>3 DEF Submit, SubmitFails
<1>4. CASE Pump \/ Take \/ LastPump \/ Release
  BY <1>4 DEF Pump, Take, LastPump, Release, Deliver
<1>5. CASE HostStep
  BY <1>5 DEF HostStep, DeviceActs, HostFinishes
<1>6. CASE TransferTick
  BY <1>6 DEF TransferTick, TakeTimesOut, Blocked, Due
<1>7. CASE UNCHANGED transferVars
  BY <1>7 DEF transferVars
<1> QED
  BY <1>1, <1>2, <1>3, <1>4, <1>5, <1>6, <1>7 DEF TransferNext, CallerStep

\* Whatever the host does, the wait goes on as AgeInv says.
THEOREM AgeInvariant ==
  ASSUME Timeout \in Nat
  PROVE  TransferSpec => []AgeInv
<1>1. TransferInit => AgeInv
  BY DEF TransferInit, AgeInv
<1> QED
  BY <1>1, AgeStep, TransferInvariant, PTL DEF TransferSpec

\* The caller is held up for the timeout and one more take, whatever the device
\* and the host do.
THEOREM TransferIsBounded ==
  ASSUME Timeout \in Nat
  PROVE  TransferSpec => []TransferEnds
<1>1. AgeInv => TransferEnds
  BY DEF AgeInv, TransferEnds
<1> QED
  BY <1>1, AgeInvariant, PTL

\* A transfer, with its semaphore and its callback, carries out one atomic
\* request: "true" means that the device has acted on it.
THEOREM ImplementsRequest == TransferSpec => RequestSpec
<1> USE DEF Request!Begin, Request!Act, Request!End, Request!Next, Request!vars
<1>1. TransferInit => Request!Init
  BY DEF TransferInit, Request!Init
<1>2. TransferInv /\ [TransferNext]_transferVars => [Request!Next]_(Request!vars)
  <2> SUFFICES ASSUME TransferInv, [TransferNext]_transferVars
               PROVE  [Request!Next]_(Request!vars)
    OBVIOUS
  <2> USE DEF TransferInv
  <2>1. CASE Call
    BY <2>1 DEF Call
  <2>2. CASE AllocateFails \/ CreateSemaphoreFails \/ SubmitFails
    BY <2>2 DEF AllocateFails, CreateSemaphoreFails, SubmitFails
  <2>3. CASE Allocate \/ CreateSemaphore \/ Submit \/ Pump \/ Take \/ LastPump
    BY <2>3 DEF Allocate, CreateSemaphore, Submit, Pump, Take, LastPump, Deliver
  <2>4. CASE Release
    BY <2>4 DEF Release
  <2>5. CASE DeviceActs
    BY <2>5 DEF DeviceActs
  <2>6. ASSUME NEW complete \in BOOLEAN, HostFinishes(complete)
        PROVE  [Request!Next]_(Request!vars)
    BY <2>6 DEF HostFinishes
  <2>7. CASE TransferTick
    BY <2>7 DEF TransferTick, TakeTimesOut, Blocked
  <2>8. CASE UNCHANGED transferVars
    BY <2>8 DEF transferVars
  <2> QED
    BY <2>1, <2>2, <2>3, <2>4, <2>5, <2>6, <2>7, <2>8
       DEF TransferNext, CallerStep, HostStep
<1> QED
  BY <1>1, <1>2, TransferInvariant, PTL DEF TransferSpec, RequestSpec, Request!Spec
=============================================================================
