--------------------------- MODULE UsbTaskProofs ---------------------------
(***************************************************************************)
(* The safety properties of the USB client, by itself (Spec) and as it is  *)
(* started by setup() (TaskSpec), for every set of addresses, every number *)
(* of devices plugged in and every number of rounds the client waits.      *)
(***************************************************************************)
EXTENDS UsbTask, TLAPS

USE DEF Goes, Visit, Known, Answers, Plugs, None

-----------------------------------------------------------------------------
(* The client by itself.                                                   *)

\* What the steps of a visit rely on: a handle and an address from the visit of
\* a device on, and during a capture the address it was recorded for.
Phase ==
  /\ \A p \in attached : address[p] \in Addresses
  /\ pc \in {"describe", "capture1", "capture0", "install", "poll"} =>
       ups_device_ # None /\ addr \in Addresses
  /\ pc \in {"capture1", "capture0", "install"} => discovered_device_address_ = addr
  /\ pc = "capture1" => best = -1
  /\ pc = "capture0" => best \in {-1, 1}

\* Of the indices a set holds, this one has the most items.
Richest(index, read) ==
  /\ index \in {0, 1} /\ index \in read
  /\ \A i \in read : Items(i) <= Items(index)

\* What the last capture could read is the best so far, or installed.
Richer ==
  readof # {} =>
    IF pc = "install" /\ best # -1 THEN Richest(best, readof) ELSE Richest(desc_index, readof)

\* The inductive invariant of the client.
ClientInv == TypeOK /\ Phase /\ DescriptorOfHandle /\ Richer

USE UsbAssumption DEF ClientInv, TypeOK, Pcs, Phase, DescriptorOfHandle, Richer,
                      bus, claimed, captured, visit

\* Every step of the client and of the bus keeps the invariant.
LEMMA ClientKeeps == ClientInv /\ Next => ClientInv'
<1> SUFFICES ASSUME ClientInv, Next PROVE ClientInv'
  OBVIOUS
<1>1. CASE WakeUp
  BY <1>1 DEF WakeUp
<1>2. CASE ListAddresses
  BY <1>2 DEF ListAddresses, BusyAddresses
<1>3. CASE ListFails
  BY <1>3 DEF ListFails
<1>4. CASE ScanDone
  BY <1>4 DEF ScanDone
<1>5. CASE VisitKnown
  BY <1>5 DEF VisitKnown
<1>6. CASE VisitWithHandle
  BY <1>6 DEF VisitWithHandle
<1>7. CASE OpenDevice
  BY <1>7 DEF OpenDevice
<1>8. CASE OpenFails
  BY <1>8 DEF OpenFails
<1>9. CASE DescribeFails
  BY <1>9 DEF DescribeFails
<1>10. CASE NoHidInterface
  BY <1>10 DEF NoHidInterface
<1>11. CASE Described
  BY <1>11 DEF Described
<1>12. ASSUME NEW read \in BOOLEAN, Capture1(read) PROVE ClientInv'
  BY <1>12 DEF Capture1
<1>13. ASSUME NEW read \in BOOLEAN, Capture0(read) PROVE ClientInv'
  <2> USE DEF Items, Richest
  <2>1. /\ pc = "capture0" /\ pc' = "install"
        /\ best' = RicherOf(read)
        /\ readof' = IF ~read /\ best = -1 THEN readof
                     ELSE (IF read THEN {0} ELSE {}) \cup (IF best = 1 THEN {1} ELSE {})
        /\ UNCHANGED <<bus, claimed, hid_desc_, desc_index, toscan, addr, polled>>
    BY <1>13 DEF Capture0
  <2>2. best' \in {-1, 0, 1} /\ best \in {-1, 1} /\ Items0 \in Nat /\ Items1 \in Nat
    BY <2>1 DEF RicherOf
  <2>3. readof' \subseteq {0, 1}
    BY <2>1, Zenon
  <2>4. CASE ~read /\ best = -1
    <3>1. best' = -1 /\ readof' = readof
      BY <2>1, <2>4 DEF RicherOf
    <3> QED
      BY <2>1, <2>2, <2>3, <3>1
  <2>5. CASE read \/ best = 1
    <3>1. /\ \A i \in readof' : i = 0 \/ i = 1
          /\ 0 \in readof' <=> read
          /\ 1 \in readof' <=> best = 1
      <4>1. readof' = (IF read THEN {0} ELSE {}) \cup (IF best = 1 THEN {1} ELSE {})
        BY <2>1, <2>2, <2>5
      <4> QED
        BY <4>1
    <3>2. best' = IF read /\ (best = -1 \/ Items0 > Items1) THEN 0 ELSE best
      BY <2>1, <2>2 DEF RicherOf
    <3>3. Items(0) = Items0 /\ Items(1) = Items1
      OBVIOUS
    <3>4. best' \in readof' /\ best' \in {0, 1}
      BY <2>2, <2>5, <3>1, <3>2
    <3>5. \A i \in readof' : Items(i) <= Items(best')
      BY <2>2, <2>5, <3>1, <3>2, <3>3
    <3>6. Richer'
      BY <2>1, <3>4, <3>5
    <3> QED
      BY <2>1, <2>2, <2>3, <3>6
  <2> QED
    BY <2>2, <2>4, <2>5
<1>14. CASE NothingCaptured
  BY <1>14 DEF NothingCaptured
<1>15. CASE Install
  BY <1>15 DEF Install
<1>16. ASSUME NEW answered \in BOOLEAN, Poll(answered) PROVE ClientInv'
  BY <1>16 DEF Poll
<1>17. ASSUME NEW a \in Addresses, NEW k \in Kinds, Plug(a, k) PROVE ClientInv'
  BY <1>17 DEF Plug
<1>18. ASSUME NEW p \in Plugs, Unplug(p) PROVE ClientInv'
  BY <1>18 DEF Unplug
<1> QED
  BY <1>1, <1>2, <1>3, <1>4, <1>5, <1>6, <1>7, <1>8, <1>9, <1>10, <1>11, <1>12, <1>13,
     <1>14, <1>15, <1>16, <1>17, <1>18
     DEF Next, UsbStep, BusStep, Claim, Describe, Capture

\* The invariant holds from the start.
LEMMA ClientStarts == Init => ClientInv
<1> SUFFICES ASSUME Init PROVE ClientInv
  OBVIOUS
<1>1. TypeOK
  <2>1. /\ nplugs \in 0..MaxPlugs
        /\ attached \subseteq 1..nplugs
        /\ ups_device_ \in 0..nplugs
        /\ hid_desc_ \in 0..nplugs
        /\ polled \in 0..nplugs
    BY DEF Init
  <2>2. /\ address \in [Plugs -> Addresses \cup {None}]
        /\ kind \in [Plugs -> Kinds \cup {"none"}]
    BY DEF Init
  <2>3. /\ discovered_device_address_ \in Addresses \cup {None}
        /\ desc_index \in {-1, 0, 1}
        /\ pc \in Pcs
        /\ toscan \subseteq Addresses
        /\ addr \in Addresses \cup {None}
        /\ best \in {-1, 0, 1}
    BY DEF Init
  <2>4. readof \subseteq {0, 1}
    BY DEF Init
  <2> QED
    BY <2>1, <2>2, <2>3, <2>4
<1>2. Phase /\ DescriptorOfHandle /\ Richer
  BY DEF Init
<1> QED
  BY <1>1, <1>2

\* A step of other tasks keeps it.
LEMMA ClientStutters == ClientInv /\ UNCHANGED vars => ClientInv'
  BY DEF vars

\* The variables of the client keep their types, and every step of a visit
\* finds the handle and the address that the steps before it left.
THEOREM ClientInvariant == Spec => []ClientInv
BY ClientStarts, ClientKeeps, ClientStutters, PTL DEF Spec

-----------------------------------------------------------------------------
(* The tasks as setup() starts them.                                       *)

\* What setup() has not created yet is not there; the flag of the daemon is
\* raised by a daemon that serves, and lowered by none that has served.
StartInv ==
  /\ setup \in {"validate", "daemon"} => daemon = "none"
  /\ setup \in {"validate", "daemon", "client"} => client = "none"
  /\ usb_host_started_ => daemon = "serving"
  /\ BusNeedsHost

USE DEF StartInv, BusNeedsHost

\* The steps of the main task, of the daemon and of the client's start-up.
LEMMA StartKeeps == StartInv /\ (Setup \/ DaemonStep \/ ClientStep) => StartInv'
<1> SUFFICES ASSUME StartInv, Setup \/ DaemonStep \/ ClientStep PROVE StartInv'
  OBVIOUS
<1> USE DEF SetupGoes, DaemonGoes, ClientGoes, mainVars
<1>1. CASE Validated
  BY <1>1 DEF Validated, Validate, RejectConfig
<1>2. ASSUME NEW created \in BOOLEAN, CreateDaemon(created) PROVE StartInv'
  BY <1>2 DEF CreateDaemon
<1>3. ASSUME NEW created \in BOOLEAN, CreateClient(created) PROVE StartInv'
  BY <1>3 DEF CreateClient
<1>4. CASE CheckCreated
  BY <1>4 DEF CheckCreated
<1>5. ASSUME NEW created \in BOOLEAN, CreateServer(created) PROVE StartInv'
  BY <1>5 DEF CreateServer
<1>6. CASE InstallHost
  BY <1>6 DEF InstallHost
<1>7. CASE InstallHostFails
  BY <1>7 DEF InstallHostFails
<1>8. CASE Announce
  BY <1>8 DEF Announce
<1>9. CASE WaitRound
  BY <1>9 DEF WaitRound
<1>10. CASE LeaveWait
  BY <1>10 DEF LeaveWait
<1>11. CASE Decide
  BY <1>11 DEF Decide
<1>12. ASSUME NEW r \in BOOLEAN, Register(r) PROVE StartInv'
  BY <1>12 DEF Register
<1> QED
  BY <1>1, <1>2, <1>3, <1>4, <1>5, <1>6, <1>7, <1>8, <1>9, <1>10, <1>11, <1>12
     DEF Setup, DaemonStep, ClientStep

\* The order in which the tasks come up, whatever the client does meanwhile.
THEOREM StartInvariant == TaskSpec => []StartInv
<1>1. TaskInit => StartInv
  BY DEF TaskInit, StartInit
<1>2. StartInv /\ [TaskNext]_taskVars => StartInv'
  <2>1. StartInv /\ UNCHANGED startVars => StartInv'
    BY DEF startVars, mainVars
  <2> QED
    BY <2>1, StartKeeps DEF TaskNext, taskVars, Scan, HostStep
<1> QED
  BY <1>1, <1>2, PTL DEF TaskSpec

\* Nothing is scanned before a host library has been installed, whichever task
\* was created, late or ended.
THEOREM ScanningNeedsHost == TaskSpec => []BusNeedsHost
BY StartInvariant, PTL DEF StartInv

\* The composition restricts the client and adds nothing to it: what holds of
\* the client by itself holds of the client that setup() starts.
THEOREM TaskRunsClient == TaskSpec => Spec
<1>1. TaskInit => Init
  BY DEF TaskInit
<1>2. [TaskNext]_taskVars => [Next]_vars
  BY DEF TaskNext, taskVars, Scan, HostStep, Next
<1> QED
  BY <1>1, <1>2, PTL DEF TaskSpec, Spec

\* The descriptor in use is that of the device the polls go to, for any number
\* of devices and addresses and any failure.
THEOREM DescriptorIsOfHandle == TaskSpec => []DescriptorOfHandle
BY TaskRunsClient, ClientInvariant, PTL DEF ClientInv

\* Of the descriptors that the capture in use could read, the one with the most
\* items is in use, whatever the numbers of items are.
THEOREM RicherIsKept == TaskSpec => []RicherDescriptorKept
<1>1. ClientInv => RicherDescriptorKept
  BY DEF RicherDescriptorKept, Richest
<1> QED
  BY <1>1, TaskRunsClient, ClientInvariant, PTL
=============================================================================
