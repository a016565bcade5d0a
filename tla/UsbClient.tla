----------------------------- MODULE UsbClient -----------------------------
(***************************************************************************)
(* How the USB client task of components/nut/nut.cpp finds, claims and     *)
(* polls the UPS: usb_client_task_, discover_usb_devices_, log_usb_device_ *)
(* and capture_hid_report_descriptor_.                                     *)
(*                                                                         *)
(* A device that is plugged in is a new plug, with the address the host    *)
(* gave it; a handle names the plug it was opened on.  The handle is kept  *)
(* for ever, and the event callback ignores USB_HOST_CLIENT_EVENT_DEV_GONE *)
(* (external behaviour: a transfer on the handle of a device that has left *)
(* fails, and the cached device descriptor is still readable).             *)
(***************************************************************************)
EXTENDS Integers

CONSTANTS
  Addresses,    \* the addresses the host gives out
  MaxPlugs,     \* bound: devices plugged in in one behaviour
  Kinds,        \* "ups": two HID report descriptors; "hid": another HID
                \* device, which has one; "other": no HID interface
  Items0, Items1    \* nitems of the descriptors at index 0 and 1 of the UPS

ASSUME UsbAssumption ==
  /\ Addresses \subseteq Nat \ {0}
  /\ MaxPlugs \in Nat \ {0}
  /\ Kinds \subseteq {"ups", "hid", "other"}
  /\ Items0 \in Nat /\ Items1 \in Nat

Plugs == 1..MaxPlugs
None  == 0

VARIABLES
  nplugs,         \* devices plugged in so far
  address, kind,  \* of each plug
  attached,       \* the plugs on the bus
  ups_device_,    \* the handle: the plug it was opened on
  discovered_device_address_,
  hid_desc_,      \* the plug the descriptor in use was read from
  desc_index,     \* which of the two descriptors it is
  pc,             \* where the USB task is
  toscan,         \* addresses of this scan still to visit
  addr,           \* device_address of the visit under way
  best,           \* capture: index of the best descriptor so far, -1 = none
  polled,         \* history: the plug that answered the poll just made
  readof          \* history: the indices the last capture that read any read

bus      == <<nplugs, address, kind, attached>>
claimed  == <<ups_device_, discovered_device_address_>>
captured == <<hid_desc_, desc_index, readof>>
visit    == <<toscan, addr, best>>
vars == <<bus, claimed, captured, pc, visit, polled>>

Pcs == {"events", "scan", "visit", "describe", "capture1", "capture0", "install", "poll"}

TypeOK ==
  /\ nplugs \in 0..MaxPlugs
  /\ address \in [Plugs -> Addresses \cup {None}]
  /\ kind \in [Plugs -> Kinds \cup {"none"}]
  /\ attached \subseteq 1..nplugs
  /\ ups_device_ \in 0..nplugs
  /\ discovered_device_address_ \in Addresses \cup {None}
  /\ hid_desc_ \in 0..nplugs
  /\ desc_index \in {-1, 0, 1}
  /\ pc \in Pcs
  /\ toscan \subseteq Addresses
  /\ addr \in Addresses \cup {None}
  /\ best \in {-1, 0, 1}
  /\ polled \in 0..nplugs
  /\ readof \subseteq {0, 1}

Init ==
  /\ nplugs = 0
  /\ address = [p \in Plugs |-> None]
  /\ kind = [p \in Plugs |-> "none"]
  /\ attached = {}
  /\ ups_device_ = None
  /\ discovered_device_address_ = None
  /\ hid_desc_ = None
  /\ desc_index = -1
  /\ pc = "scan"
  /\ toscan = {}
  /\ addr = None
  /\ best = -1
  /\ polled = None
  /\ readof = {}

-----------------------------------------------------------------------------
(* The bus.                                                                *)

BusyAddresses == {address[p] : p \in attached}

Plug(a, k) ==
  /\ nplugs < MaxPlugs
  /\ a \notin BusyAddresses
  /\ nplugs' = nplugs + 1
  /\ address' = [address EXCEPT ![nplugs + 1] = a]
  /\ kind' = [kind EXCEPT ![nplugs + 1] = k]
  /\ attached' = attached \cup {nplugs + 1}
  /\ UNCHANGED <<claimed, captured, pc, visit, polled>>

Unplug(p) ==
  /\ p \in attached
  /\ attached' = attached \ {p}
  /\ UNCHANGED <<nplugs, address, kind, claimed, captured, pc, visit, polled>>

-----------------------------------------------------------------------------
(* The USB client task.                                                    *)

Goes(from, to) == pc = from /\ pc' = to

\* usb_host_client_handle_events returns, by an event or after 5 s.
WakeUp ==
  /\ Goes("events", "scan")
  /\ UNCHANGED <<bus, claimed, captured, visit, polled>>

\* usb_host_device_addr_list_fill
ListAddresses ==
  /\ Goes("scan", "visit")
  /\ toscan' = BusyAddresses
  /\ UNCHANGED <<bus, claimed, captured, addr, best, polled>>

ListFails ==
  /\ Goes("scan", "events")
  /\ UNCHANGED <<bus, claimed, captured, visit, polled>>

ScanDone ==
  /\ Goes("visit", "events")
  /\ toscan = {}
  /\ polled' = None
  /\ UNCHANGED <<bus, claimed, captured, visit>>

\* The addresses are in the list in any order.
Visit(a) ==
  /\ pc = "visit"
  /\ a \in toscan
  /\ toscan' = toscan \ {a}
  /\ addr' = a
  /\ polled' = None

Known(a) == ups_device_ # None /\ a = discovered_device_address_ /\ hid_desc_ # None

\* Slip: a device that is held already is skipped altogether.
VisitKnownSkips == \E a \in toscan :
  /\ Visit(a)
  /\ Known(a)
  /\ pc' = "visit"
  /\ UNCHANGED <<bus, claimed, captured, best>>

\* "Already captured; just poll."
VisitKnown == \E a \in toscan :
  /\ Visit(a)
  /\ Known(a)
  /\ pc' = "poll"
  /\ UNCHANGED <<bus, claimed, captured, best>>

\* A handle is held already: it is used for this address as well.
VisitWithHandle == \E a \in toscan :
  /\ Visit(a)
  /\ ~Known(a)
  /\ ups_device_ # None
  /\ pc' = "describe"
  /\ UNCHANGED <<bus, claimed, captured, best>>

\* Slip: a device is opened although a handle is held.
OpenDeviceAgain == \E a \in toscan : \E p \in attached :
  /\ Visit(a)
  /\ address[p] = a
  /\ ups_device_' = p
  /\ discovered_device_address_' = a
  /\ pc' = "describe"
  /\ UNCHANGED <<bus, captured, best>>

OpenDevice == \E a \in toscan : \E p \in attached :
  /\ Visit(a)
  /\ ups_device_ = None
  /\ address[p] = a
  /\ ups_device_' = p
  /\ discovered_device_address_' = a
  /\ pc' = "describe"
  /\ UNCHANGED <<bus, captured, best>>

OpenFails == \E a \in toscan :
  /\ Visit(a)
  /\ ups_device_ = None
  /\ pc' = "visit"
  /\ UNCHANGED <<bus, claimed, captured, best>>

\* get_descriptor_: a control transfer through the handle can complete only if
\* its device is there; else it is not allocated, not submitted, ends with
\* another status or times out after 2 s, and the caller sees a failure.
Answers(p) == p \in attached

DescribeFails ==
  /\ Goes("describe", "visit")
  /\ UNCHANGED <<bus, claimed, captured, visit, polled>>

NoHidInterface ==
  /\ Goes("describe", "visit")
  /\ Answers(ups_device_)
  /\ kind[ups_device_] = "other"
  /\ UNCHANGED <<bus, claimed, captured, visit, polled>>

\* A HID report descriptor was found.
Described ==
  /\ pc = "describe"
  /\ Answers(ups_device_)
  /\ kind[ups_device_] # "other"
  /\ IF hid_desc_ = None \/ discovered_device_address_ # addr
       THEN pc' = "capture1" /\ best' = -1 /\ discovered_device_address_' = addr
       ELSE pc' = "poll" /\ UNCHANGED <<best, discovered_device_address_>>
  /\ UNCHANGED <<bus, ups_device_, captured, toscan, addr, polled>>

Items(index) == IF index = 1 THEN Items1 ELSE Items0

\* Slip: the descriptor read last is kept.
RicherKeepsLast(read) == IF read THEN 0 ELSE best

\* The later one is kept if it is the only one or has more items.
RicherOf(read) == IF read /\ (best = -1 \/ Items(0) > Items(best)) THEN 0 ELSE best

\* The report descriptor at index 1, then at index 0.
Capture1(read) ==
  /\ Goes("capture1", "capture0")
  /\ read => Answers(ups_device_) /\ kind[ups_device_] = "ups"
  /\ best' = IF read THEN 1 ELSE -1
  /\ UNCHANGED <<bus, claimed, captured, toscan, addr, polled>>

Capture0(read) ==
  /\ Goes("capture0", "install")
  /\ read => Answers(ups_device_)
  /\ best' = RicherOf(read)
  /\ readof' = IF ~read /\ best = -1 THEN readof
               ELSE (IF read THEN {0} ELSE {}) \cup (IF best = 1 THEN {1} ELSE {})
  /\ UNCHANGED <<bus, claimed, hid_desc_, desc_index, toscan, addr, polled>>

\* No usable descriptor: the one in use, if there is one, stays and is polled.
NothingCaptured ==
  /\ Goes("install", IF hid_desc_ = None THEN "visit" ELSE "poll")
  /\ best = -1
  /\ UNCHANGED <<bus, claimed, captured, visit, polled>>

\* The old descriptor is freed and every path is resolved anew.
Install ==
  /\ Goes("install", "poll")
  /\ best # -1
  /\ hid_desc_' = ups_device_
  /\ desc_index' = best
  /\ UNCHANGED <<bus, claimed, readof, visit, polled>>

\* poll_hid_reports_, for what it needs and tells of the device: the reports
\* are asked for through the handle, one that fails leaves the old values in
\* place.
Poll(answered) ==
  /\ Goes("poll", "visit")
  /\ answered => Answers(ups_device_)
  /\ polled' = IF answered THEN ups_device_ ELSE None
  /\ UNCHANGED <<bus, claimed, captured, visit>>

Capture == \E read \in BOOLEAN : Capture1(read) \/ Capture0(read)
Claim   == OpenDevice \/ OpenFails
Describe == DescribeFails \/ NoHidInterface \/ Described

UsbStep ==
  \/ WakeUp \/ ListAddresses \/ ListFails \/ ScanDone
  \/ VisitKnown \/ VisitWithHandle \/ Claim
  \/ Describe \/ Capture \/ NothingCaptured \/ Install
  \/ \E answered \in BOOLEAN : Poll(answered)

BusStep == (\E a \in Addresses, k \in Kinds : Plug(a, k)) \/ \E p \in Plugs : Unplug(p)

Next == UsbStep \/ BusStep

Spec == Init /\ [][Next]_vars

\* The USB task runs on (a transfer times out after 2 s at most), and a
\* device that stays attached does not fail the same request for ever.
FairSpec ==
  /\ Spec
  /\ WF_vars(UsbStep)
  /\ SF_vars(ListAddresses) /\ SF_vars(OpenDevice) /\ SF_vars(Described)
  /\ SF_vars(Capture1(TRUE)) /\ SF_vars(Capture0(TRUE))
  /\ SF_vars(Poll(TRUE))

-----------------------------------------------------------------------------
\* The descriptor that gives the poll its offsets was read from the device the
\* polls go to, through every failed open, read and replugging.
DescriptorOfHandle == hid_desc_ # None => hid_desc_ = ups_device_

\* The descriptor in use is one that its capture could read, and none that was
\* read with it has more items; a capture that reads nothing changes nothing.
RicherDescriptorKept ==
  readof # {} /\ pc # "install" =>
    desc_index \in readof /\ \A index \in readof : Items(index) <= Items(desc_index)

\* A poll that p answers.
PollAnsweredBy(p) == pc = "poll" /\ polled' = p

\* A UPS that has been claimed and stays answers one poll after the other,
\* whatever fails on the way and whatever else is plugged in: there is no last
\* poll that it answers.
ClaimedUpsIsPolled ==
  \A p \in Plugs :
    <>[](ups_device_ = p /\ p \in attached /\ kind[p] = "ups")
      => []<><<PollAnsweredBy(p)>>_vars

\* "The periodic scan in usb_client_task_ discovers devices": a UPS that is
\* attached and stays is polled.
AttachedUpsIsPolled ==
  \A p \in Plugs : <>[](attached = {p} /\ kind[p] = "ups") => <>(polled = p)
=============================================================================
