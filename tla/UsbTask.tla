------------------------------ MODULE UsbTask ------------------------------
(***************************************************************************)
(* How the tasks of components/nut/nut.cpp come up, and with them the USB  *)
(* client of UsbClient: setup, start_usb_host_, usb_daemon_task_ and the   *)
(* first part of usb_client_task_.                                         *)
(*                                                                         *)
(* setup() creates the daemon, the client and the server one after the     *)
(* other, each of which may fail, and the created ones run at once.  The   *)
(* daemon installs the USB host library and announces it in a flag; the    *)
(* client looks at the flag at most MaxRounds times, 250 ms apart, then    *)
(* once more, and gives up or registers.  It scans only after that, and    *)
(* devices appear only while the daemon serves the host.                   *)
(***************************************************************************)
EXTENDS UsbClient

CONSTANT MaxRounds      \* rounds the client waits for the daemon (20)

ASSUME RoundsAssumption == MaxRounds \in Nat \ {0}

VARIABLES
  setup,              \* where setup() is: what it does next
  failed,             \* mark_failed() was called
  daemon,             \* the USB daemon task, "none" until it is created
  client,             \* the USB client task
  server,             \* the NUT server task was created
  usb_host_started_,
  rounds              \* attempts, the client's loop counter

mainVars  == <<setup, failed, server>>
startVars == <<mainVars, daemon, client, usb_host_started_, rounds>>

StartInit ==
  /\ setup = "validate" /\ failed = FALSE /\ server = FALSE
  /\ daemon = "none" /\ client = "none"
  /\ usb_host_started_ = FALSE
  /\ rounds = 0

-----------------------------------------------------------------------------
(* The main task: setup() and start_usb_host_().                           *)

SetupGoes(from, to) == setup = from /\ setup' = to

Validate == SetupGoes("validate", "daemon") /\ UNCHANGED failed

\* An empty name or password: nothing is started.
RejectConfig == SetupGoes("validate", "done") /\ failed' = TRUE

Validated ==
  /\ Validate \/ RejectConfig
  /\ UNCHANGED <<server, daemon, client, usb_host_started_, rounds>>

CreateDaemon(created) ==
  /\ SetupGoes("daemon", "client")
  /\ daemon' = IF created THEN "starting" ELSE "none"
  /\ UNCHANGED <<failed, server, client, usb_host_started_, rounds>>

\* The client is created whether or not the daemon was.
CreateClient(created) ==
  /\ SetupGoes("client", "check")
  /\ client' = IF created THEN "waiting" ELSE "none"
  /\ UNCHANGED <<failed, server, daemon, usb_host_started_, rounds>>

CheckCreated ==
  /\ SetupGoes("check", "server")
  /\ failed' = (failed \/ daemon = "none" \/ client = "none")
  /\ UNCHANGED <<server, daemon, client, usb_host_started_, rounds>>

CreateServer(created) ==
  /\ SetupGoes("server", "done")
  /\ server' = created
  /\ failed' = (failed \/ ~created)
  /\ UNCHANGED <<daemon, client, usb_host_started_, rounds>>

Setup ==
  \/ Validated \/ CheckCreated
  \/ \E created \in BOOLEAN :
       CreateDaemon(created) \/ CreateClient(created) \/ CreateServer(created)

-----------------------------------------------------------------------------
(* The USB daemon task.                                                    *)

DaemonGoes(from, to) ==
  /\ daemon = from /\ daemon' = to
  /\ UNCHANGED <<mainVars, client, rounds>>

InstallHost == DaemonGoes("starting", "installed") /\ UNCHANGED usb_host_started_
InstallHostFails == DaemonGoes("starting", "ended") /\ usb_host_started_' = FALSE
Announce == DaemonGoes("installed", "serving") /\ usb_host_started_' = TRUE

DaemonStep == InstallHost \/ InstallHostFails \/ Announce

-----------------------------------------------------------------------------
(* The USB client task up to its first scan.                               *)

ClientGoes(from, to) ==
  /\ client = from /\ client' = to
  /\ UNCHANGED <<mainVars, daemon, usb_host_started_>>

KeepWaiting == rounds < MaxRounds /\ ~usb_host_started_

WaitRound == ClientGoes("waiting", "waiting") /\ KeepWaiting /\ rounds' = rounds + 1
LeaveWait == ClientGoes("waiting", "decide") /\ ~KeepWaiting /\ UNCHANGED rounds

\* Slip: the host is taken to be ready once the wait is over.
DecideAnyway == ClientGoes("decide", "registering") /\ rounds' = 0

\* Slip: all rounds used up means that the host is not ready.
DecideByRounds ==
  /\ ClientGoes("decide", IF rounds < MaxRounds THEN "registering" ELSE "ended")
  /\ rounds' = 0

\* The flag is read again after the loop, whose counter is out of scope then.
Decide ==
  /\ ClientGoes("decide", IF usb_host_started_ THEN "registering" ELSE "ended")
  /\ rounds' = 0

Register(registered) ==
  /\ ClientGoes("registering", IF registered THEN "running" ELSE "ended")
  /\ UNCHANGED rounds

ClientStep == WaitRound \/ LeaveWait \/ Decide \/ \E r \in BOOLEAN : Register(r)

-----------------------------------------------------------------------------
(* The composition with UsbClient.                                         *)

Scan(step) == client = "running" /\ step /\ UNCHANGED startVars

HostStep == daemon = "serving" /\ BusStep /\ UNCHANGED startVars

TaskInit == Init /\ StartInit

TaskNext ==
  \/ (Setup \/ DaemonStep \/ ClientStep) /\ UNCHANGED vars
  \/ Scan(UsbStep)
  \/ HostStep

taskVars == <<vars, startVars>>

(* The tasks run on, and a device that stays attached does not fail the    *)
(* same request for ever (see FairSpec of UsbClient).  That a task is      *)
(* created, the host installed or the client registered is not assumed.    *)
TaskSpec ==
  /\ TaskInit /\ [][TaskNext]_taskVars
  /\ WF_taskVars(Setup /\ UNCHANGED vars)
  /\ WF_taskVars(DaemonStep /\ UNCHANGED vars)
  /\ WF_taskVars(ClientStep /\ UNCHANGED vars)
  /\ WF_taskVars(Scan(UsbStep))
  /\ SF_taskVars(Scan(ListAddresses)) /\ SF_taskVars(Scan(OpenDevice))
  /\ SF_taskVars(Scan(Described))
  /\ SF_taskVars(Scan(Capture1(TRUE))) /\ SF_taskVars(Scan(Capture0(TRUE)))
  /\ SF_taskVars(Scan(Poll(TRUE)))

-----------------------------------------------------------------------------
\* The client registers, and so scans, only with a host library that has been
\* installed, whichever of the tasks was created, delayed or ended.
BusNeedsHost ==
  client \in {"registering", "running"} => daemon \in {"installed", "serving"}

\* A host that is announced while the client still waits is used, also when
\* that happens in the client's last round: only a failed registration ends it.
ReadyHostIsUsed ==
  (client = "waiting" /\ usb_host_started_) ~> client = "registering"
=============================================================================
