------------------------------ MODULE InstCmd ------------------------------
(***************************************************************************)
(* The INSTCMD handshake of components/nut/nut.cpp.                        *)
(*                                                                         *)
(* Two FreeRTOS tasks share two volatile ints and no lock.  The server     *)
(* task (execute_instant_command_) clears command_result_, posts the index *)
(* of a command in pending_command_, polls it every 100 ms for at most     *)
(* MaxAttempts rounds, and answers the client.  The USB client task        *)
(* (run_pending_commands_) reads pending_command_ once at the start of a   *)
(* poll, sends one or two HID feature reports, writes command_result_ and  *)
(* writes -1 back.  Each access to a shared variable is an action.         *)
(*                                                                         *)
(* exec, reports, reply, cmd, nreq and ureq are history: the code keeps    *)
(* only the index.  ureq is the request whose index the USB task holds in  *)
(* its local variable, so cmd[ureq] is that local variable.                *)
(***************************************************************************)
EXTENDS Integers

CONSTANTS
  NumCommands,    \* commands_.size(), fixed once the descriptor is resolved
  Cycle,          \* indices of the "outlet.N.load.cycle" commands
  HasStartup,     \* those of Cycle whose DelayBeforeStartup item exists
  MaxAttempts,    \* polls of pending_command_ before giving up (40)
  MaxRequests     \* bound: INSTCMD lines handled in one behaviour

ASSUME ConstantsAssumption ==
  /\ NumCommands \in Nat \ {0}
  /\ Cycle \subseteq 0..(NumCommands - 1)
  /\ HasStartup \subseteq Cycle
  /\ MaxAttempts \in Nat \ {0}
  /\ MaxRequests \in Nat \ {0}

Commands == 0..(NumCommands - 1)
Requests == 1..MaxRequests
Nobody   == -1              \* pending_command_: no command is posted

VARIABLES
  pending_command_,   \* shared
  command_result_,    \* shared
  spc,                \* where the server task is in execute_instant_command_
  attempts,           \* its local loop counter
  upc,                \* where the USB task is in run_pending_commands_
  ureq,               \* the request whose index it read
  nreq,               \* number of INSTCMD lines received so far
  cmd,                \* the command each request named
  exec,               \* none, running, ok or failed
  reports,            \* which reports of the request the UPS has acted on
  reply               \* the line sent to the client

shared    == <<pending_command_, command_result_>>
serverPc  == <<spc, attempts>>
usbPc     == <<upc, ureq>>
requested == <<nreq, cmd>>
vars == <<shared, serverPc, usbPc, requested, exec, reports, reply>>

ServerPcs == {"ready", "clear", "post", "wait", "recheck", "cancel", "answer"}
UsbPcs    == {"idle", "startup", "main", "result", "done"}

TypeOK ==
  /\ pending_command_ \in Commands \cup {Nobody}
  /\ command_result_ \in {0, 1}
  /\ spc \in ServerPcs
  /\ attempts \in 0..MaxAttempts
  /\ upc \in UsbPcs
  /\ ureq \in 0..MaxRequests
  /\ nreq \in 0..MaxRequests
  /\ cmd \in [Requests -> Commands \cup {Nobody}]
  /\ exec \in [Requests -> {"none", "running", "ok", "failed"}]
  /\ reports \in [Requests -> SUBSET {"startup", "main"}]
  /\ reply \in [Requests -> {"none", "ok", "failed", "timeout", "unsupported"}]

Init ==
  /\ pending_command_ = Nobody
  /\ command_result_ = 0
  /\ spc = "ready"
  /\ attempts = 0
  /\ upc = "idle"
  /\ ureq = 0
  /\ nreq = 0
  /\ cmd = [r \in Requests |-> Nobody]
  /\ exec = [r \in Requests |-> "none"]
  /\ reports = [r \in Requests |-> {}]
  /\ reply = [r \in Requests |-> "none"]

-----------------------------------------------------------------------------
(* The server task.                                                        *)

ServerGoes(from, to) == spc = from /\ spc' = to

\* send_line_ of the one answer line of the current request.
Tell(answer) == reply' = [reply EXCEPT ![nreq] = answer]

\* An authenticated INSTCMD line names a command of commands_.
Receive(c) ==
  /\ ServerGoes("ready", "clear")
  /\ nreq < MaxRequests
  /\ nreq' = nreq + 1
  /\ cmd' = [cmd EXCEPT ![nreq + 1] = c]
  /\ UNCHANGED <<shared, attempts, usbPc, exec, reports, reply>>

\* The name is not in commands_: answered at once, nothing is posted.
RejectUnknown ==
  /\ spc = "ready"
  /\ nreq < MaxRequests
  /\ nreq' = nreq + 1
  /\ reply' = [reply EXCEPT ![nreq + 1] = "unsupported"]
  /\ UNCHANGED <<shared, serverPc, usbPc, cmd, exec, reports>>

ClearResult ==
  /\ ServerGoes("clear", "post")
  /\ command_result_' = 0
  /\ UNCHANGED <<pending_command_, attempts, usbPc, requested, exec, reports, reply>>

PostCommand ==
  /\ ServerGoes("post", "wait")
  /\ pending_command_' = cmd[nreq]
  /\ attempts' = 0
  /\ UNCHANGED <<command_result_, usbPc, requested, exec, reports, reply>>

\* Slips: a round too many, a round too few.
KeepWaitingOneMore == attempts <= MaxAttempts /\ pending_command_ >= 0
KeepWaitingOneLess == attempts + 1 < MaxAttempts /\ pending_command_ >= 0

KeepWaiting == attempts < MaxAttempts /\ pending_command_ >= 0

\* Slip: the rounds are not counted.
WaitRoundUncounted ==
  /\ spc = "wait"
  /\ KeepWaiting
  /\ UNCHANGED vars

\* One round of the loop: vTaskDelay(100 ms), then attempts++.
WaitRound ==
  /\ spc = "wait"
  /\ KeepWaiting
  /\ attempts' = attempts + 1
  /\ UNCHANGED <<shared, spc, usbPc, requested, exec, reports, reply>>

LeaveLoop ==
  /\ ServerGoes("wait", "recheck")
  /\ ~KeepWaiting
  /\ UNCHANGED <<shared, attempts, usbPc, requested, exec, reports, reply>>

\* Slip: the end of the loop is taken for success.
RecheckNothing ==
  /\ ServerGoes("recheck", "answer")
  /\ UNCHANGED <<shared, attempts, usbPc, requested, exec, reports, reply>>

\* pending_command_ is read again after the loop.
Recheck ==
  /\ ServerGoes("recheck", IF pending_command_ >= 0 THEN "cancel" ELSE "answer")
  /\ UNCHANGED <<shared, attempts, usbPc, requested, exec, reports, reply>>

\* Nobody cleared it: withdraw the command and report the failure.
Cancel ==
  /\ ServerGoes("cancel", "ready")
  /\ pending_command_' = Nobody
  /\ Tell("timeout")
  /\ UNCHANGED <<command_result_, attempts, usbPc, requested, exec, reports>>

\* Slip: a command that was taken is taken for one that worked.
AnswerOk ==
  /\ ServerGoes("answer", "ready")
  /\ Tell("ok")
  /\ UNCHANGED <<shared, attempts, usbPc, requested, exec, reports>>

\* Somebody cleared it: report what command_result_ says.
AnswerResult ==
  /\ ServerGoes("answer", "ready")
  /\ Tell(IF command_result_ = 0 THEN "ok" ELSE "failed")
  /\ UNCHANGED <<shared, attempts, usbPc, requested, exec, reports>>

ServerStep ==
  \/ ClearResult
  \/ PostCommand
  \/ WaitRound
  \/ LeaveLoop
  \/ Recheck
  \/ Cancel
  \/ AnswerResult

-----------------------------------------------------------------------------
(* The USB client task.                                                    *)

UsbGoes(from, to) == upc = from /\ upc' = to

\* The read of pending_command_ at the top of run_pending_commands_.
PickCommand ==
  /\ pending_command_ >= 0
  /\ UsbGoes("idle", IF pending_command_ \in Cycle THEN "startup" ELSE "main")
  /\ ureq' = nreq
  /\ exec' = [exec EXCEPT ![nreq] = "running"]
  /\ UNCHANGED <<shared, serverPc, requested, reports, reply>>

\* send_hid_report_: TRUE only for a completed transfer, but a transfer that
\* timed out or was cut off may have reached the UPS as well.
Acted(report) == reports' = [reports EXCEPT ![ureq] = @ \cup {report}]
Send(report, ok) == Acted(report) \/ (~ok /\ UNCHANGED reports)

\* load.cycle schedules the outlet's startup first and aborts if that fails.
SendStartup ==
  /\ UsbGoes("startup", "main")
  /\ cmd[ureq] \in HasStartup
  /\ Send("startup", TRUE)
  /\ UNCHANGED <<shared, serverPc, ureq, requested, exec, reply>>

\* Slip: the outlet is switched off although its startup was not scheduled.
CycleAnyway ==
  /\ UsbGoes("startup", "main")
  /\ IF cmd[ureq] \in HasStartup THEN Send("startup", FALSE) ELSE UNCHANGED reports
  /\ UNCHANGED <<shared, serverPc, ureq, requested, exec, reply>>

AbortCycle ==
  /\ UsbGoes("startup", "result")
  /\ IF cmd[ureq] \in HasStartup THEN Send("startup", FALSE) ELSE UNCHANGED reports
  /\ exec' = [exec EXCEPT ![ureq] = "failed"]
  /\ UNCHANGED <<shared, serverPc, ureq, requested, reply>>

SendMain ==
  /\ UsbGoes("main", "result")
  /\ \E ok \in BOOLEAN :
       /\ Send("main", ok)
       /\ exec' = [exec EXCEPT ![ureq] = IF ok THEN "ok" ELSE "failed"]
  /\ UNCHANGED <<shared, serverPc, ureq, requested, reply>>

\* Slip: a failure is not recorded.
ResultNotWritten ==
  /\ UsbGoes("result", "done")
  /\ UNCHANGED <<shared, serverPc, ureq, requested, exec, reports, reply>>

WriteResult ==
  /\ UsbGoes("result", "done")
  /\ command_result_' = IF exec[ureq] = "ok" THEN 0 ELSE 1
  /\ UNCHANGED <<pending_command_, serverPc, ureq, requested, exec, reports, reply>>

\* Slip: the index is not given back.
ClearNothing ==
  /\ UsbGoes("done", "idle")
  /\ UNCHANGED <<shared, serverPc, ureq, requested, exec, reports, reply>>

\* The index is given back without looking whether it is still this one.
ClearPending ==
  /\ UsbGoes("done", "idle")
  /\ pending_command_' = Nobody
  /\ UNCHANGED <<command_result_, serverPc, ureq, requested, exec, reports, reply>>

UsbStep ==
  \/ PickCommand
  \/ SendStartup
  \/ AbortCycle
  \/ SendMain
  \/ WriteResult
  \/ ClearPending

-----------------------------------------------------------------------------
Client == (\E c \in Commands : Receive(c)) \/ RejectUnknown

Next == Client \/ ServerStep \/ UsbStep

Spec == Init /\ [][Next]_vars

(* Only the server task is fair: it never waits for anything but its own   *)
(* 100 ms delays, whereas the USB task may be away (no UPS is attached, a  *)
(* transfer never completes) for ever.                                     *)
FairSpec == Spec /\ WF_vars(ServerStep)

-----------------------------------------------------------------------------
(* Properties.                                                             *)

\* A command is handed to the UPS at most once per INSTCMD, and never after
\* its client has been answered: run_pending_commands_ starts only what is
\* posted, and the server withdraws what it gives up on.
AtMostOnce ==
  [][\A r \in Requests :
       exec'[r] = "running" /\ exec[r] # "running" =>
         exec[r] = "none" /\ reply[r] = "none"]_vars

\* load.cycle: an outlet is never switched off unless its startup has been
\* scheduled before, whatever the transfers did.
StartupBeforeShutdown ==
  \A r \in Requests :
    cmd[r] \in Cycle /\ "main" \in reports[r] => "startup" \in reports[r]

\* If the command of a request was started at all, the client that was told
\* "OK" or ERR TEMPORARY-FAILURE by command_result_ was told the truth.
StartedAnswersAreTrue ==
  \A r \in Requests :
    reply[r] \in {"ok", "failed"} /\ exec[r] # "none" => reply[r] = exec[r]

AbandonedBefore(r) ==
  \E q \in 1..(r - 1) : reply[q] = "timeout" /\ exec[q] # "none"

\* A client is told "OK" for a command that was never started only if an
\* earlier request was given up on while its command ran: that one's late
\* completion clears pending_command_ for the new request.
UnstartedAnswersHaveCause ==
  \A r \in Requests :
    reply[r] \in {"ok", "failed"} /\ exec[r] = "none" => AbandonedBefore(r)

\* The naive reading of "0 = idle/ok" in nut.h: "OK" means it was done.
OkMeansExecuted ==
  \A r \in Requests : reply[r] = "ok" => exec[r] = "ok"

\* The server never starts a request while the index of an older one is
\* still posted.
ReadyMeansWithdrawn ==
  spc \in {"ready", "clear", "post"} => pending_command_ = Nobody

\* Every INSTCMD is answered, with or without a UPS.
EveryRequestAnswered ==
  \A r \in Requests : nreq = r ~> reply[r] # "none"

-----------------------------------------------------------------------------
(* Why the properties hold: an inductive invariant.                        *)

Busy == spc # "ready"           \* the server is inside an INSTCMD
Working == upc # "idle"         \* the USB task holds an index
ResultIs(r) == command_result_ = IF exec[r] = "ok" THEN 0 ELSE 1

\* Requests are answered in order; the ones still to come are blank.
RequestsInOrder ==
  /\ \A r \in 1..(nreq - 1) : reply[r] # "none"
  /\ \A r \in (nreq + 1)..MaxRequests :
       reply[r] = "none" /\ exec[r] = "none" /\ reports[r] = {}
  /\ IF Busy THEN /\ nreq >= 1
                  /\ cmd[nreq] \in Commands
                  /\ reply[nreq] = "none"
             ELSE nreq >= 1 => reply[nreq] # "none"

\* What is posted belongs to the current request, and is posted only while
\* the server looks at it.
PostedIsCurrent ==
  /\ spc \in {"clear", "post"} => exec[nreq] = "none"
  /\ pending_command_ >= 0 =>
       /\ spc \in {"wait", "recheck", "cancel"}
       /\ pending_command_ = cmd[nreq]
       /\ exec[nreq] # "none" => Working /\ ureq = nreq

\* The USB task works on one request, posted unless it has been abandoned.
WorkIsPosted ==
  /\ \A r \in Requests : exec[r] = "running" => upc \in {"startup", "main"} /\ ureq = r
  /\ Working =>
       /\ ureq \in 1..nreq
       /\ exec[ureq] \in (IF upc \in {"startup", "main"} THEN {"running"} ELSE {"ok", "failed"})
       /\ cmd[ureq] \in Commands
       /\ reply[ureq] \in {"none", "timeout"}
       /\ ureq = nreq /\ Busy => pending_command_ >= 0
       /\ ureq = nreq /\ upc = "done" => ResultIs(ureq)
       /\ upc = "main" /\ cmd[ureq] \in Cycle => "startup" \in reports[ureq]

\* Once the index is gone, the current request is finished and its result is
\* in command_result_, or an abandoned one took it away.
ClearedMeansDone ==
  spc \in {"wait", "recheck", "answer"} /\ pending_command_ < 0 =>
    IF exec[nreq] = "none" THEN AbandonedBefore(nreq)
                           ELSE ~Working /\ ResultIs(nreq)

HandshakeInv ==
  /\ RequestsInOrder
  /\ PostedIsCurrent
  /\ WorkIsPosted
  /\ ClearedMeansDone
  /\ StartupBeforeShutdown
  /\ StartedAnswersAreTrue
  /\ UnstartedAnswersHaveCause

-----------------------------------------------------------------------------
(* The handshake implements the service.                                   *)
Service == INSTANCE InstCmdService
             WITH MaxRequests <- MaxRequests, exec <- exec, reply <- reply
ServiceSpec == Service!Spec
=============================================================================
