---------------------------- MODULE InstCmdTime ----------------------------
(***************************************************************************)
(* The INSTCMD handshake with the clocks the two tasks sleep on and the    *)
(* control transfers that carry out the commands.  A tick is 100 ms: the   *)
(* vTaskDelay of the server's loop and the take of the semaphore in the    *)
(* wait for a transfer.  Between two scans the USB client task blocks in   *)
(* usb_host_client_handle_events for AwayTicks.                            *)
(*                                                                         *)
(* Everything that is not a delay takes no time: a task whose delay is     *)
(* over acts before the next tick.  The steps of InstCmd and UsbTransfer   *)
(* are conjuncts of the actions here; where InstCmd lets a report fail or  *)
(* work, its transfer decides.                                             *)
(***************************************************************************)
EXTENDS InstCmd

CONSTANTS AwayTicks,    \* from one read of pending_command_ to the next: the
                        \* poll of the reports, then the 5000 ms event wait
          MaxTransfer   \* timeout of a control transfer (timeout_ms = 1000)

ASSUME TimeAssumption == AwayTicks \in Nat \ {0} /\ MaxTransfer \in Nat \ {0}

VARIABLES xpc, transfer, done, completed, acted, ok, age    \* of UsbTransfer

Usb == INSTANCE UsbTransfer
         WITH Timeout <- MaxTransfer, xpc <- xpc, transfer <- transfer,
              done <- done, completed <- completed, acted <- acted,
              ok <- ok, age <- age

VARIABLES sleep,    \* ticks left of the server's vTaskDelay
          rest,     \* ticks left of the USB task's event wait
          waited,   \* ticks spent in the current INSTCMD
          away,     \* rest when a request was posted to an idle USB task
          left      \* ticks the server was still to wait when it was started

transferVars == <<xpc, transfer, done, completed, acted, ok, age>>
timeVars == <<sleep, rest, waited, away, left>>

\* The first INSTCMD may come at any point of the USB task's period.
TimeInit == /\ Init
            /\ Usb!TransferInit
            /\ sleep = 0
            /\ rest \in 0..AwayTicks
            /\ waited = 0
            /\ away = [r \in Requests |-> 0]
            /\ left = [r \in Requests |-> 0]

ServerAwake == sleep = 0
UsbAwake    == rest = 0 /\ ~Usb!Blocked

Urgent == \/ ServerAwake /\ spc # "ready"
          \/ UsbAwake
          \/ Usb!Due

Less1(n) == IF n = 0 THEN 0 ELSE n - 1

Tick == /\ ~Urgent
        /\ sleep' = Less1(sleep)
        /\ rest' = Less1(rest)
        /\ waited' = IF spc = "ready" THEN waited ELSE waited + 1
        /\ IF Usb!Blocked THEN Usb!TakeTimesOut ELSE UNCHANGED transferVars
        /\ UNCHANGED <<vars, away, left>>

-----------------------------------------------------------------------------
(* The server task.                                                        *)

TimedClient == Client /\ UNCHANGED <<transferVars, timeVars>>

TimedPost == /\ ServerAwake
             /\ PostCommand
             /\ waited' = 0
             /\ away' = [away EXCEPT ![nreq] = IF upc = "idle" THEN rest ELSE 0]
             /\ UNCHANGED <<transferVars, sleep, rest, left>>

TimedWaitRound == /\ ServerAwake
                  /\ WaitRound
                  /\ sleep' = 1
                  /\ UNCHANGED <<transferVars, rest, waited, away, left>>

TimedServer == /\ ServerAwake
               /\ ClearResult \/ LeaveLoop \/ Recheck \/ Cancel \/ AnswerResult
               /\ UNCHANGED <<transferVars, timeVars>>

-----------------------------------------------------------------------------
(* The USB client task.                                                    *)

UsbTurn == UsbAwake /\ xpc = "idle"

\* load.cycle without a startup item calls nothing.
TimedPick == /\ UsbTurn
             /\ PickCommand
             /\ IF pending_command_ \in Cycle \ HasStartup
                  THEN UNCHANGED transferVars
                  ELSE Usb!Call
             /\ left' = [left EXCEPT ![nreq] = MaxAttempts - waited]
             /\ UNCHANGED <<sleep, rest, waited, away>>

TransferStep == /\ rest = 0
                /\ Usb!CallerStep \/ Usb!HostStep
                /\ UNCHANGED <<vars, timeVars>>

\* The UPS has acted on the report if the transfer says so.
AsTransferred(report) == report \in reports'[ureq] <=> acted

TimedStartup == /\ UsbTurn
                /\ ok
                /\ SendStartup /\ AsTransferred("startup")
                /\ Usb!Call
                /\ UNCHANGED timeVars

TimedAbort == /\ UsbTurn
              /\ AbortCycle
              /\ cmd[ureq] \in HasStartup => ~ok /\ AsTransferred("startup")
              /\ UNCHANGED <<transferVars, timeVars>>

TimedMain == /\ UsbTurn
             /\ SendMain /\ AsTransferred("main")
             /\ exec'[ureq] = "ok" <=> ok
             /\ UNCHANGED <<transferVars, timeVars>>

TimedResult == /\ UsbTurn
               /\ WriteResult
               /\ UNCHANGED <<transferVars, timeVars>>

\* The end of run_pending_commands_: the rest of the poll, then the wait.
TimedClear == /\ UsbTurn
              /\ ClearPending
              /\ rest' = AwayTicks
              /\ UNCHANGED <<transferVars, sleep, waited, away, left>>

NothingPosted == /\ UsbTurn
                 /\ upc = "idle"
                 /\ pending_command_ < 0
                 /\ rest' = AwayTicks
                 /\ UNCHANGED <<vars, transferVars, sleep, waited, away, left>>

TimeNext == \/ Tick
            \/ TimedClient
            \/ TimedPost \/ TimedWaitRound \/ TimedServer
            \/ TimedPick \/ TransferStep
            \/ TimedStartup \/ TimedAbort \/ TimedMain \/ TimedResult \/ TimedClear
            \/ NothingPosted

TimeSpec == TimeInit /\ [][TimeNext]_<<vars, transferVars, timeVars>>

-----------------------------------------------------------------------------
\* The single server task, and with it every other client, is held up by one
\* INSTCMD for MaxAttempts rounds of 100 ms and not a tick longer.
ServerBlockedAtMost == waited <= MaxAttempts

\* A command posted to an idle USB task is given up on unstarted only if the
\* task was to be away for the whole wait.
UnstartedOnlyIfAway ==
  \A r \in Requests :
    reply[r] = "timeout" /\ exec[r] = "none" /\ away[r] > 0 => away[r] >= MaxAttempts

TransfersOf(r) == IF cmd[r] \in HasStartup THEN 2 ELSE 1

\* A command that was started in time for its transfers to run into their
\* timeouts is not given up on: its client is told how it ended.
StartedInTimeIsTold ==
  \A r \in Requests :
    reply[r] = "timeout" /\ exec[r] # "none" =>
      left[r] <= TransfersOf(r) * (MaxTransfer + 1)

\* The discipline of UsbTransfer, kept by every transfer of a command; each is
\* described in that module.
FreedOnlyWhenReturned == Usb!FreedOnlyWhenReturned
NothingLeaks == Usb!NothingLeaks
TransferEnds == Usb!TransferEnds
RequestSpec  == Usb!RequestSpec
=============================================================================
