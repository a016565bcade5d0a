--------------------------- MODULE InstCmdService ---------------------------
(***************************************************************************)
(* What the INSTCMD path of the component promises to its clients, with no *)
(* shared memory and no threads: a request is taken in, its command is     *)
(* started at most once and only while the client still waits, and the     *)
(* client gets one answer.                                                 *)
(*                                                                         *)
(* The answer of a request that was started is the truth.  A request that  *)
(* was not started may still be told "ok" or "failed", but only after an   *)
(* earlier request was given up on while its command was running: that is  *)
(* the weakness of the handshake the detailed specification, InstCmd,      *)
(* implements, and the abstract specification names it.                    *)
(***************************************************************************)
EXTENDS Naturals

CONSTANT MaxRequests    \* bound: INSTCMD lines handled in one behaviour

Requests == 1..MaxRequests

VARIABLES exec,         \* what the USB side did with each request's command
          reply         \* what the client of each request was told

vars == <<exec, reply>>

ExecStates == {"none", "running", "ok", "failed"}
Replies    == {"none", "ok", "failed", "timeout", "unsupported"}

TypeOK == /\ exec  \in [Requests -> ExecStates]
          /\ reply \in [Requests -> Replies]

Init == /\ exec  = [r \in Requests |-> "none"]
        /\ reply = [r \in Requests |-> "none"]

\* An earlier request was abandoned by the server after the USB task had
\* begun its command.
AbandonedBefore(r) ==
  \E q \in 1..(r - 1) : reply[q] = "timeout" /\ exec[q] # "none"

Start(r) == /\ exec[r] = "none"
            /\ reply[r] = "none"
            /\ \A q \in Requests : exec[q] # "running"
            /\ exec' = [exec EXCEPT ![r] = "running"]
            /\ UNCHANGED reply

Finish(r, outcome) == /\ exec[r] = "running"
                      /\ exec' = [exec EXCEPT ![r] = outcome]
                      /\ UNCHANGED reply

\* One answer per request, in the order of the requests.
Answer(r, answer) == /\ reply[r] = "none"
                     /\ \A q \in 1..(r - 1) : reply[q] # "none"
                     /\ reply' = [reply EXCEPT ![r] = answer]
                     /\ UNCHANGED exec

\* "OK" and the failure of the transfer.
Report(r) == \E answer \in {"ok", "failed"} :
               /\ \/ exec[r] = answer
                  \/ exec[r] = "none" /\ AbandonedBefore(r)
               /\ Answer(r, answer)

\* The server stops waiting, whatever the USB task is doing.
GiveUp(r) == Answer(r, "timeout")

Reject(r) == /\ exec[r] = "none"
             /\ Answer(r, "unsupported")

Next == \E r \in Requests :
          \/ Start(r)
          \/ \E outcome \in {"ok", "failed"} : Finish(r, outcome)
          \/ Report(r)
          \/ GiveUp(r)
          \/ Reject(r)

Spec == Init /\ [][Next]_vars
=============================================================================
