--------------------------- MODULE InstCmdProofs ---------------------------
(***************************************************************************)
(* The safety properties of the INSTCMD handshake, and that it implements  *)
(* InstCmdService, for every number of commands, attempts and requests;    *)
(* then what holds of the handshake and its transfers under the clock, for *)
(* every number of rounds, period of the USB task and timeout.             *)
(***************************************************************************)
EXTENDS InstCmdTime, TLAPS

USE DEF Commands, Requests, Nobody

\* A transfer adds at most one report to what the UPS has acted on.
LEMMA SendTyped ==
  ASSUME TypeOK, NEW report \in {"startup", "main"}, NEW worked \in BOOLEAN, Send(report, worked)
  PROVE  reports' \in [Requests -> SUBSET {"startup", "main"}]
<1> DEFINE Reports == SUBSET {"startup", "main"}
<1>1. reports \in [Requests -> Reports]
  BY DEF TypeOK
<1>2. ASSUME ureq \in Requests
      PROVE  reports[ureq] \cup {report} \in Reports
  BY <1>1, <1>2
<1>3. CASE Acted(report)
  BY <1>1, <1>2, <1>3 DEF Acted
<1>4. CASE UNCHANGED reports
  BY <1>1, <1>4
<1> QED
  BY <1>3, <1>4 DEF Send

\* TypeOK alone is not inductive: PostCommand reads cmd[nreq], so the server
\* must not be there before the first request.
Typed == TypeOK /\ (Busy => nreq >= 1)

\* The shared variables, the two program counters and the histories keep
\* their types: in particular pending_command_ is -1 or an index of commands_,
\* so commands_[index] in run_pending_commands_ is in range.
THEOREM TypeCorrect == Spec => []TypeOK
<1>1. Init => Typed
  BY ConstantsAssumption DEF Init, Typed, Busy, TypeOK, ServerPcs, UsbPcs
<1>2. Typed /\ [Next]_vars => Typed'
  <2> SUFFICES ASSUME Typed, [Next]_vars PROVE Typed'
    OBVIOUS
  <2> USE ConstantsAssumption DEF Typed, Busy, TypeOK, ServerPcs, UsbPcs, ServerGoes, UsbGoes, Tell,
          shared, serverPc, usbPc, requested
  <2>1. ASSUME NEW c \in Commands, Receive(c) PROVE Typed'
    BY <2>1 DEF Receive
  <2>2. CASE RejectUnknown
    BY <2>2 DEF RejectUnknown
  <2>3. CASE ClearResult
    BY <2>3 DEF ClearResult
  <2>4. CASE PostCommand
    BY <2>4 DEF PostCommand
  <2>5. CASE WaitRound
    BY <2>5 DEF WaitRound, KeepWaiting
  <2>6. CASE LeaveLoop
    BY <2>6 DEF LeaveLoop
  <2>7. CASE Recheck
    BY <2>7 DEF Recheck
  <2>8. CASE Cancel
    BY <2>8 DEF Cancel
  <2>9. CASE AnswerResult
    BY <2>9 DEF AnswerResult
  <2>10. CASE PickCommand
    BY <2>10 DEF PickCommand
  <2>11. CASE SendStartup
    BY <2>11, SendTyped DEF SendStartup
  <2>12. CASE AbortCycle
    BY <2>12, SendTyped DEF AbortCycle
  <2>13. CASE SendMain
    BY <2>13, SendTyped DEF SendMain
  <2>14. CASE WriteResult
    BY <2>14 DEF WriteResult
  <2>15. CASE ClearPending
    BY <2>15 DEF ClearPending
  <2>16. CASE UNCHANGED vars
    BY <2>16 DEF vars
  <2> QED
    BY <2>1, <2>2, <2>3, <2>4, <2>5, <2>6, <2>7, <2>8, <2>9, <2>10, <2>11, <2>12,
       <2>13, <2>14, <2>15, <2>16 DEF Next, Client, ServerStep, UsbStep
<1>3. Typed => TypeOK
  BY DEF Typed
<1> QED
  BY <1>1, <1>2, <1>3, PTL DEF Spec

\* The inductive step for the invariant of the handshake, action by action.
LEMMA HandshakeStep == TypeOK /\ TypeOK' /\ HandshakeInv /\ [Next]_vars => HandshakeInv'
<1> SUFFICES ASSUME TypeOK, TypeOK', HandshakeInv, [Next]_vars PROVE HandshakeInv'
  OBVIOUS
<1> USE ConstantsAssumption DEF TypeOK, ServerGoes, UsbGoes, shared, serverPc, usbPc,
      requested, HandshakeInv
<1>1. ASSUME NEW c \in Commands, Receive(c) PROVE HandshakeInv'
  <2>1. RequestsInOrder'
    BY <1>1 DEF Receive, RequestsInOrder, Busy
  <2>2. PostedIsCurrent'
    BY <1>1 DEF Receive, RequestsInOrder, PostedIsCurrent
  <2>3. WorkIsPosted'
    BY <1>1 DEF Receive, WorkIsPosted, Working
  <2>4. ClearedMeansDone'
    BY <1>1 DEF Receive, ClearedMeansDone
  <2>5. StartupBeforeShutdown'
    BY <1>1 DEF Receive, RequestsInOrder, StartupBeforeShutdown
  <2>6. (StartedAnswersAreTrue /\ UnstartedAnswersHaveCause)'
    BY <1>1 DEF Receive, StartedAnswersAreTrue, UnstartedAnswersHaveCause,
       AbandonedBefore
  <2> QED
    BY <2>1, <2>2, <2>3, <2>4, <2>5, <2>6
<1>2. CASE RejectUnknown
  <2>1. RequestsInOrder'
    BY <1>2 DEF RejectUnknown, RequestsInOrder, Busy
  <2>2. PostedIsCurrent'
    BY <1>2 DEF RejectUnknown, PostedIsCurrent
  <2>3. WorkIsPosted'
    BY <1>2 DEF RejectUnknown, WorkIsPosted, Working
  <2>4. ClearedMeansDone'
    BY <1>2 DEF RejectUnknown, ClearedMeansDone
  <2>5. StartedAnswersAreTrue'
    BY <1>2 DEF RejectUnknown, StartedAnswersAreTrue
  <2>6. UnstartedAnswersHaveCause'
    BY <1>2 DEF RejectUnknown, RequestsInOrder, UnstartedAnswersHaveCause,
       AbandonedBefore
  <2>7. StartupBeforeShutdown'
    BY <1>2 DEF RejectUnknown, StartupBeforeShutdown
  <2> QED
    BY <2>1, <2>2, <2>3, <2>4, <2>5, <2>6, <2>7
<1>3. CASE ClearResult
  <2>1. RequestsInOrder'
    BY <1>3 DEF ClearResult, RequestsInOrder, Busy
  <2>2. PostedIsCurrent'
    BY <1>3 DEF ClearResult, PostedIsCurrent
  <2>3. WorkIsPosted'
    BY <1>3 DEF ClearResult, PostedIsCurrent, WorkIsPosted, Working
  <2>4. ClearedMeansDone'
    BY <1>3 DEF ClearResult, ClearedMeansDone
  <2>5. /\ StartupBeforeShutdown'
       /\ StartedAnswersAreTrue'
       /\ UnstartedAnswersHaveCause'
    BY <1>3 DEF ClearResult, StartupBeforeShutdown, StartedAnswersAreTrue,
       UnstartedAnswersHaveCause, AbandonedBefore
  <2> QED
    BY <2>1, <2>2, <2>3, <2>4, <2>5
<1>4. CASE PostCommand
  <2>1. RequestsInOrder'
    BY <1>4 DEF PostCommand, RequestsInOrder, Busy
  <2>2. PostedIsCurrent'
    BY <1>4 DEF PostCommand, PostedIsCurrent
  <2>3. WorkIsPosted'
    BY <1>4 DEF PostCommand, PostedIsCurrent, WorkIsPosted, Working
  <2>4. ClearedMeansDone'
    BY <1>4 DEF PostCommand, RequestsInOrder, ClearedMeansDone, Busy
  <2>5. /\ StartupBeforeShutdown'
       /\ StartedAnswersAreTrue'
       /\ UnstartedAnswersHaveCause'
    BY <1>4 DEF PostCommand, StartupBeforeShutdown, StartedAnswersAreTrue,
       UnstartedAnswersHaveCause, AbandonedBefore
  <2> QED
    BY <2>1, <2>2, <2>3, <2>4, <2>5
<1>5. CASE WaitRound
  <2>1. /\ RequestsInOrder'
       /\ PostedIsCurrent'
       /\ WorkIsPosted'
       /\ ClearedMeansDone'
       /\ StartupBeforeShutdown'
       /\ StartedAnswersAreTrue'
       /\ UnstartedAnswersHaveCause'
    BY <1>5 DEF WaitRound, RequestsInOrder, PostedIsCurrent, WorkIsPosted,
       ClearedMeansDone, StartupBeforeShutdown, StartedAnswersAreTrue,
       UnstartedAnswersHaveCause, Busy, Working, ResultIs, AbandonedBefore
  <2> QED
    BY <2>1
<1>6. CASE LeaveLoop
  <2>1. RequestsInOrder'
    BY <1>6 DEF LeaveLoop, RequestsInOrder, Busy
  <2>2. PostedIsCurrent'
    BY <1>6 DEF LeaveLoop, PostedIsCurrent, Working
  <2>3. WorkIsPosted'
    BY <1>6 DEF LeaveLoop, WorkIsPosted, ClearedMeansDone, Working, ResultIs
  <2>4. ClearedMeansDone'
    BY <1>6 DEF LeaveLoop, ClearedMeansDone, Working, ResultIs,
       AbandonedBefore
  <2>5. /\ StartupBeforeShutdown'
       /\ StartedAnswersAreTrue'
       /\ UnstartedAnswersHaveCause'
    BY <1>6 DEF LeaveLoop, StartupBeforeShutdown, StartedAnswersAreTrue,
       UnstartedAnswersHaveCause, AbandonedBefore
  <2> QED
    BY <2>1, <2>2, <2>3, <2>4, <2>5
<1>7. CASE Recheck
  <2>1. RequestsInOrder'
    BY <1>7 DEF Recheck, RequestsInOrder, Busy
  <2>2. PostedIsCurrent'
    BY <1>7 DEF Recheck, PostedIsCurrent, Working
  <2>3. WorkIsPosted'
    BY <1>7 DEF Recheck, WorkIsPosted, ClearedMeansDone, Working, ResultIs
  <2>4. ClearedMeansDone'
    BY <1>7 DEF Recheck, ClearedMeansDone, Working, ResultIs, AbandonedBefore
  <2>5. /\ StartupBeforeShutdown'
       /\ StartedAnswersAreTrue'
       /\ UnstartedAnswersHaveCause'
    BY <1>7 DEF Recheck, StartupBeforeShutdown, StartedAnswersAreTrue,
       UnstartedAnswersHaveCause, AbandonedBefore
  <2> QED
    BY <2>1, <2>2, <2>3, <2>4, <2>5
<1>8. CASE Cancel
  <2>1. RequestsInOrder'
    BY <1>8 DEF Cancel, Tell, RequestsInOrder, Busy
  <2>2. PostedIsCurrent'
    BY <1>8 DEF Cancel, PostedIsCurrent
  <2>3. WorkIsPosted'
    BY <1>8 DEF Cancel, Tell, WorkIsPosted, Busy, Working, ResultIs
  <2>4. ClearedMeansDone'
    BY <1>8 DEF Cancel, ClearedMeansDone
  <2>5. StartedAnswersAreTrue'
    BY <1>8 DEF Cancel, Tell, StartedAnswersAreTrue
  <2>6. UnstartedAnswersHaveCause'
    BY <1>8 DEF Cancel, Tell, UnstartedAnswersHaveCause, AbandonedBefore
  <2>7. StartupBeforeShutdown'
    BY <1>8 DEF Cancel, StartupBeforeShutdown
  <2> QED
    BY <2>1, <2>2, <2>3, <2>4, <2>5, <2>6, <2>7
<1>9. CASE AnswerResult
  <2>1. RequestsInOrder'
    BY <1>9 DEF Tell, AnswerResult, RequestsInOrder, Busy
  <2>2. PostedIsCurrent'
    BY <1>9 DEF AnswerResult, PostedIsCurrent
  <2>3. WorkIsPosted'
    BY <1>9 DEF Tell, AnswerResult, PostedIsCurrent, WorkIsPosted,
       ClearedMeansDone, Working
  <2>4. ClearedMeansDone'
    BY <1>9 DEF AnswerResult, ClearedMeansDone
  <2>5. StartedAnswersAreTrue'
    BY <1>9 DEF Tell, AnswerResult, PostedIsCurrent, WorkIsPosted,
       ClearedMeansDone, StartedAnswersAreTrue, Working, ResultIs
  <2>6. UnstartedAnswersHaveCause'
    BY <1>9 DEF Tell, AnswerResult, RequestsInOrder, PostedIsCurrent,
       ClearedMeansDone, UnstartedAnswersHaveCause, AbandonedBefore
  <2>7. StartupBeforeShutdown'
    BY <1>9 DEF AnswerResult, StartupBeforeShutdown
  <2> QED
    BY <2>1, <2>2, <2>3, <2>4, <2>5, <2>6, <2>7
<1>10. CASE PickCommand
  <2>1. RequestsInOrder'
    BY <1>10 DEF PickCommand, RequestsInOrder, Busy
  <2>2. PostedIsCurrent'
    BY <1>10 DEF PickCommand, PostedIsCurrent, Working
  <2>3. WorkIsPosted'
    BY <1>10 DEF PickCommand, RequestsInOrder, PostedIsCurrent, WorkIsPosted,
       Busy
  <2>4. ClearedMeansDone'
    BY <1>10 DEF PickCommand, ClearedMeansDone
  <2>5. StartedAnswersAreTrue'
    BY <1>10 DEF PickCommand, RequestsInOrder, PostedIsCurrent,
       StartedAnswersAreTrue, Busy
  <2>6. UnstartedAnswersHaveCause'
    BY <1>10 DEF PickCommand, UnstartedAnswersHaveCause, AbandonedBefore
  <2>7. StartupBeforeShutdown'
    BY <1>10 DEF PickCommand, StartupBeforeShutdown
  <2> QED
    BY <2>1, <2>2, <2>3, <2>4, <2>5, <2>6, <2>7
<1>11. CASE SendStartup
  <2>1. RequestsInOrder'
    BY <1>11 DEF SendStartup, Send, Acted, RequestsInOrder, WorkIsPosted,
       Busy, Working
  <2>2. PostedIsCurrent'
    BY <1>11 DEF SendStartup, PostedIsCurrent, Working
  <2>3. WorkIsPosted'
    BY <1>11 DEF SendStartup, Send, Acted, WorkIsPosted, Busy, Working
  <2>4. ClearedMeansDone'
    BY <1>11 DEF SendStartup, ClearedMeansDone, Working, AbandonedBefore
  <2>5. StartupBeforeShutdown'
    BY <1>11 DEF SendStartup, Send, Acted, StartupBeforeShutdown
  <2>6. (StartedAnswersAreTrue /\ UnstartedAnswersHaveCause)'
    BY <1>11 DEF SendStartup, StartedAnswersAreTrue,
       UnstartedAnswersHaveCause, AbandonedBefore
  <2> QED
    BY <2>1, <2>2, <2>3, <2>4, <2>5, <2>6
<1>12. CASE AbortCycle
  <2>1. RequestsInOrder'
    BY <1>12 DEF Send, Acted, AbortCycle, RequestsInOrder, WorkIsPosted, Busy,
       Working
  <2>2. PostedIsCurrent'
    BY <1>12 DEF AbortCycle, PostedIsCurrent, WorkIsPosted, Working
  <2>3. WorkIsPosted'
    BY <1>12 DEF AbortCycle, WorkIsPosted, Busy, Working
  <2>4. ClearedMeansDone'
    BY <1>12 DEF AbortCycle, WorkIsPosted, ClearedMeansDone, Working,
       AbandonedBefore
  <2>5. StartupBeforeShutdown'
    BY <1>12 DEF Send, Acted, AbortCycle, StartupBeforeShutdown
  <2>6. StartedAnswersAreTrue'
    BY <1>12 DEF AbortCycle, WorkIsPosted, StartedAnswersAreTrue, Working
  <2>7. UnstartedAnswersHaveCause'
    BY <1>12 DEF AbortCycle, UnstartedAnswersHaveCause, AbandonedBefore
  <2> QED
    BY <2>1, <2>2, <2>3, <2>4, <2>5, <2>6, <2>7
<1>13. CASE SendMain
  <2>1. RequestsInOrder'
    BY <1>13 DEF Send, Acted, SendMain, RequestsInOrder, WorkIsPosted, Busy,
       Working
  <2>2. PostedIsCurrent'
    BY <1>13 DEF SendMain, PostedIsCurrent, WorkIsPosted, Working
  <2>3. WorkIsPosted'
    BY <1>13 DEF SendMain, WorkIsPosted, Busy, Working
  <2>4. ClearedMeansDone'
    BY <1>13 DEF SendMain, WorkIsPosted, ClearedMeansDone, Working,
       AbandonedBefore
  <2>5. StartupBeforeShutdown'
    BY <1>13 DEF Send, Acted, SendMain, WorkIsPosted, StartupBeforeShutdown,
       Working
  <2>6. StartedAnswersAreTrue'
    BY <1>13 DEF SendMain, WorkIsPosted, StartedAnswersAreTrue, Working
  <2>7. UnstartedAnswersHaveCause'
    BY <1>13 DEF Send, Acted, SendMain, WorkIsPosted,
       UnstartedAnswersHaveCause, Working, AbandonedBefore
  <2> QED
    BY <2>1, <2>2, <2>3, <2>4, <2>5, <2>6, <2>7
<1>14. CASE WriteResult
  <2>1. PostedIsCurrent'
    BY <1>14 DEF WriteResult, PostedIsCurrent, Working
  <2>2. WorkIsPosted'
    BY <1>14 DEF WriteResult, WorkIsPosted, Busy, Working, ResultIs
  <2>3. ClearedMeansDone'
    BY <1>14 DEF WriteResult, ClearedMeansDone, Working, AbandonedBefore
  <2>4. /\ RequestsInOrder'
       /\ StartupBeforeShutdown'
       /\ StartedAnswersAreTrue'
       /\ UnstartedAnswersHaveCause'
    BY <1>14 DEF WriteResult, RequestsInOrder, StartupBeforeShutdown,
       StartedAnswersAreTrue, UnstartedAnswersHaveCause, Busy, AbandonedBefore
  <2> QED
    BY <2>1, <2>2, <2>3, <2>4
<1>15. CASE ClearPending
  <2>1. PostedIsCurrent'
    BY <1>15 DEF ClearPending, PostedIsCurrent
  <2>2. WorkIsPosted'
    BY <1>15 DEF ClearPending, WorkIsPosted, Working
  <2>3. ClearedMeansDone'
    BY <1>15 DEF ClearPending, RequestsInOrder, PostedIsCurrent, WorkIsPosted,
       ClearedMeansDone, Working, ResultIs, AbandonedBefore
  <2>4. /\ RequestsInOrder'
       /\ StartupBeforeShutdown'
       /\ StartedAnswersAreTrue'
       /\ UnstartedAnswersHaveCause'
    BY <1>15 DEF ClearPending, RequestsInOrder, StartupBeforeShutdown,
       StartedAnswersAreTrue, UnstartedAnswersHaveCause, Busy, AbandonedBefore
  <2> QED
    BY <2>1, <2>2, <2>3, <2>4
<1>16. CASE UNCHANGED vars
  <2>1. /\ RequestsInOrder'
       /\ PostedIsCurrent'
       /\ WorkIsPosted'
       /\ ClearedMeansDone'
       /\ StartupBeforeShutdown'
       /\ StartedAnswersAreTrue'
       /\ UnstartedAnswersHaveCause'
    BY <1>16 DEF vars, RequestsInOrder, PostedIsCurrent, WorkIsPosted,
       ClearedMeansDone, StartupBeforeShutdown, StartedAnswersAreTrue,
       UnstartedAnswersHaveCause, Busy, Working, ResultIs, AbandonedBefore
  <2> QED
    BY <2>1
<1> QED
  BY <1>1, <1>2, <1>3, <1>4, <1>5, <1>6, <1>7, <1>8, <1>9, <1>10, <1>11,
     <1>12, <1>13, <1>14, <1>15, <1>16 DEF Next,
     Client, ServerStep, UsbStep

\* In every reachable state the two tasks agree on whose command is posted,
\* being run and finished: the inductive invariant of the handshake.
THEOREM HandshakeInvariant == Spec => [](TypeOK /\ HandshakeInv)
<1>1. Init => HandshakeInv
  BY ConstantsAssumption DEF Init, HandshakeInv, RequestsInOrder, PostedIsCurrent,
     WorkIsPosted, ClearedMeansDone, StartupBeforeShutdown, StartedAnswersAreTrue,
     UnstartedAnswersHaveCause, AbandonedBefore, Busy, Working, ResultIs
<1> QED
  BY <1>1, HandshakeStep, TypeCorrect, PTL DEF Spec

\* The properties the runs check, read off the invariant: what a client is
\* told about a command that was started is true.
THEOREM StartedAnswersTrue == Spec => []StartedAnswersAreTrue
BY HandshakeInvariant, PTL DEF HandshakeInv

\* An OK or a failure for a command that was never started comes only after an
\* abandoned one.
THEOREM UnstartedAnswersCause == Spec => []UnstartedAnswersHaveCause
BY HandshakeInvariant, PTL DEF HandshakeInv

\* No outlet is switched off by load.cycle without its startup scheduled.
THEOREM CycleSchedulesStartup == Spec => []StartupBeforeShutdown
BY HandshakeInvariant, PTL DEF HandshakeInv

\* pending_command_ is -1 whenever the server has no request outstanding.
THEOREM PostedIsWithdrawn == Spec => []ReadyMeansWithdrawn
<1>1. TypeOK /\ HandshakeInv => ReadyMeansWithdrawn
  BY DEF TypeOK, HandshakeInv, PostedIsCurrent, ReadyMeansWithdrawn
<1> QED
  BY <1>1, HandshakeInvariant, PTL

\* Only PickCommand starts a command, and it starts one that is posted, so
\* still unstarted and unanswered.
THEOREM StartsAtMostOnce == Spec => AtMostOnce
<1> DEFINE Once == \A r \in Requests : exec'[r] = "running" /\ exec[r] # "running" =>
                                         exec[r] = "none" /\ reply[r] = "none"
<1>1. TypeOK /\ HandshakeInv /\ [Next]_vars => [Once]_vars
  <2> SUFFICES ASSUME TypeOK, HandshakeInv, Next PROVE Once
    BY DEF vars
  <2> USE ConstantsAssumption DEF TypeOK
  <2>1. CASE PickCommand
    <3>1. /\ exec' = [exec EXCEPT ![nreq] = "running"]
          /\ pending_command_ >= 0
          /\ ~Working
      BY <2>1 DEF PickCommand, UsbGoes, Working
    <3>2. exec[nreq] = "none" /\ reply[nreq] = "none"
      BY <3>1 DEF HandshakeInv, PostedIsCurrent, RequestsInOrder, Busy
    <3> QED
      BY <3>1, <3>2
  <2>2. CASE AbortCycle \/ SendMain
    BY <2>2 DEF AbortCycle, SendMain
  <2>3. CASE Client \/ ServerStep \/ SendStartup \/ WriteResult \/ ClearPending
    BY <2>3 DEF Client, Receive, RejectUnknown, ServerStep, ClearResult, PostCommand,
       WaitRound, LeaveLoop, Recheck, Cancel, AnswerResult, SendStartup, WriteResult,
       ClearPending
  <2> QED
    BY <2>1, <2>2, <2>3 DEF Next, UsbStep
<1> QED
  BY <1>1, HandshakeInvariant, PTL DEF Spec, AtMostOnce

-----------------------------------------------------------------------------
(* Refinement: every step of the handshake is a step of the service or     *)
(* leaves exec and reply alone.                                            *)

\* A step of either task maps to one action of InstCmdService or to a stutter;
\* the invariant says which answers the service allows.
LEMMA HandshakeStepsAreServiceSteps ==
  TypeOK /\ HandshakeInv /\ [Next]_vars => [Service!Next]_(Service!vars)
<1> SUFFICES ASSUME TypeOK, HandshakeInv, [Next]_vars
             PROVE  Service!Next \/ UNCHANGED <<exec, reply>>
  BY DEF Service!vars
<1> USE ConstantsAssumption DEF TypeOK, Service!Requests
<1>1. CASE PickCommand
  <2>1. /\ exec' = [exec EXCEPT ![nreq] = "running"]
        /\ UNCHANGED reply
        /\ pending_command_ >= 0
        /\ ~Working
    BY <1>1 DEF PickCommand, UsbGoes, Working
  <2>2. nreq \in Requests /\ exec[nreq] = "none" /\ reply[nreq] = "none"
    BY <2>1 DEF HandshakeInv, PostedIsCurrent, RequestsInOrder, Busy
  <2>3. \A q \in Requests : exec[q] # "running"
    BY <2>1 DEF HandshakeInv, WorkIsPosted, Working
  <2>4. Service!Start(nreq)
    BY <2>1, <2>2, <2>3 DEF Service!Start
  <2> QED
    BY <2>2, <2>4 DEF Service!Next
<1>2. CASE AbortCycle
  <2>1. ureq \in Requests /\ exec[ureq] = "running"
    BY <1>2 DEF AbortCycle, UsbGoes, HandshakeInv, WorkIsPosted, Working
  <2>2. Service!Finish(ureq, "failed")
    BY <1>2, <2>1 DEF AbortCycle, Service!Finish
  <2> QED
    BY <2>1, <2>2 DEF Service!Next
<1>3. CASE SendMain
  <2>1. ureq \in Requests /\ exec[ureq] = "running"
    BY <1>3 DEF SendMain, UsbGoes, HandshakeInv, WorkIsPosted, Working
  <2>2. \E outcome \in {"ok", "failed"} : Service!Finish(ureq, outcome)
    BY <1>3, <2>1 DEF SendMain, Service!Finish
  <2> QED
    BY <2>1, <2>2 DEF Service!Next
<1>4. CASE AnswerResult
  <2> DEFINE answer == IF command_result_ = 0 THEN "ok" ELSE "failed"
  <2>1. nreq \in Requests /\ reply[nreq] = "none" /\ pending_command_ < 0
    BY <1>4 DEF AnswerResult, ServerGoes, HandshakeInv, RequestsInOrder, PostedIsCurrent, Busy
  <2>2. IF exec[nreq] = "none" THEN AbandonedBefore(nreq)
                               ELSE ~Working /\ ResultIs(nreq)
    BY <1>4, <2>1 DEF AnswerResult, ServerGoes, HandshakeInv, ClearedMeansDone
  <2>3. exec[nreq] = answer \/ (exec[nreq] = "none" /\ AbandonedBefore(nreq))
    <3>1. CASE exec[nreq] = "none"
      BY <2>2, <3>1
    <3>2. CASE exec[nreq] # "none"
      <4>1. ~Working /\ ResultIs(nreq)
        BY <2>2, <3>2
      <4>2. exec[nreq] # "running"
        BY <2>1, <4>1 DEF HandshakeInv, WorkIsPosted, Working
      <4>3. exec[nreq] \in {"ok", "failed"}
        BY <2>1, <3>2, <4>2
      <4>4. answer = exec[nreq]
        BY <4>1, <4>3 DEF ResultIs
      <4> QED
        BY <4>4
    <3> QED
      BY <3>1, <3>2
  <2>4. Service!Answer(nreq, answer)
    BY <1>4, <2>1 DEF AnswerResult, Tell, Service!Answer, HandshakeInv, RequestsInOrder
  <2>5. Service!Report(nreq)
    BY <2>3, <2>4 DEF Service!Report, Service!AbandonedBefore, AbandonedBefore
  <2> QED
    BY <2>1, <2>5 DEF Service!Next
<1>5. CASE Cancel
  <2>1. nreq \in Requests /\ reply[nreq] = "none"
    BY <1>5 DEF Cancel, ServerGoes, HandshakeInv, RequestsInOrder, Busy
  <2>2. Service!GiveUp(nreq)
    BY <1>5, <2>1 DEF Cancel, Tell, Service!GiveUp, Service!Answer, HandshakeInv, RequestsInOrder
  <2> QED
    BY <2>1, <2>2 DEF Service!Next
<1>6. CASE RejectUnknown
  <2>1. nreq + 1 \in Requests /\ exec[nreq + 1] = "none" /\ reply[nreq + 1] = "none"
    BY <1>6 DEF RejectUnknown, HandshakeInv, RequestsInOrder
  <2>2. \A q \in 1..nreq : reply[q] # "none"
    BY <1>6 DEF RejectUnknown, HandshakeInv, RequestsInOrder, Busy
  <2>3. Service!Reject(nreq + 1)
    BY <1>6, <2>1, <2>2 DEF RejectUnknown, Service!Reject, Service!Answer
  <2> QED
    BY <2>1, <2>3 DEF Service!Next
<1>7. CASE (\E c \in Commands : Receive(c)) \/ ClearResult \/ PostCommand \/ WaitRound
           \/ LeaveLoop \/ Recheck \/ SendStartup \/ WriteResult \/ ClearPending
           \/ UNCHANGED vars
  BY <1>7 DEF Receive, ClearResult, PostCommand, WaitRound, LeaveLoop, Recheck,
     SendStartup, WriteResult, ClearPending, vars
<1> QED
  BY <1>1, <1>2, <1>3, <1>4, <1>5, <1>6, <1>7 DEF Next, Client, ServerStep, UsbStep

\* The two tasks and their two volatile ints keep the promise InstCmdService
\* states: at most one start per request, one answer, in order.
THEOREM ImplementsService == Spec => ServiceSpec
<1>1. Init => Service!Init
  BY DEF Init, Service!Init, Service!Requests
<1> QED
  BY <1>1, HandshakeStepsAreServiceSteps, HandshakeInvariant, PTL
     DEF Spec, ServiceSpec, Service!Spec

-----------------------------------------------------------------------------
(* The clock and the transfers.                                            *)

Transfer == INSTANCE UsbTransferProofs WITH Timeout <- MaxTransfer

\* The clock adds conjuncts to the steps of the handshake and none of its own:
\* whatever is proved of Spec holds for the timed tasks.
THEOREM TimedIsHandshake == TimeSpec => Spec
<1>1. TimeInit => Init
  BY DEF TimeInit
<1>2. [TimeNext]_<<vars, transferVars, timeVars>> => [Next]_vars
  <2> SUFFICES ASSUME TimeNext PROVE Next \/ UNCHANGED vars
    OBVIOUS
  <2>1. CASE Tick \/ TransferStep \/ NothingPosted
    BY <2>1 DEF Tick, TransferStep, NothingPosted
  <2>2. CASE TimedClient
    BY <2>2 DEF TimedClient, Next
  <2>3. CASE TimedPost \/ TimedWaitRound \/ TimedServer
    BY <2>3 DEF TimedPost, TimedWaitRound, TimedServer, Next, ServerStep
  <2>4. CASE TimedPick \/ TimedStartup \/ TimedAbort \/ TimedMain \/ TimedResult \/ TimedClear
    BY <2>4 DEF TimedPick, TimedStartup, TimedAbort, TimedMain, TimedResult, TimedClear,
       Next, UsbStep
  <2> QED
    BY <2>1, <2>2, <2>3, <2>4 DEF TimeNext
<1> QED
  BY <1>1, <1>2, PTL DEF TimeSpec, Spec

\* The transfers that carry out the commands are transfers of UsbTransfer.
LEMMA TimedIsTransfer == TimeSpec => Transfer!TransferSpec
<1>1. TimeInit => Transfer!TransferInit
  BY DEF TimeInit, Usb!TransferInit, Transfer!TransferInit
<1>2. Usb!Call => Transfer!Call
  BY DEF Usb!Call, Transfer!Call, Usb!XGoes, Transfer!XGoes
<1>3. Usb!CallerStep => Transfer!CallerStep
  BY DEF Usb!CallerStep, Usb!Allocate, Usb!AllocateFails, Usb!CreateSemaphore,
     Usb!CreateSemaphoreFails, Usb!Submit, Usb!SubmitFails, Usb!Pump, Usb!Take,
     Usb!LastPump, Usb!Release, Usb!Deliver, Usb!XGoes,
     Transfer!CallerStep, Transfer!Allocate, Transfer!AllocateFails,
     Transfer!CreateSemaphore, Transfer!CreateSemaphoreFails, Transfer!Submit,
     Transfer!SubmitFails, Transfer!Pump, Transfer!Take, Transfer!LastPump,
     Transfer!Release, Transfer!Deliver, Transfer!XGoes
<1>4. Usb!HostStep => Transfer!HostStep
  BY DEF Usb!HostStep, Usb!DeviceActs, Usb!HostFinishes,
     Transfer!HostStep, Transfer!DeviceActs, Transfer!HostFinishes
<1>5. Usb!TakeTimesOut /\ ~Usb!Due => Transfer!TransferTick
  BY DEF Usb!TakeTimesOut, Usb!Due, Usb!Blocked, Usb!XGoes, Transfer!TransferTick,
     Transfer!TakeTimesOut, Transfer!Due, Transfer!Blocked, Transfer!XGoes
<1>6. [TimeNext]_<<vars, transferVars, timeVars>>
        => [Transfer!TransferNext]_(Transfer!transferVars)
  <2> SUFFICES ASSUME TimeNext
               PROVE  Transfer!TransferNext \/ UNCHANGED transferVars
    BY DEF Transfer!transferVars, transferVars
  <2>1. CASE Tick
    BY <2>1, <1>5 DEF Tick, Urgent, Transfer!TransferNext
  <2>2. CASE TimedPick \/ TimedStartup
    BY <2>2, <1>2 DEF TimedPick, TimedStartup, Transfer!TransferNext
  <2>3. CASE TransferStep
    BY <2>3, <1>3, <1>4 DEF TransferStep, Transfer!TransferNext
  <2>4. CASE TimedClient \/ TimedPost \/ TimedWaitRound \/ TimedServer \/ TimedAbort
             \/ TimedMain \/ TimedResult \/ TimedClear \/ NothingPosted
    BY <2>4 DEF TimedClient, TimedPost, TimedWaitRound, TimedServer, TimedAbort,
       TimedMain, TimedResult, TimedClear, NothingPosted
  <2> QED
    BY <2>1, <2>2, <2>3, <2>4 DEF TimeNext
<1> QED
  BY <1>1, <1>6, PTL DEF TimeSpec, Transfer!TransferSpec

\* Whichever way a command ends, its transfers and semaphores are gone.
THEOREM CommandsLeakNothing == TimeSpec => []NothingLeaks
<1>1. Transfer!NothingLeaks => NothingLeaks
  BY DEF Transfer!NothingLeaks, NothingLeaks, Usb!NothingLeaks
<1> QED
  BY <1>1, TimedIsTransfer, Transfer!NothingIsLeaked, PTL

\* The USB task is held up by each of its transfers for MaxTransfer and one take.
THEOREM CommandTransfersEnd == TimeSpec => []TransferEnds
<1>1. MaxTransfer \in Nat
  BY TimeAssumption
<1>2. Transfer!TransferEnds => TransferEnds
  BY DEF Transfer!TransferEnds, TransferEnds, Usb!TransferEnds
<1> QED
  BY <1>1, <1>2, TimedIsTransfer, Transfer!TransferIsBounded, PTL

\* No callback finds the transfer or the semaphore of a command that is over.
THEOREM CommandsFreeAfterCallback == TimeSpec => FreedOnlyWhenReturned
<1>1. Transfer!FreedOnlyWhenReturned => FreedOnlyWhenReturned
  BY PTL DEF Transfer!FreedOnlyWhenReturned, Transfer!transferVars,
     FreedOnlyWhenReturned, Usb!FreedOnlyWhenReturned, Usb!transferVars
<1> QED
  BY <1>1, TimedIsTransfer, Transfer!FreedAfterCallback, PTL

\* Every report of a command is one atomic request to the device.
THEOREM CommandsMakeRequests == TimeSpec => RequestSpec
<1>1. Transfer!RequestSpec => RequestSpec
  BY PTL DEF Transfer!RequestSpec, Transfer!Request!Spec, Transfer!Request!Init,
     Transfer!Request!Next, Transfer!Request!Begin, Transfer!Request!Act,
     Transfer!Request!End, Transfer!Request!vars,
     RequestSpec, Usb!RequestSpec, Usb!Request!Spec, Usb!Request!Init,
     Usb!Request!Next, Usb!Request!Begin, Usb!Request!Act,
     Usb!Request!End, Usb!Request!vars
<1> QED
  BY <1>1, TimedIsTransfer, Transfer!ImplementsRequest, PTL

-----------------------------------------------------------------------------
(* The clocks.                                                             *)

\* The server sleeps only between two rounds, and every tick it sees is slept.
ServerClock ==
  /\ sleep \in {0, 1}
  /\ sleep = 1 => spc = "wait" /\ attempts > 0
  /\ waited \in 0..MaxAttempts
  /\ spc \in {"wait", "recheck", "cancel"} => waited + sleep = attempts

\* The USB task rests between two polls only, and transfers only in a command.
UsbClock ==
  /\ rest \in 0..AwayTicks
  /\ upc # "idle" => rest = 0
  /\ upc \in {"idle", "result", "done"} => xpc = "idle"
  /\ upc = "startup" /\ cmd[ureq] \notin HasStartup => xpc = "idle"

\* The server gives up after the last round only.  What it then withdraws is
\* still posted, or the USB task has just cleared it and is idle.
GivingUp ==
  /\ spc = "cancel" \/ (spc = "recheck" /\ pending_command_ >= 0) => attempts = MaxAttempts
  /\ spc = "cancel" /\ pending_command_ < 0 => upc = "idle"

\* A request posted while the USB task rested is posted until that rest is over.
AwayInv ==
  /\ away \in [Requests -> 0..AwayTicks]
  /\ \A r \in (nreq + 1)..MaxRequests : away[r] = 0
  /\ spc \in {"wait", "recheck", "cancel"} /\ exec[nreq] = "none" /\ away[nreq] > 0 =>
       pending_command_ >= 0 /\ upc = "idle" /\ rest + waited = away[nreq]

\* The server has not seen the USB task finish its request.
StillWaits == spc = "cancel" \/ (spc \in {"wait", "recheck"} /\ pending_command_ >= 0)

\* The ticks the transfers of the current request may have taken so far.
Spent ==
  IF upc = "startup" THEN IF cmd[nreq] \in HasStartup THEN age ELSE 0
  ELSE IF upc = "main" THEN IF cmd[nreq] \in HasStartup THEN MaxTransfer + 1 + age ELSE age
  ELSE TransfersOf(nreq) * (MaxTransfer + 1)

\* A tick after the start of a request is one of its transfers'.
LeftInv ==
  /\ left \in [Requests -> 0..MaxAttempts]
  /\ StillWaits /\ exec[nreq] # "none" => waited + left[nreq] <= MaxAttempts + Spent

\* The inductive invariant of the clocks.
TimeInv ==
  /\ ServerClock
  /\ UsbClock
  /\ GivingUp
  /\ AwayInv
  /\ LeftInv
  /\ UnstartedOnlyIfAway
  /\ StartedInTimeIsTold

-----------------------------------------------------------------------------
(* Every step keeps TimeInv.  What the steps below may assume in the state *)
(* they start from:                                                        *)
Known == TypeOK /\ HandshakeInv /\ TimeInv /\ age \in 0..(MaxTransfer + 1)

USE ConstantsAssumption, TimeAssumption DEF Requests, Commands, Nobody

\* What a command spends is bounded by its transfers.
LEMMA SpentBound ==
  Known => Spent \in Nat /\ Spent <= TransfersOf(nreq) * (MaxTransfer + 1)
<1>1. ASSUME age \in 0..(MaxTransfer + 1), MaxTransfer \in Nat
      PROVE  Spent \in Nat /\ Spent <= TransfersOf(nreq) * (MaxTransfer + 1)
  <2>1. CASE cmd[nreq] \in HasStartup
    BY <1>1, <2>1 DEF Spent, TransfersOf
  <2>2. CASE cmd[nreq] \notin HasStartup
    BY <1>1, <2>2 DEF Spent, TransfersOf
  <2> QED
    BY <2>1, <2>2
<1> QED
  BY <1>1 DEF Known

\* A tick is seen by both clocks: the server sleeps, and the USB task rests or
\* waits for a transfer.
LEMMA TickKeeps == Known /\ Tick => TimeInv'
<1> SUFFICES ASSUME Known, Tick PROVE TimeInv'
  OBVIOUS
<1> USE DEF Known, TimeInv, TypeOK, Tick, vars, shared,
      serverPc, usbPc, requested
<1>1. /\ spc # "ready" => sleep = 1 /\ spc = "wait"
      /\ rest > 0 \/ Usb!Blocked
  BY DEF Urgent, ServerAwake, UsbAwake, ServerClock, UsbClock
<1>2. Usb!Blocked => xpc = "take" /\ age' = age + 1 /\ rest = 0 /\ upc \in {"startup", "main"}
  BY DEF Usb!Blocked, Usb!TakeTimesOut, UsbClock, Usb!XGoes, UsbPcs
<1>3. ServerClock'
  BY <1>1 DEF ServerClock, Less1
<1>4. UsbClock'
  BY <1>1, <1>2 DEF UsbClock, Less1, transferVars
<1>5. GivingUp'
  BY DEF GivingUp
<1>6. AwayInv'
  <2>1. /\ away' \in [Requests -> 0..AwayTicks]
        /\ \A r \in (nreq' + 1)..MaxRequests : away'[r] = 0
    BY DEF AwayInv
  <2>2. ASSUME spc = "wait", exec[nreq] = "none", away[nreq] > 0
        PROVE  pending_command_ >= 0 /\ upc = "idle" /\ rest' + waited' = away[nreq]
    <3>1. pending_command_ >= 0 /\ upc = "idle" /\ rest + waited = away[nreq]
      BY <2>2 DEF AwayInv
    <3>2. rest > 0
      BY <1>1, <1>2, <3>1
    <3>3. rest' = rest - 1 /\ waited' = waited + 1 /\ rest \in Nat /\ waited \in Nat
      BY <2>2, <3>2 DEF Less1, UsbClock, ServerClock
    <3> QED
      BY <3>1, <3>3
  <2> QED
    BY <1>1, <2>1, <2>2 DEF AwayInv
<1>7. LeftInv'
  <2>1. left' \in [Requests -> 0..MaxAttempts]
    BY DEF LeftInv
  <2>2. ASSUME StillWaits, exec[nreq] # "none"
        PROVE  waited' + left[nreq] <= MaxAttempts + Spent'
    <3>1. spc = "wait" /\ waited' = waited + 1 /\ Working /\ ureq = nreq
      BY <1>1, <2>2 DEF StillWaits, HandshakeInv, PostedIsCurrent
    <3>2. rest = 0 /\ Usb!Blocked
      BY <1>1, <3>1 DEF UsbClock, Working
    <3>3. upc = "startup" => cmd[nreq] \in HasStartup
      BY <1>2, <3>1, <3>2 DEF UsbClock
    <3>4. Spent' = Spent + 1
      <4>1. /\ age' = age + 1 /\ UNCHANGED <<upc, cmd, nreq>>
            /\ upc = "main" \/ (upc = "startup" /\ cmd[nreq] \in HasStartup)
            /\ age \in Nat /\ MaxTransfer \in Nat
        BY <1>2, <3>2, <3>3
      <4> QED
        BY ONLY <4>1 DEF Spent
    <3>5. Spent \in Nat
      BY SpentBound
    <3>6. left[nreq] \in Nat /\ waited \in Nat /\ MaxAttempts \in Nat
      BY <3>1 DEF LeftInv, ServerClock, HandshakeInv, WorkIsPosted
    <3>7. waited + left[nreq] <= MaxAttempts + Spent
      BY <2>2 DEF LeftInv
    <3> QED
      BY <3>1, <3>4, <3>5, <3>6, <3>7
  <2>3. StillWaits' <=> StillWaits
    BY DEF StillWaits
  <2> QED
    BY <2>1, <2>2, <2>3 DEF LeftInv
<1>8. (UnstartedOnlyIfAway /\ StartedInTimeIsTold)'
  BY DEF UnstartedOnlyIfAway, StartedInTimeIsTold, TransfersOf
<1> QED
  BY <1>3, <1>4, <1>5, <1>6, <1>7, <1>8

\* A client's line changes no clock, and nothing that the clocks are compared with.
LEMMA ClientKeepsTime == Known /\ TimedClient => TimeInv'
<1> SUFFICES ASSUME Known, TimedClient PROVE TimeInv'
  OBVIOUS
<1> USE DEF Known, TimeInv, TypeOK, TimedClient, Client, timeVars, transferVars, shared,
      serverPc, usbPc, requested, ServerGoes
<1>1. /\ spc = "ready" /\ spc' \in {"ready", "clear"} /\ nreq' = nreq + 1
      /\ UNCHANGED <<shared, attempts, usbPc, exec, age, xpc>>
      /\ \A r \in Requests : r # nreq' => cmd'[r] = cmd[r] /\ reply'[r] = reply[r]
      /\ nreq' \in Requests /\ reply'[nreq'] \in {"none", "unsupported"}
  BY DEF Receive, RejectUnknown, HandshakeInv, RequestsInOrder
<1>2. ServerClock'
  BY <1>1 DEF ServerClock
<1>3. UsbClock'
  BY <1>1 DEF UsbClock, HandshakeInv, WorkIsPosted, Working
<1>4. (GivingUp /\ AwayInv)'
  BY <1>1 DEF GivingUp, AwayInv
<1>5. LeftInv'
  BY <1>1 DEF LeftInv, StillWaits
<1>6. UnstartedOnlyIfAway'
  BY <1>1 DEF UnstartedOnlyIfAway
<1>7. StartedInTimeIsTold'
  BY <1>1 DEF StartedInTimeIsTold, TransfersOf
<1> QED
  BY <1>2, <1>3, <1>4, <1>5, <1>6, <1>7

\* The post starts the server's clock and notes how long the USB task is away.
LEMMA PostKeepsTime == Known /\ TimedPost => TimeInv'
<1> SUFFICES ASSUME Known, TimedPost PROVE TimeInv'
  OBVIOUS
<1> USE DEF Known, TimeInv, TypeOK, TimedPost, PostCommand, ServerAwake, transferVars, shared,
      serverPc, usbPc, requested, ServerGoes
<1>1. nreq \in Requests /\ exec[nreq] = "none" /\ cmd[nreq] >= 0 /\ reply[nreq] = "none"
  BY DEF HandshakeInv, RequestsInOrder, PostedIsCurrent, Busy
<1>2. (ServerClock /\ UsbClock)'
  BY DEF ServerClock, UsbClock
<1>3. GivingUp'
  BY DEF GivingUp
<1>4. AwayInv'
  BY <1>1 DEF AwayInv, UsbClock
<1>5. LeftInv'
  BY <1>1 DEF LeftInv
<1>6. UnstartedOnlyIfAway'
  BY <1>1 DEF UnstartedOnlyIfAway, AwayInv
<1>7. StartedInTimeIsTold'
  BY DEF StartedInTimeIsTold, TransfersOf
<1> QED
  BY <1>2, <1>3, <1>4, <1>5, <1>6, <1>7

\* A round is one tick of sleep, counted as it begins.
LEMMA RoundKeepsTime == Known /\ TimedWaitRound => TimeInv'
<1> SUFFICES ASSUME Known, TimedWaitRound PROVE TimeInv'
  OBVIOUS
<1> USE DEF Known, TimeInv, TypeOK, TimedWaitRound, WaitRound, KeepWaiting, ServerAwake,
      transferVars, shared, serverPc, usbPc, requested
<1>1. (ServerClock /\ UsbClock)'
  BY DEF ServerClock, UsbClock
<1>2. (GivingUp /\ AwayInv)'
  BY DEF GivingUp, AwayInv
<1>3. LeftInv'
  BY DEF LeftInv, StillWaits, Spent, TransfersOf
<1>4. (UnstartedOnlyIfAway /\ StartedInTimeIsTold)'
  BY DEF UnstartedOnlyIfAway, StartedInTimeIsTold, TransfersOf
<1> QED
  BY <1>1, <1>2, <1>3, <1>4

\* The server's other steps take no time.  It gives up only after MaxAttempts
\* ticks, so what it then says holds of away and left.
LEMMA ServerKeepsTime == Known /\ TimedServer => TimeInv'
<1> SUFFICES ASSUME Known, TimedServer PROVE TimeInv'
  OBVIOUS
<1> USE DEF Known, TimeInv, TypeOK, TimedServer, ServerAwake, timeVars, transferVars, shared,
      serverPc, usbPc, requested, ServerGoes
<1>1. CASE ClearResult
  <2> USE <1>1 DEF ClearResult
  <2>1. (ServerClock /\ UsbClock /\ GivingUp /\ AwayInv)'
    BY DEF ServerClock, UsbClock, GivingUp, AwayInv
  <2>2. LeftInv'
    BY DEF LeftInv, StillWaits
  <2>3. (UnstartedOnlyIfAway /\ StartedInTimeIsTold)'
    BY DEF UnstartedOnlyIfAway, StartedInTimeIsTold, TransfersOf
  <2> QED
    BY <2>1, <2>2, <2>3
<1>2. CASE LeaveLoop \/ Recheck
  <2> USE <1>2 DEF LeaveLoop, Recheck
  <2>1. /\ spc \in {"wait", "recheck"} /\ spc' \in {"recheck", "cancel", "answer"}
        /\ spc' = "cancel" => pending_command_ >= 0
        /\ UNCHANGED <<shared, attempts, usbPc, requested, exec, reports, reply>>
    OBVIOUS
  <2>2. (ServerClock /\ UsbClock)'
    BY <2>1 DEF ServerClock, UsbClock
  <2>3. GivingUp'
    BY DEF GivingUp, KeepWaiting
  <2>4. AwayInv'
    BY <2>1 DEF AwayInv
  <2>5. LeftInv'
    BY <2>1 DEF LeftInv, StillWaits, Spent, TransfersOf
  <2>6. (UnstartedOnlyIfAway /\ StartedInTimeIsTold)'
    BY <2>1 DEF UnstartedOnlyIfAway, StartedInTimeIsTold, TransfersOf
  <2> QED
    BY <2>2, <2>3, <2>4, <2>5, <2>6
<1>3. CASE AnswerResult
  <2> USE <1>3 DEF AnswerResult, Tell
  <2>1. (ServerClock /\ UsbClock /\ GivingUp /\ AwayInv)'
    BY DEF ServerClock, UsbClock, GivingUp, AwayInv
  <2>2. LeftInv'
    BY DEF LeftInv, StillWaits
  <2>3. (UnstartedOnlyIfAway /\ StartedInTimeIsTold)'
    BY DEF UnstartedOnlyIfAway, StartedInTimeIsTold, TransfersOf
  <2> QED
    BY <2>1, <2>2, <2>3
<1>4. CASE Cancel
  <2> USE <1>4 DEF Cancel, Tell
  <2>1. (ServerClock /\ UsbClock /\ GivingUp /\ AwayInv)'
    BY DEF ServerClock, UsbClock, GivingUp, AwayInv
  <2>2. LeftInv'
    BY DEF LeftInv, StillWaits
  <2>3. nreq \in Requests /\ waited = MaxAttempts
    BY DEF HandshakeInv, RequestsInOrder, Busy, GivingUp, ServerClock
  <2>4. UnstartedOnlyIfAway'
    BY <2>3 DEF UnstartedOnlyIfAway, AwayInv, UsbClock
  <2>5. exec[nreq] # "none" => left[nreq] <= TransfersOf(nreq) * (MaxTransfer + 1)
    <3>1. Spent \in Nat /\ Spent <= TransfersOf(nreq) * (MaxTransfer + 1)
      BY SpentBound
    <3>2. left[nreq] \in Nat
      BY <2>3 DEF LeftInv
    <3>3. StillWaits
      BY DEF StillWaits
    <3>4. exec[nreq] # "none" => waited + left[nreq] <= MaxAttempts + Spent
      BY <3>3 DEF LeftInv
    <3>5. exec[nreq] # "none" => left[nreq] <= Spent
      BY <2>3, <3>1, <3>2, <3>4 DEF ServerClock
    <3>6. TransfersOf(nreq) \in {1, 2}
      BY DEF TransfersOf
    <3>7. TransfersOf(nreq) * (MaxTransfer + 1) \in Nat
      BY <3>6
    <3> QED
      BY <3>5, <3>1, <3>2, <3>7
  <2>6. StartedInTimeIsTold'
    BY <2>5 DEF StartedInTimeIsTold, TransfersOf
  <2> QED
    BY <2>1, <2>2, <2>4, <2>6
<1> QED
  BY <1>1, <1>2, <1>3, <1>4

\* What the USB task works on is what the server waits for, if it still waits.
LEMMA WorksForServer ==
  Known /\ Working /\ StillWaits /\ exec[nreq] # "none" => ureq = nreq
<1>1. Known /\ StillWaits /\ Working => pending_command_ >= 0
  BY DEF Known, TimeInv, GivingUp, StillWaits, Working, TypeOK
<1> QED
  BY <1>1 DEF Known, HandshakeInv, PostedIsCurrent

\* A start notes how many ticks the server is still to wait.
LEMMA PickKeepsTime == Known /\ TimedPick => TimeInv'
<1> SUFFICES ASSUME Known, TimedPick PROVE TimeInv'
  OBVIOUS
<1> USE DEF Known, TimeInv, TypeOK, TimedPick, PickCommand, UsbTurn, UsbAwake, transferVars,
      shared, serverPc, usbPc, requested, UsbGoes
<1>1. /\ nreq \in Requests /\ exec[nreq] = "none" /\ reply[nreq] = "none"
      /\ pending_command_ = cmd[nreq] /\ upc = "idle" /\ rest = 0
      /\ spc \in {"wait", "recheck", "cancel"}
  BY DEF HandshakeInv, RequestsInOrder, PostedIsCurrent, Busy, Working
<1>2. exec' = [exec EXCEPT ![nreq] = "running"] /\ upc' \in {"startup", "main"}
  OBVIOUS
<1>3. ServerClock'
  BY DEF ServerClock
<1>4. UsbClock'
  BY <1>1 DEF UsbClock
<1>5. (GivingUp /\ AwayInv)'
  BY <1>1, <1>2 DEF GivingUp, AwayInv
<1>6. LeftInv'
  <2>1. upc' = "startup" /\ cmd[nreq] \notin HasStartup => Spent' = 0
    BY DEF Spent
  <2>2. cmd[nreq] \in HasStartup \/ upc' = "main" => age' = 0
    BY <1>1 DEF Usb!Call
  <2>3. upc' = "main" => cmd[nreq] \notin HasStartup
    BY <1>1
  <2>4. Spent' = 0
    BY <1>2, <2>1, <2>2, <2>3 DEF Spent
  <2>5. left' = [left EXCEPT ![nreq] = MaxAttempts - waited] /\ waited' = waited
    OBVIOUS
  <2> QED
    BY <1>1, <2>4, <2>5 DEF LeftInv, ServerClock
<1>7. UnstartedOnlyIfAway'
  BY <1>1, <1>2 DEF UnstartedOnlyIfAway
<1>8. StartedInTimeIsTold'
  BY <1>1, <1>2 DEF StartedInTimeIsTold, TransfersOf
<1> QED
  BY <1>3, <1>4, <1>5, <1>6, <1>7, <1>8

\* The caller and the host take no time.
LEMMA TransferKeepsTime == Known /\ TransferStep => TimeInv'
<1> SUFFICES ASSUME Known, TransferStep PROVE TimeInv'
  OBVIOUS
<1> USE DEF Known, TimeInv, TransferStep, vars, timeVars, shared, serverPc, usbPc, requested
<1>1. age' = age /\ (xpc = "idle" => xpc' = "idle")
  BY DEF Usb!CallerStep, Usb!Allocate, Usb!AllocateFails, Usb!CreateSemaphore,
     Usb!CreateSemaphoreFails, Usb!Submit, Usb!SubmitFails, Usb!Pump, Usb!Take,
     Usb!LastPump, Usb!Release, Usb!XGoes, Usb!HostStep, Usb!DeviceActs, Usb!HostFinishes
<1>2. (ServerClock /\ UsbClock /\ GivingUp /\ AwayInv)'
  BY <1>1 DEF ServerClock, UsbClock, GivingUp, AwayInv
<1>3. LeftInv'
  BY <1>1 DEF LeftInv, StillWaits, Spent, TransfersOf
<1>4. (UnstartedOnlyIfAway /\ StartedInTimeIsTold)'
  BY DEF UnstartedOnlyIfAway, StartedInTimeIsTold, TransfersOf
<1> QED
  BY <1>2, <1>3, <1>4

\* From one point of run_pending_commands_ to the next the transfers made so far
\* account for all the ticks.
LEMMA WorkKeepsTime ==
  Known /\ (TimedStartup \/ TimedAbort \/ TimedMain \/ TimedResult) => TimeInv'
<1> SUFFICES ASSUME Known, TimedStartup \/ TimedAbort \/ TimedMain \/ TimedResult
             PROVE  TimeInv'
  OBVIOUS
<1> USE DEF Known, TimeInv, TypeOK, UsbTurn, timeVars, transferVars, shared, serverPc, usbPc,
      requested, UsbGoes
<1>1. /\ Working /\ xpc = "idle" /\ ureq \in Requests
      /\ UNCHANGED <<pending_command_, serverPc, requested, ureq, reply, timeVars>>
      /\ \A r \in Requests : exec'[r] # "none" <=> exec[r] # "none"
      /\ \/ upc = "startup" /\ upc' = "main" /\ cmd[ureq] \in HasStartup /\ age' = 0
         \/ upc' \in {"result", "done"} /\ xpc' = "idle"
  <2>0. Working
    BY DEF TimedStartup, TimedAbort, TimedMain, TimedResult, SendStartup, AbortCycle, SendMain,
       WriteResult, Working
  <2>1. Working /\ ureq \in Requests /\ exec[ureq] # "none"
    <3>1. ureq \in 1..nreq /\ exec[ureq] \in {"running", "ok", "failed"}
      BY <2>0 DEF HandshakeInv, WorkIsPosted
    <3> QED
      BY <2>0, <3>1
  <2>2. CASE TimedStartup
    BY <2>1, <2>2 DEF TimedStartup, SendStartup, Usb!Call
  <2>3. CASE TimedAbort
    BY <2>1, <2>3 DEF TimedAbort, AbortCycle
  <2>4. CASE TimedMain
    BY <2>1, <2>4 DEF TimedMain, SendMain
  <2>5. CASE TimedResult
    BY <2>1, <2>5 DEF TimedResult, WriteResult
  <2> QED
    BY <2>2, <2>3, <2>4, <2>5
<1>2. ServerClock'
  BY <1>1 DEF ServerClock
<1>3. UsbClock'
  BY <1>1 DEF UsbClock, Working
<1>4. (GivingUp /\ AwayInv)'
  <2>1. nreq \in Requests \/ nreq = 0
    BY DEF Requests
  <2>2. spc \in {"wait", "recheck", "cancel"} => nreq \in Requests
    BY DEF HandshakeInv, RequestsInOrder, Busy
  <2> QED
    BY <1>1, <2>2 DEF GivingUp, AwayInv, Working
<1>5. LeftInv'
  <2>1. left' \in [Requests -> 0..MaxAttempts]
    BY <1>1 DEF LeftInv
  <2>2. ASSUME StillWaits, exec[nreq] # "none", nreq \in Requests
        PROVE  waited' + left'[nreq] <= MaxAttempts + Spent'
    <3>1. ureq = nreq
      BY <1>1, <2>2, WorksForServer
    <3>2. Spent \in Nat /\ Spent <= TransfersOf(nreq) * (MaxTransfer + 1)
      BY SpentBound
    <3>3. ASSUME upc = "startup", upc' = "main", cmd[ureq] \in HasStartup, age' = 0
          PROVE  Spent' = MaxTransfer + 1 /\ Spent <= MaxTransfer + 1
      BY <1>1, <3>1, <3>3 DEF Spent
    <3>4. ASSUME upc' \in {"result", "done"}
          PROVE  Spent' = TransfersOf(nreq) * (MaxTransfer + 1)
      BY <1>1, <3>4 DEF Spent, TransfersOf
    <3>5. Spent' \in Nat /\ Spent <= Spent'
      BY <1>1, <3>2, <3>3, <3>4 DEF TransfersOf
    <3>6. waited + left[nreq] <= MaxAttempts + Spent
      BY <2>2 DEF LeftInv
    <3> QED
      BY <1>1, <2>2, <3>2, <3>5, <3>6 DEF LeftInv, ServerClock
  <2>3. StillWaits' => StillWaits /\ nreq \in Requests
    BY <1>1 DEF StillWaits, HandshakeInv, RequestsInOrder, Busy
  <2> QED
    BY <1>1, <2>1, <2>2, <2>3 DEF LeftInv
<1>6. UnstartedOnlyIfAway'
  BY <1>1 DEF UnstartedOnlyIfAway
<1>7. StartedInTimeIsTold'
  BY <1>1 DEF StartedInTimeIsTold, TransfersOf
<1> QED
  BY <1>2, <1>3, <1>4, <1>5, <1>6, <1>7

\* The end of run_pending_commands_ and a poll without a command begin a rest.
LEMMA RestKeepsTime == Known /\ (TimedClear \/ NothingPosted) => TimeInv'
<1> SUFFICES ASSUME Known, TimedClear \/ NothingPosted PROVE TimeInv'
  OBVIOUS
<1> USE DEF Known, TimeInv, TypeOK, UsbTurn, transferVars, shared, serverPc, usbPc,
      requested, UsbGoes
<1>1. CASE TimedClear
  <2> USE <1>1 DEF TimedClear, ClearPending
  <2>1. (ServerClock /\ UsbClock)'
    BY DEF ServerClock, UsbClock
  <2>2. GivingUp'
    BY DEF GivingUp
  <2>3. AwayInv'
    BY DEF AwayInv
  <2>4. LeftInv'
    <3>1. StillWaits' /\ exec[nreq] # "none" => Spent' = Spent
      BY DEF Spent, TransfersOf
    <3>2. StillWaits' => StillWaits
      BY DEF StillWaits
    <3> QED
      BY <3>1, <3>2 DEF LeftInv
  <2>5. (UnstartedOnlyIfAway /\ StartedInTimeIsTold)'
    BY DEF UnstartedOnlyIfAway, StartedInTimeIsTold, TransfersOf
  <2> QED
    BY <2>1, <2>2, <2>3, <2>4, <2>5
<1>2. CASE NothingPosted
  <2> USE <1>2 DEF NothingPosted, vars
  <2>1. (ServerClock /\ UsbClock /\ GivingUp)'
    BY DEF ServerClock, UsbClock, GivingUp
  <2>2. AwayInv'
    BY DEF AwayInv
  <2>3. LeftInv'
    BY DEF LeftInv, StillWaits, Spent, TransfersOf
  <2>4. (UnstartedOnlyIfAway /\ StartedInTimeIsTold)'
    BY DEF UnstartedOnlyIfAway, StartedInTimeIsTold, TransfersOf
  <2> QED
    BY <2>1, <2>2, <2>3, <2>4
<1> QED
  BY <1>1, <1>2

\* The inductive invariant of the clocks, on top of those of the handshake and
\* of the transfers.
THEOREM TimeInvariant == TimeSpec => []TimeInv
<1>1. TimeInit => TimeInv
  <2> SUFFICES ASSUME TimeInit PROVE TimeInv
    OBVIOUS
  <2> USE DEF TimeInit, Init, Usb!TransferInit
  <2>1. ServerClock /\ UsbClock /\ GivingUp
    BY DEF ServerClock, UsbClock, GivingUp
  <2>2. AwayInv /\ LeftInv
    BY DEF AwayInv, LeftInv, StillWaits
  <2>3. UnstartedOnlyIfAway /\ StartedInTimeIsTold
    BY DEF UnstartedOnlyIfAway, StartedInTimeIsTold
  <2> QED
    BY <2>1, <2>2, <2>3 DEF TimeInv
<1>2. Known /\ [TimeNext]_<<vars, transferVars, timeVars>> => TimeInv'
  <2>1. Known /\ TimeNext => TimeInv'
    BY TickKeeps, ClientKeepsTime, PostKeepsTime, RoundKeepsTime, ServerKeepsTime,
       PickKeepsTime, TransferKeepsTime, WorkKeepsTime, RestKeepsTime DEF TimeNext
  <2>2. Known /\ UNCHANGED <<vars, transferVars, timeVars>> => TimeInv'
    BY DEF Known, TimeInv, vars, shared, serverPc, usbPc, requested, transferVars, timeVars,
       ServerClock, UsbClock, GivingUp, AwayInv, LeftInv, StillWaits, Spent,
       UnstartedOnlyIfAway, StartedInTimeIsTold, TransfersOf
  <2> QED
    BY <2>1, <2>2
<1>3. Transfer!AgeInv => age \in 0..(MaxTransfer + 1)
  BY DEF Transfer!AgeInv
<1>4. MaxTransfer \in Nat
  OBVIOUS
<1>5. TypeOK /\ HandshakeInv /\ TimeInv /\ age \in 0..(MaxTransfer + 1) => Known
  BY DEF Known
<1> QED
  BY <1>1, <1>2, <1>3, <1>4, <1>5, TimedIsHandshake, HandshakeInvariant, TimedIsTransfer,
     Transfer!AgeInvariant, PTL DEF TimeSpec

\* One INSTCMD holds up the server task, and so every other client, for
\* MaxAttempts ticks and not one more.
THEOREM ServerIsNotBlockedLonger == TimeSpec => []ServerBlockedAtMost
<1>1. TimeInv => ServerBlockedAtMost
  BY DEF TimeInv, ServerClock, ServerBlockedAtMost
<1> QED
  BY <1>1, TimeInvariant, PTL

\* Unless the USB task was away for the whole wait when it was posted, a command
\* that is given up on had been started.
THEOREM GivenUpOnlyIfAway == TimeSpec => []UnstartedOnlyIfAway
<1>1. TimeInv => UnstartedOnlyIfAway
  BY DEF TimeInv
<1> QED
  BY <1>1, TimeInvariant, PTL

\* A command that was started with time for its transfers is not given up on.
THEOREM TimelyStartIsTold == TimeSpec => []StartedInTimeIsTold
<1>1. TimeInv => StartedInTimeIsTold
  BY DEF TimeInv
<1> QED
  BY <1>1, TimeInvariant, PTL
=============================================================================
