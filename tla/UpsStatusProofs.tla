-------------------------- MODULE UpsStatusProofs --------------------------
(***************************************************************************)
(* Proofs about UpsStatus for every table of status bits, every plan of    *)
(* reports and every behaviour of the UPS.                                 *)
(***************************************************************************)
EXTENDS UpsStatus, TLAPS

Distinct(tokens) == \A j, k \in 1..Len(tokens) : tokens[j] = tokens[k] => j = k

\* What a step must leave true: the walk is inside the table; mains power it
\* has seen, or the flags show, is on record since the FSD request; and the
\* status it builds repeats no token.
StatusInv ==
  /\ spc = "token" => index \in Entries
  /\ spc = "idle" => ~on_line
  /\ MainsIn(valid) \/ on_line => mains # "out"
  /\ Distinct(status)
  /\ NoRepeatedToken

-----------------------------------------------------------------------------
\* The token of an entry is one of Tokens or none at all.
LEMMA EntryTyped ==
  \A i \in Entries : /\ Bools[i].set \in Tokens \cup {NoToken}
                     /\ Bools[i].clear \in Tokens \cup {NoToken}
                     /\ Bools[i].report \in Reports
<1> SUFFICES ASSUME NEW i \in Entries
             PROVE  /\ Bools[i].set \in Tokens \cup {NoToken}
                    /\ Bools[i].clear \in Tokens \cup {NoToken}
                    /\ Bools[i].report \in Reports
  OBVIOUS
<1> DEFINE Rows == [set : Tokens \cup {NoToken}, clear : Tokens \cup {NoToken},
                    report : Reports]
<1>1. Bools \in Seq(Rows)
  BY StatusAssumption
<1> HIDE DEF Rows
<1>2. Bools[i] \in Rows
  BY <1>1 DEF Entries
<1> QED
  BY <1>2 DEF Rows

\* The locals of a walk that begins.
LEMMA EmptyWalk ==
  /\ 1 \in 1..(Len(Bools) + 1)
  /\ <<>> \in Seq(Tokens) /\ <<>> \in Seq(Tokens \cup {"WAIT"})
  /\ Distinct(<<>>)
<1>1. Len(Bools) \in Nat
  BY StatusAssumption
<1> QED
  BY <1>1 DEF Distinct

\* A token is added at the end, and only if it is not there.
LEMMA WithKeeps ==
  ASSUME NEW token \in Tokens \cup {NoToken}, NEW tokens \in Seq(Tokens)
  PROVE  /\ With(token, tokens) \in Seq(Tokens)
         /\ Distinct(tokens) => Distinct(With(token, tokens))
<1>1. CASE token = NoToken \/ Found(token, tokens)
  BY <1>1 DEF With
<1>2. CASE ~(token = NoToken \/ Found(token, tokens))
  <2>1. With(token, tokens) = Append(tokens, token) /\ token \in Tokens
    BY <1>2 DEF With
  <2>2. \A k \in 1..Len(tokens) : tokens[k] # token
    BY <1>2 DEF Found
  <2> QED
    BY <2>1, <2>2 DEF Distinct
<1> QED
  BY <1>1, <1>2

\* After With, the token is there: no longer one has FSD inside it.
LEMMA WithHasFSD ==
  ASSUME NEW tokens \in Seq(Tokens)
  PROVE  \E k \in 1..Len(With("FSD", tokens)) : With("FSD", tokens)[k] = "FSD"
<1>1. CASE Found("FSD", tokens)
  BY <1>1 DEF With, Found
<1>2. CASE ~Found("FSD", tokens)
  <2>1. With("FSD", tokens) = Append(tokens, "FSD")
    BY <1>2 DEF With, NoToken
  <2> QED
    BY <2>1
<1> QED
  BY <1>1, <1>2

\* What ups_status_ answers: tokens of the table, none of them twice, or WAIT.
LEMMA AnswerTyped ==
  ASSUME TypeOK, StatusInv, Answer
  PROVE  /\ served' \in Seq(Tokens \cup {"WAIT"})
         /\ NoRepeatedToken'
         /\ fsd_latched_' => \E k \in 1..Len(served') : served'[k] = "FSD"
<1> DEFINE tokens == IF fsd_latched_' THEN With("FSD", status) ELSE status
<1>1. "FSD" \in Tokens /\ status \in Seq(Tokens) /\ Distinct(status)
  BY DEF Tokens, TypeOK, StatusInv
<1>2. tokens \in Seq(Tokens) /\ Distinct(tokens)
  BY <1>1, WithKeeps
<1>3. served' = IF tokens = <<>> THEN <<"WAIT">> ELSE tokens
  BY DEF Answer
<1>4. ASSUME fsd_latched_' PROVE \E k \in 1..Len(tokens) : tokens[k] = "FSD"
  BY <1>1, <1>4, WithHasFSD
<1> HIDE DEF tokens
<1>5. CASE tokens = <<>>
  <2>1. served' = <<"WAIT">> /\ Len(served') = 1
    BY <1>3, <1>5
  <2>2. ~fsd_latched_'
    BY <1>4, <1>5
  <2> QED
    BY <2>1, <2>2 DEF NoRepeatedToken
<1>6. CASE tokens # <<>>
  <2>1. served' = tokens
    BY <1>3, <1>6
  <2> QED
    BY <1>2, <1>4, <2>1 DEF NoRepeatedToken, Distinct
<1> QED
  BY <1>5, <1>6

-----------------------------------------------------------------------------
\* The inductive step, action by action.
LEMMA StatusStep == TypeOK /\ StatusInv /\ [Next]_vars => TypeOK' /\ StatusInv'
<1> SUFFICES ASSUME TypeOK, StatusInv, [Next]_vars
             PROVE  TypeOK' /\ StatusInv'
  OBVIOUS
<1> USE StatusAssumption
<1>1. CASE DeviceChanges
  BY <1>1 DEF DeviceChanges, TypeOK, StatusInv, NoRepeatedToken, usbVars, serverVars
<1>2. CASE Resolve
  BY <1>2 DEF Resolve, TypeOK, StatusInv, NoRepeatedToken, usbVars, serverVars
<1>3. CASE GetReport
  BY <1>3 DEF GetReport, TypeOK, StatusInv, NoRepeatedToken, serverVars
<1>4. CASE ReportFails
  <2>1. NextRequest \in Reports
    BY DEF NextRequest, Reports, TypeOK
  <2> QED
    BY <1>4, <2>1 DEF ReportFails, TypeOK, StatusInv, NoRepeatedToken, serverVars
<1>5. CASE WriteEntry
  <2>1. PICK e \in received : 
          /\ valid' = [valid EXCEPT ![e[1]] = e[2]]
          /\ received' = received \ {e}
          /\ request' = IF received = {e} THEN NextRequest ELSE request
          /\ mains' = IF MainsIn(valid') THEN IF mains = "in" THEN "in" ELSE "back"
                      ELSE IF mains = "in" THEN "left" ELSE mains
          /\ UNCHANGED <<device, resolved, fsd_latched_, serverVars, served>>
    BY <1>5 DEF WriteEntry
  <2>2. NextRequest \in Reports
    BY DEF NextRequest, Reports, TypeOK
  <2>3. e[1] \in Entries /\ e[2] \in BOOLEAN
    BY DEF TypeOK
  <2>4. mains' \in {"out", "in", "left", "back"}
    BY <2>1 DEF TypeOK
  <2>5. (MainsIn(valid') => mains' # "out") /\ (mains # "out" => mains' # "out")
    BY <2>1 DEF TypeOK
  <2>6. valid' \in [Entries -> BOOLEAN]
    BY <2>1, <2>3 DEF TypeOK
  <2>7. TypeOK'
    BY <2>1, <2>2, <2>4, <2>6 DEF TypeOK, serverVars
  <2>8. StatusInv'
    BY <2>1, <2>5 DEF StatusInv, NoRepeatedToken, serverVars, MainsIn
  <2> QED
    BY <2>7, <2>8
<1>6. CASE Fsd
  BY <1>6 DEF Fsd, TypeOK, StatusInv, NoRepeatedToken, usbVars, serverVars, MainsIn
<1>7. CASE AskStatus
  <2>1. served' = <<>> /\ status' = <<>>
    BY <1>7 DEF AskStatus
  <2>2. TypeOK'
    BY <1>7, EmptyWalk DEF AskStatus, TypeOK, usbVars
  <2> QED
    BY <1>7, <2>1, <2>2, EmptyWalk DEF AskStatus, StatusInv, NoRepeatedToken, MainsIn
<1>8. CASE LookForMains
  <2>1. index \in Entries
    BY <1>8 DEF LookForMains, AtEnd, Entries, TypeOK
  <2>2. valid[index] /\ Bools[index].set = "OL" => MainsIn(valid)
    BY <2>1 DEF MainsIn, OLEntries
  <2>3. on_line' => mains # "out"
    BY <1>8, <2>2 DEF LookForMains, StatusInv
  <2>4. on_line' \in BOOLEAN
    BY <1>8 DEF LookForMains
  <2>5. TypeOK'
    BY <1>8, <2>4 DEF LookForMains, TypeOK, usbVars
  <2> QED
    BY <1>8, <2>1, <2>3, <2>5 DEF LookForMains, StatusInv, NoRepeatedToken, MainsIn
<1>9. CASE AddToken
  <2> DEFINE token == IF valid[index] THEN Bools[index].set ELSE Bools[index].clear
  <2>1. index \in Entries
    BY <1>9 DEF AddToken, StatusInv
  <2>2. token \in Tokens \cup {NoToken}
    BY <2>1, EntryTyped
  <2>3. status' = With(token, status)
    BY <1>9 DEF AddToken
  <2> HIDE DEF token
  <2>4. status' \in Seq(Tokens) /\ Distinct(status')
    BY <2>2, <2>3, WithKeeps DEF TypeOK, StatusInv
  <2>5. index' \in 1..(Len(Bools) + 1)
    BY <1>9, <2>1 DEF AddToken, Entries
  <2>6. TypeOK'
    BY <1>9, <2>4, <2>5 DEF AddToken, TypeOK, usbVars
  <2> QED
    BY <1>9, <2>4, <2>6 DEF AddToken, StatusInv, NoRepeatedToken, MainsIn
<1>10. CASE Answer
  <2>1. fsd_latched_' \in BOOLEAN
    BY <1>10 DEF Answer
  <2>2. TypeOK'
    BY <1>10, <2>1, EmptyWalk, AnswerTyped DEF Answer, EndWalk, TypeOK, usbVars
  <2> QED
    BY <1>10, <2>2, EmptyWalk, AnswerTyped DEF Answer, EndWalk, StatusInv, MainsIn
<1>11. CASE UNCHANGED vars
  BY <1>11 DEF vars, TypeOK, StatusInv, NoRepeatedToken, MainsIn, usbVars, serverVars
<1> QED
  BY <1>1, <1>2, <1>3, <1>4, <1>5, <1>6, <1>7, <1>8, <1>9, <1>10, <1>11
     DEF Next, UsbStep, Walk

\* The types and the invariant hold in every reachable state.
THEOREM StatusInvariant == Spec => [](TypeOK /\ StatusInv)
<1>1. Init => TypeOK /\ StatusInv
  <2> SUFFICES ASSUME Init PROVE TypeOK /\ StatusInv
    OBVIOUS
  <2>1. TypeOK
    <3>1. 1 \in Reports
      BY StatusAssumption DEF Reports
    <3> QED
      BY <3>1, EmptyWalk DEF Init, TypeOK
  <2>2. ~MainsIn(valid)
    BY DEF Init, MainsIn, OLEntries
  <2> QED
    BY <2>1, <2>2, EmptyWalk DEF Init, StatusInv, NoRepeatedToken
<1> QED
  BY <1>1, StatusStep, PTL DEF Spec

\* Every index into bools_ is in range and only tokens of the table are served.
THEOREM StatusTypeCorrect == Spec => []TypeOK
BY StatusInvariant, PTL

\* No answer to ups.status repeats a token, whatever table the UPS resolves to.
THEOREM TokensAreDistinct == Spec => []NoRepeatedToken
BY StatusInvariant, PTL DEF StatusInv

\* Only Answer takes the latch down, and only after the walk has seen mains
\* power in a flag that was up at or after the FSD request.
THEOREM LatchNeedsMains == Spec => LatchDroppedOnlyForMains
<1>1. TypeOK /\ StatusInv /\ [Next]_vars
        => [fsd_latched_ /\ ~fsd_latched_' => mains # "out"]_vars
  <2> SUFFICES ASSUME TypeOK, StatusInv, Next, fsd_latched_, ~fsd_latched_'
               PROVE  mains # "out"
    BY DEF vars
  <2>1. Answer
    BY DEF Next, UsbStep, Walk, DeviceChanges, Resolve, GetReport, ReportFails, WriteEntry,
       Fsd, AskStatus, LookForMains, AddToken
  <2> QED
    BY <2>1 DEF Answer, StatusInv
<1> QED
  BY <1>1, StatusInvariant, PTL DEF Spec, LatchDroppedOnlyForMains

\* An answer given with the latch up says FSD.
THEOREM LatchIsAnnounced == Spec => LatchIsServed
<1>1. TypeOK /\ StatusInv /\ [Next]_vars
        => [Answer /\ fsd_latched_' => \E k \in 1..Len(served') : served'[k] = "FSD"]_vars
  BY AnswerTyped
<1> QED
  BY <1>1, StatusInvariant, PTL DEF Spec, LatchIsServed
=============================================================================
