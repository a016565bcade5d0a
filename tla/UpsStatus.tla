----------------------------- MODULE UpsStatus -----------------------------
(***************************************************************************)
(* ups.status and the FSD latch of components/nut/nut.cpp.                 *)
(*                                                                         *)
(* The USB task polls the reports one after the other and writes the valid *)
(* flag of each status bit (poll_hid_reports_).  The server task walks the *)
(* same flags, without a lock, whenever a client asks for ups.status       *)
(* (ups_status_), and drops the FSD latch of a primary as a side effect of *)
(* a walk that finds mains power.  ups_status_ reads a flag twice, once to *)
(* look for "OL" and once to choose the token; each read is an action.     *)
(*                                                                         *)
(* A status is a sequence of tokens.  The code looks for a token with      *)
(* std::string::find, which also finds it inside a longer one.             *)
(***************************************************************************)
EXTENDS Integers, Sequences

CONSTANTS
  Bools,          \* bools_ as resolve_hid_paths_ fills it: a sequence of
                  \* [set, clear : Tokens \cup {NoToken}, report : Reports]
  NumReports,     \* report_requests_ is polled in the order 1..NumReports
  DeviceStates    \* what the UPS may report: functions from entries to BOOLEAN

NoToken == "NULL"
Tokens  == {"OL", "OB", "DISCHRG", "CHRG", "LB", "OVER", "RB", "TRIM", "BOOST", "OFF", "FSD"}
Entries == 1..Len(Bools)
Reports == 1..NumReports

ASSUME StatusAssumption ==
  /\ NumReports \in Nat \ {0}
  /\ Bools \in Seq([set : Tokens \cup {NoToken}, clear : Tokens \cup {NoToken}, report : Reports])
  /\ DeviceStates \subseteq [Entries -> BOOLEAN]
  /\ DeviceStates # {}

VARIABLES
  device,         \* the status bits of the UPS
  resolved,       \* resolve_hid_paths_ has filled bools_
  valid,          \* bools_[i].valid
  request,        \* the report the USB task polls next, or is writing back
  received,       \* what has arrived for it: entries still to be written
                  \* back, each with its value
  fsd_latched_,
  spc,            \* idle, or what ups_status_ reads next: mains, token
  index,          \* its loop counter
  on_line, status,    \* its locals
  served,         \* the answer of the last walk, until the next begins
  mains           \* history: what the flags of the OL entries have shown
                  \* since the FSD request: "in" if there was mains power at
                  \* the request, else "out"; then "left" when it has left
                  \* since, "back" when it has returned

usbVars    == <<request, received>>
serverVars == <<spc, index, on_line, status>>
vars == <<device, resolved, valid, usbVars, fsd_latched_, serverVars, served, mains>>

OLEntries == {i \in Entries : Bools[i].set = "OL"}
MainsIn(flags) == \E i \in OLEntries : flags[i]

TypeOK ==
  /\ device \in DeviceStates
  /\ resolved \in BOOLEAN
  /\ valid \in [Entries -> BOOLEAN]
  /\ request \in Reports
  /\ received \in SUBSET (Entries \X BOOLEAN)
  /\ fsd_latched_ \in BOOLEAN
  /\ spc \in {"idle", "mains", "token"}
  /\ index \in 1..(Len(Bools) + 1)
  /\ on_line \in BOOLEAN
  /\ status \in Seq(Tokens)
  /\ served \in Seq(Tokens \cup {"WAIT"})
  /\ mains \in {"out", "in", "left", "back"}

Init ==
  /\ device \in DeviceStates
  /\ resolved = FALSE
  /\ valid = [i \in Entries |-> FALSE]
  /\ request = 1
  /\ received = {}
  /\ fsd_latched_ = FALSE
  /\ spc = "idle"
  /\ index = 1
  /\ on_line = FALSE
  /\ status = <<>>
  /\ served = <<>>
  /\ mains = "out"

-----------------------------------------------------------------------------
(* The UPS and the USB task.                                               *)

DeviceChanges ==
  /\ device' \in DeviceStates \ {device}
  /\ UNCHANGED <<resolved, valid, usbVars, fsd_latched_, serverVars, served, mains>>

\* bools_ is filled while no walk is under way: a walk over a vector that
\* grows is undefined and is not modelled here.
Resolve ==
  /\ ~resolved
  /\ spc = "idle"
  /\ resolved' = TRUE
  /\ UNCHANGED <<device, valid, usbVars, fsd_latched_, serverVars, served, mains>>

NextRequest == IF request = NumReports THEN 1 ELSE request + 1

GetReport ==
  /\ resolved
  /\ received = {}
  /\ received' = {<<i, device[i]>> : i \in {e \in Entries : Bools[e].report = request}}
  /\ UNCHANGED <<device, resolved, valid, request, fsd_latched_, serverVars, served,
                 mains>>

\* GET_REPORT failed: the flags keep what they were.
ReportFails ==
  /\ resolved
  /\ received = {}
  /\ request' = NextRequest
  /\ UNCHANGED <<device, resolved, valid, received, fsd_latched_, serverVars, served,
                 mains>>

\* The flags are written in the order of the entries.
WriteEntry ==
  \E e \in received :
    /\ \A f \in received : e[1] <= f[1]
    /\ valid' = [valid EXCEPT ![e[1]] = e[2]]
    /\ received' = received \ {e}
    /\ request' = IF received = {e} THEN NextRequest ELSE request
    /\ mains' = IF MainsIn(valid') THEN IF mains = "in" THEN "in" ELSE "back"
                ELSE IF mains = "in" THEN "left" ELSE mains
    /\ UNCHANGED <<device, resolved, fsd_latched_, serverVars, served>>

-----------------------------------------------------------------------------
(* The server task.                                                        *)

\* FSD by an authenticated primary.
Fsd ==
  /\ spc = "idle"
  /\ fsd_latched_' = TRUE
  /\ mains' = IF MainsIn(valid) THEN "in" ELSE "out"
  /\ UNCHANGED <<device, resolved, valid, usbVars, serverVars, served>>

AskStatus ==
  /\ spc = "idle"
  /\ spc' = "mains"
  /\ index' = 1
  /\ on_line' = FALSE
  /\ status' = <<>>
  /\ served' = <<>>
  /\ UNCHANGED <<device, resolved, valid, usbVars, fsd_latched_, mains>>

AtEnd == ~resolved \/ index > Len(Bools)

\* Slip: mains power is seen in the entry, not in its flag.
LookForMainsEntry ==
  /\ spc = "mains"
  /\ ~AtEnd
  /\ on_line' = (on_line \/ Bools[index].set = "OL")
  /\ spc' = "token"
  /\ UNCHANGED <<device, resolved, valid, usbVars, fsd_latched_, index, status, served,
                 mains>>

LookForMains ==
  /\ spc = "mains"
  /\ ~AtEnd
  /\ on_line' = (on_line \/ (valid[index] /\ Bools[index].set = "OL"))
  /\ spc' = "token"
  /\ UNCHANGED <<device, resolved, valid, usbVars, fsd_latched_, index, status, served,
                 mains>>

\* Slip: a token is added without looking for it.
FoundNever(token, tokens) == FALSE

\* std::string::find: "CHRG" is also found in "DISCHRG".
Found(token, tokens) ==
  \E k \in 1..Len(tokens) : tokens[k] = token \/ (token = "CHRG" /\ tokens[k] = "DISCHRG")

With(token, tokens) ==
  IF token = NoToken \/ Found(token, tokens) THEN tokens ELSE Append(tokens, token)

AddToken ==
  /\ spc = "token"
  /\ LET token == IF valid[index] THEN Bools[index].set ELSE Bools[index].clear
     IN status' = With(token, status)
  /\ index' = index + 1
  /\ spc' = "mains"
  /\ UNCHANGED <<device, resolved, valid, usbVars, fsd_latched_, on_line, served, mains>>

EndWalk == spc' = "idle" /\ index' = 1 /\ on_line' = FALSE /\ status' = <<>>

\* Slips: the latch is never dropped, or it is not added to an empty status.
AnswerKeepsLatch ==
  /\ spc = "mains"
  /\ AtEnd
  /\ served' = IF fsd_latched_ THEN With("FSD", status) ELSE status
  /\ EndWalk
  /\ UNCHANGED <<device, resolved, valid, usbVars, fsd_latched_, mains>>

AnswerWaits ==
  /\ spc = "mains"
  /\ AtEnd
  /\ fsd_latched_' = (fsd_latched_ /\ ~on_line)
  /\ served' = CASE status = <<>> -> <<"WAIT">>
                 [] fsd_latched_' -> With("FSD", status)
                 [] OTHER -> status
  /\ EndWalk
  /\ UNCHANGED <<device, resolved, valid, usbVars, mains>>

Answer ==
  /\ spc = "mains"
  /\ AtEnd
  /\ fsd_latched_' = (fsd_latched_ /\ ~on_line)
  /\ LET tokens == IF fsd_latched_' THEN With("FSD", status) ELSE status
     IN served' = IF tokens = <<>> THEN <<"WAIT">> ELSE tokens
  /\ EndWalk
  /\ UNCHANGED <<device, resolved, valid, usbVars, mains>>

-----------------------------------------------------------------------------
UsbStep == Resolve \/ GetReport \/ ReportFails \/ WriteEntry
Walk    == LookForMains \/ AddToken \/ Answer

Next == DeviceChanges \/ UsbStep \/ Fsd \/ AskStatus \/ Walk

Spec == Init /\ [][Next]_vars

\* The server task runs on and clients go on asking; the USB task goes on
\* polling, and no report fails for ever.
FairSpec ==
  /\ Spec
  /\ WF_vars(AskStatus) /\ WF_vars(Walk)
  /\ SF_vars(Resolve) /\ WF_vars(GetReport \/ ReportFails) /\ WF_vars(WriteEntry)
  /\ \A r \in Reports : SF_vars(request = r /\ GetReport)

-----------------------------------------------------------------------------
\* A primary's FSD is dropped only when the flags have shown mains power at
\* some moment since the request: no walk finds "OL" in a flag that was read
\* before, or in one that means something else.
LatchDroppedOnlyForMains ==
  [][fsd_latched_ /\ ~fsd_latched_' => mains # "out"]_vars

\* Every answer given with the latch up says FSD, whatever the USB task wrote
\* during the walk.
LatchIsServed ==
  [][Answer /\ fsd_latched_' => \E k \in 1..Len(served') : served'[k] = "FSD"]_vars

\* No token is repeated, though several entries stand for OVER and the latch
\* and the UPS's own ShutdownImminent both stand for FSD.
NoRepeatedToken ==
  \A j, k \in 1..Len(served) : served[j] = served[k] => j = k

\* When the UPS has mains power and keeps it, every FSD request is dropped in
\* the end.
MainsDropLatch == <>[]MainsIn(device) => []<>(~fsd_latched_)

\* README: a requested FSD is kept "until the UPS reports that mains power has
\* returned": power that was there before the request has not returned.
FsdKeptUntilMains ==
  [][fsd_latched_ /\ ~fsd_latched_' => mains # "in"]_vars
=============================================================================
