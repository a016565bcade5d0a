---------------------------- MODULE PollReports ----------------------------
(***************************************************************************)
(* How the variables of nut.cpp get their values and are listed:           *)
(* resolve_hid_paths_ (the tables, the plan of requests),                  *)
(* poll_hid_reports_ with the answer of request_hid_report_, and the loop  *)
(* of LIST VAR with find_var_.                                             *)
(*                                                                         *)
(* A field is a byte of its report; the one buffer of a poll is kept from  *)
(* request to request.  The device decides how much of a report it sends,  *)
(* whether the report ID comes first and, since the type that is asked for *)
(* is the tag of a main item (0xB0, 0x80) and not the report type of HID   *)
(* (3, 1), the report of which type it sends.  The commands a poll starts  *)
(* with are in InstCmd, the status bits it ends with in UpsStatus.         *)
(***************************************************************************)
EXTENDS HidPaths, SequencesExt

CONSTANTS
  Layouts,      \* the report descriptors considered: sequences of objects
  ReadMap,      \* MGE_READ_MAP: one variable per name, the first path wins
  MoreMap,      \* ENUM_VARS and STRING_VARS: every path that resolves
  Values,       \* what a field may hold
  MaxEntry      \* entries of a lookup table are 1..MaxEntry (7 or 3)

Converts == {"number", "lookup", "string", "internal"}

ASSUME TablesAssumption ==
  /\ \A layout \in Layouts :
       IsSequence(layout) /\ \A i \in DOMAIN layout : Declared(layout[i])
  /\ IsSequence(ReadMap) /\ IsSequence(MoreMap)
  /\ \A entry \in Range(ReadMap) \cup Range(MoreMap) : IsSequence(entry.path)
  /\ \A i \in DOMAIN ReadMap : ReadMap[i].convert = "number"
  /\ \A i \in DOMAIN MoreMap : MoreMap[i].convert \in Converts
  /\ Values \subseteq 0..255

VARIABLES
  items,            \* hid_desc_->item
  vars_,            \* the resolved variables
  report_requests_,
  ppc, req, vi,     \* the poll: where it is, the request, the variable
  report_buffer,
  spc, li,          \* LIST VAR: where it is, the variable
  line,             \* history: the last line of the list
  told,             \* history: what the device last said each object is
  clean             \* history: no request of this poll has failed

pollVars == <<ppc, req, vi, report_buffer, told, clean>>
listVars == <<spc, li, line>>
allVars  == <<items, vars_, report_requests_, pollVars, listVars>>

Untold  == -1       \* never answered
Dubious == -2       \* the answer was short, of the other type, or had no ID
                    \* and began like one

-----------------------------------------------------------------------------
(* resolve_hid_paths_                                                      *)

Resolved(objects, entry) ==
  [name |-> entry.name, convert |-> entry.convert,
   item |-> nut_hid_find_object(objects, entry.path), value |-> 0, valid |-> FALSE]

Resolve(objects) ==
  LET Add(vs, entry) ==
        IF nut_hid_find_object(objects, entry.path) = 0
          THEN vs ELSE Append(vs, Resolved(objects, entry))
      AddFirst(vs, entry) ==
        IF \E i \in DOMAIN vs : vs[i].name = entry.name THEN vs ELSE Add(vs, entry)
  IN FoldLeft(Add, FoldLeft(AddFirst, <<>>, ReadMap), MoreMap)

Covers(request, item) == request.id = item.id /\ request.type = item.type

\* Slip: one request per report ID, whatever the type.
PlannedId(plan, item) == \E i \in DOMAIN plan : plan[i].id = item.id

Planned(plan, item) == \E i \in DOMAIN plan : Covers(plan[i], item)

Plan(objects, vs) ==
  LET add_request(plan, v) ==
        IF Planned(plan, objects[v.item]) THEN plan
        ELSE Append(plan, [id |-> objects[v.item].id, type |-> objects[v.item].type])
  IN FoldLeft(add_request, <<>>, vs)

\* Objects of the same report before the i-th, and with it: its byte.
Position(i) == Cardinality({j \in 1..i : Covers(items[j], items[i])})

Fields(request) == Cardinality({j \in DOMAIN items : Covers(request, items[j])})

Zeros == [k \in 0..Len(items) |-> 0]

Init ==
  /\ \E layout \in Layouts : items = Parsed(layout)
  /\ vars_ = Resolve(items)
  /\ report_requests_ = Plan(items, vars_)
  /\ ppc = "rest" /\ req = 1 /\ vi = 1
  /\ report_buffer = Zeros
  /\ spc = "ready" /\ li = 1
  /\ line = "OK"
  /\ told = [i \in DOMAIN items |-> Untold]
  /\ clean = FALSE

-----------------------------------------------------------------------------
(* poll_hid_reports_                                                       *)

PollGoes(from, to) == ppc = from /\ ppc' = to

StartPoll ==
  /\ PollGoes("rest", "request")
  /\ report_requests_ # <<>>
  /\ req' = 1
  /\ report_buffer' = Zeros
  /\ clean' = TRUE
  /\ UNCHANGED <<items, vars_, report_requests_, vi, told, listVars>>

Request == report_requests_[req]
Asked   == ppc = "request" /\ req <= Len(report_requests_)

\* Slip: a report that fails takes its variables out of service.
RequestFailsInvalidates ==
  /\ Asked
  /\ req' = req + 1
  /\ clean' = FALSE
  /\ vars_' = [i \in DOMAIN vars_ |->
                 IF Covers(Request, items[vars_[i].item])
                   THEN [vars_[i] EXCEPT !.valid = FALSE] ELSE vars_[i]]
  /\ UNCHANGED <<items, report_requests_, ppc, vi, report_buffer, told, listVars>>

\* No transfer, an incomplete one, or no byte of data.
RequestFails ==
  /\ Asked
  /\ req' = req + 1
  /\ clean' = FALSE
  /\ UNCHANGED <<items, vars_, report_requests_, ppc, vi, report_buffer, told, listVars>>

\* memcpy of the n bytes that were sent over what the buffer held.
Copied(bytes, n) ==
  [k \in DOMAIN report_buffer |-> IF k < n THEN bytes[k + 1] ELSE report_buffer[k]]

\* The report ID is put first if the first byte is another.
Fronted(buffer, n, id) ==
  IF buffer[0] = id THEN buffer
  ELSE [k \in DOMAIN buffer |->
          IF k = 0 THEN id ELSE IF k <= n THEN buffer[k - 1] ELSE buffer[k]]

\* What the device says by an answer: the fields it sent, if they are those that
\* were asked for and the first of a report without its ID is not like the ID.
Said(i, type, data, withId, n) ==
  LET p == Position(i)
  IN IF /\ type = Request.type
        /\ (withId /\ p < n) \/ (~withId /\ p <= n /\ data[1] # Request.id)
       THEN data[p] ELSE Dubious

\* The report with the ID that was asked for, of the type the device chooses.
Sent(type) == [id |-> Request.id, type |-> type]

Answer(type, data, withId, n) ==
  /\ Asked
  /\ ppc' = "update" /\ vi' = 1
  /\ LET bytes == IF withId THEN <<Request.id>> \o data ELSE data
     IN /\ n <= Len(bytes)
        /\ report_buffer' = Fronted(Copied(bytes, n), n, Request.id)
  /\ told' = [i \in DOMAIN items |->
                IF Covers(Request, items[i]) THEN Said(i, type, data, withId, n) ELSE told[i]]
  /\ UNCHANGED <<items, vars_, report_requests_, req, clean, listVars>>

\* The conversions: a number is taken over, an entry of a lookup table only if
\* there is one, a string if its descriptor can be fetched by another transfer.
Accepts(convert, logical, fetched) ==
  /\ convert = "lookup" => logical \in 1..MaxEntry
  /\ convert = "string" => logical \in 1..254 /\ fetched

\* Slip: the report is recognised by its ID alone.
UpdatesById(v) == items[v.item].id = Request.id

Updates(v) == Covers(Request, items[v.item])

UpdateVar ==
  /\ ppc = "update" /\ vi <= Len(vars_)
  /\ vi' = vi + 1
  /\ LET v == vars_[vi]
         logical == report_buffer[Position(v.item)]
     IN \E fetched \in BOOLEAN :
          vars_' = IF Updates(v) /\ Accepts(v.convert, logical, fetched)
                     THEN [vars_ EXCEPT ![vi].value = logical, ![vi].valid = TRUE]
                     ELSE vars_
  /\ UNCHANGED <<items, report_requests_, ppc, req, report_buffer, told, clean, listVars>>

NextRequest ==
  /\ PollGoes("update", "request")
  /\ vi > Len(vars_)
  /\ req' = req + 1
  /\ vi' = 1
  /\ UNCHANGED <<items, vars_, report_requests_, report_buffer, told, clean, listVars>>

EndPoll ==
  /\ PollGoes("request", "rest")
  /\ req > Len(report_requests_)
  /\ req' = 1
  /\ report_buffer' = Zeros
  /\ UNCHANGED <<items, vars_, report_requests_, vi, told, clean, listVars>>

AnswerAny ==
  /\ Asked
  /\ \E type \in Types :
       \E data \in [1..Fields(Sent(type)) -> Values], withId \in BOOLEAN,
          n \in 1..(Fields(Sent(type)) + 1) : Answer(type, data, withId, n)

Poll == StartPoll \/ RequestFails \/ AnswerAny \/ UpdateVar \/ NextRequest \/ EndPoll

-----------------------------------------------------------------------------
(* LIST VAR, while the poll goes on.                                       *)

Listed(v) == v.valid /\ v.convert # "internal"

find_var_(name) == First({i \in DOMAIN vars_ : vars_[i].name = name /\ Listed(vars_[i])})

ListGoes(from, to) ==
  /\ spc = from /\ spc' = to
  /\ UNCHANGED <<items, vars_, report_requests_, pollVars>>

StartList == ListGoes("ready", "check") /\ li' = 1 /\ line' = "OK"

ListNext ==
  /\ li <= Len(vars_)
  /\ IF Listed(vars_[li])
       THEN ListGoes("check", "get") /\ UNCHANGED li
       ELSE ListGoes("check", "check") /\ li' = li + 1
  /\ UNCHANGED line

\* get_var_value_ looks the variable up again by its name.
ListLine ==
  /\ ListGoes("get", "check")
  /\ line' = IF find_var_(vars_[li].name) = 0 THEN "ERR" ELSE "VAR"
  /\ li' = li + 1

EndList ==
  /\ ListGoes("check", "ready")
  /\ li > Len(vars_)
  /\ li' = 1
  /\ line' = "OK"

List == StartList \/ ListNext \/ ListLine \/ EndList

Next == Poll \/ List

Spec == Init /\ [][Next]_allVars

-----------------------------------------------------------------------------
\* Every path of the tables finds the object that has exactly this path, the
\* feature before the input, although only a prefix of an array with stale
\* nodes is compared: unless one path continues another.
LookupIsExact ==
  \A entry \in Range(ReadMap) \cup Range(MoreMap) :
    Unambiguous(items, string_to_path(entry.path)) =>
      nut_hid_find_object(items, entry.path) = ExactObject(items, string_to_path(entry.path))

\* A plain value and an entry of a lookup table that are served are what the
\* device last gave for this very object.
ServedIsGiven ==
  \A k \in DOMAIN vars_ :
    LET v == vars_[k]
        said == told[v.item]
    IN (ppc = "update" => vi > k \/ ~Updates(v)) =>
         /\ v.convert \in {"number", "internal"} /\ said >= 0 => v.valid /\ v.value = said
         /\ v.convert = "lookup" /\ said \in 1..MaxEntry => v.valid /\ v.value = said

\* A variable changes only to a value that the device has just given for its
\* object.
GivenIsTaken ==
  \A k \in DOMAIN vars_ :
    vars_'[k] # vars_[k] =>
      vars_'[k].valid /\ told[vars_[k].item] \in {vars_'[k].value, Dubious}

\* What is served is what the device gave, whatever other reports went through
\* the one buffer or failed since.  A lookup whose last answer is out of its table
\* goes on serving an older entry, and a string that cannot be fetched an older
\* one: of these only the change is stated.  An answer that does not tell which
\* fields it carries is no measure.
ValuesAreTheDevices == []ServedIsGiven /\ [][GivenIsTaken]_allVars

\* The plan covers the table: after a poll in which no request failed every
\* plain variable is served.
CleanPollServesAll ==
  ppc = "rest" /\ clean =>
    \A k \in DOMAIN vars_ : vars_[k].convert \in {"number", "internal"} => vars_[k].valid

\* The loop of LIST VAR checks a variable and looks it up again by name while
\* the poll rewrites the table: it never lists what it then cannot find.
ListedVarsAreFound == line # "ERR"
=============================================================================
