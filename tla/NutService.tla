----------------------------- MODULE NutService -----------------------------
(***************************************************************************)
(* What the NUT server promises its clients, without sockets, slots,       *)
(* buffers and session flags: every connection is a conversation by        *)
(* itself.  Its lines are taken whole and in the order it sent them; one   *)
(* that acts on the UPS or on the load is obeyed exactly if the lines      *)
(* before it, of the same connection, entitle it; and what the             *)
(* conversations share, the FSD latch, is raised by an obeyed FSD only and *)
(* dropped by a question for the status only.                              *)
(***************************************************************************)
EXTENDS Integers, Sequences, FiniteSets

CONSTANTS
  Conns,              \* bound: the connections clients ever make
  Lines,              \* the lines clients send, records [op, arg]
  username_, password_,                     \* the configured user
  primary_username_, primary_password_      \* the primary; "" when disabled

VARIABLES
  sent,         \* lines sent by each connection
  handled,      \* lines handle_nut_command_ was given
  effective,    \* indices in handled of the INSTCMD and FSD obeyed
  fsd_latched_

serviceVars == <<sent, handled, effective, fsd_latched_>>

NoName == ""

-----------------------------------------------------------------------------
(* What a connection has been granted, read off the lines handled on it.   *)

Is(line, op, arg) == line.op = op /\ line.arg = arg
Credential(line)  == line.op \in {"USERNAME", "PASSWORD", "LOGOUT"}

\* The last credential lines among the first k of h are USERNAME name and
\* PASSWORD word, in this order and next to each other.
Granted(h, k, name, word) ==
  \E i, j \in 1..k :
    /\ i < j
    /\ Is(h[i], "USERNAME", name)
    /\ Is(h[j], "PASSWORD", word)
    /\ \A m \in (i + 1)..k : m # j => ~Credential(h[m])

UserGranted(h, k) == Granted(h, k, username_, password_)
PrimaryGranted(h, k) ==
  primary_username_ # NoName /\ Granted(h, k, primary_username_, primary_password_)

Entitled(h, k) ==
  \/ Is(h[k], "INSTCMD", "ups") /\ UserGranted(h, k - 1)
  \/ Is(h[k], "FSD", "ups") /\ PrimaryGranted(h, k - 1)

\* How many of the first n lines are not empty.
Spoken(lines, n) == Cardinality({i \in 1..n : lines[i].op # "BLANK"})

-----------------------------------------------------------------------------
ServiceInit ==
  /\ sent = [c \in Conns |-> <<>>]
  /\ handled = [c \in Conns |-> <<>>]
  /\ effective = [c \in Conns |-> {}]
  /\ fsd_latched_ = FALSE

Say(c, line) ==
  /\ sent' = [sent EXCEPT ![c] = Append(@, line)]
  /\ UNCHANGED <<handled, effective, fsd_latched_>>

\* The k-th line of c that is not empty.
IsSpoken(c, line, k) ==
  \E i \in 1..Len(sent[c]) : line = sent[c][i] /\ line.op # "BLANK" /\ Spoken(sent[c], i) = k

Obey(c, k, line) ==
  /\ effective' = [effective EXCEPT ![c] = @ \cup {k}]
  /\ fsd_latched_' = (fsd_latched_ \/ line.op = "FSD")

Answer(line) ==
  /\ fsd_latched_' \in (IF line.op = "STATUS" THEN {fsd_latched_, FALSE} ELSE {fsd_latched_})
  /\ UNCHANGED effective

\* The next line of c, no other, is taken and obeyed or just answered.
TakeLine(c, line) ==
  LET k == Len(handled[c]) + 1 IN
    /\ handled' = [handled EXCEPT ![c] = Append(@, line)]
    /\ IsSpoken(c, line, k)
    /\ IF Entitled(handled'[c], k) THEN Obey(c, k, line) ELSE Answer(line)
    /\ UNCHANGED sent

ServiceNext == \E c \in Conns, line \in Lines : Say(c, line) \/ TakeLine(c, line)

\* The server as its clients know it: nut_server_task_ and handle_nut_command_
\* may do nothing that a server without slots and buffers would not.
NutServiceSpec == ServiceInit /\ [][ServiceNext]_serviceVars

\* The commands that act on the UPS or on the load are obeyed exactly when the
\* lines before them on the same connection entitle it.
ObeyedIffEntitled ==
  \A c \in Conns :
    effective[c] = {k \in 1..Len(handled[c]) : Entitled(handled[c], k)}
=============================================================================
