----------------------------- MODULE NutServer -----------------------------
(***************************************************************************)
(* The NUT protocol server of components/nut/nut.cpp: the one task that    *)
(* select()s over the listener and NUT_MAX_CLIENTS client slots, cuts what *)
(* it receives into lines and answers them (nut_server_task_ and           *)
(* handle_nut_command_).                                                   *)
(*                                                                         *)
(* A socket is its connection, so a file descriptor number is never used   *)
(* twice.  This loses nothing: within a round accept() comes before every  *)
(* close(), and the next round builds read_fds anew.  A line travels as    *)
(* two atoms, "head" and "tail", the tail holding the '\n'; what recv()    *)
(* returns is any non-empty prefix of what is under way.                   *)
(*                                                                         *)
(* send() blocks while the client's window is full, that is while the      *)
(* client has stopped reading, and the whole task with it.                 *)
(***************************************************************************)
EXTENDS NutService

CONSTANTS
  NumSlots,           \* NUT_MAX_CLIENTS
  MaxLines,           \* bound: lines sent in one behaviour
  Window,             \* bound: lines under way to the server on a connection
  Stallers            \* bound: connections whose client may stop reading

Ops == {"USERNAME", "PASSWORD", "LOGOUT", "FSD", "INSTCMD", "STATUS", "OTHER", "BLANK"}

ASSUME ServerAssumption ==
  /\ NumSlots \in Nat \ {0}
  /\ MaxLines \in Nat
  /\ Window \in Nat \ {0}
  /\ Stallers \subseteq Conns
  /\ Lines \subseteq [op : Ops, arg : STRING]
  /\ username_ \in STRING \ {NoName}     \* setup() wants both
  /\ password_ \in STRING \ {NoName}
  /\ primary_username_ \in STRING
  /\ primary_password_ \in STRING
  /\ primary_username_ # username_      \* required by __init__.py

Slots  == 1..NumSlots
NoConn == 0                             \* client.fd < 0
ASSUME ConnsAssumption == NoConn \notin Conns

\* A line put together from pieces of several: an unknown command.
Garbage == [op |-> "OTHER", arg |-> "garbage"]
Commands == Lines \cup {Garbage}

VARIABLES
  fd, authenticated, primary_authenticated, username, pending,  \* ClientState
  pc,           \* where the server task is in its loop
  todo,         \* slots whose socket is set in read_fds and not yet served
  cur,          \* the slot being served
  sock,         \* new, waiting in the listen queue, open or closed
  backlog,      \* the listen queue
  peer,         \* up, or gone after a FIN or RST
  reading,      \* the connections whose client has room for answers
  inflight,     \* atoms sent and not yet received
  nsent         \* history: the number of lines sent

slotVars    == <<fd, authenticated, primary_authenticated, username, pending>>
sessionVars == <<authenticated, primary_authenticated, username>>
loopVars    == <<pc, todo, cur>>
netVars     == <<sock, backlog, peer, reading, inflight, sent, nsent>>
histVars    == <<handled, effective>>
vars == <<slotVars, loopVars, fsd_latched_, netVars, histVars>>

Atoms == Commands \X {"head", "tail"}
Names == {line.arg : line \in Commands} \cup {NoName}

TypeOK ==
  /\ fd \in [Slots -> Conns \cup {NoConn}]
  /\ authenticated \in [Slots -> BOOLEAN]
  /\ primary_authenticated \in [Slots -> BOOLEAN]
  /\ username \in [Slots -> Names]
  /\ pending \in [Slots -> Seq(Atoms)]
  /\ pc \in {"socket", "listen", "ended", "select", "accept", "serve", "lines", "answer"}
  /\ todo \in SUBSET Slots
  /\ cur \in Slots
  /\ fsd_latched_ \in BOOLEAN
  /\ sock \in [Conns -> {"new", "waiting", "open", "closed"}]
  /\ backlog \in Seq(Conns)
  /\ peer \in [Conns -> {"up", "gone"}]
  /\ reading \in SUBSET Conns
  /\ inflight \in [Conns -> Seq(Atoms)]
  /\ sent \in [Conns -> Seq(Lines)]
  /\ nsent \in 0..MaxLines
  /\ handled \in [Conns -> Seq(Commands)]
  /\ effective \in [Conns -> SUBSET Nat]

Init ==
  /\ fd = [s \in Slots |-> NoConn]
  /\ authenticated = [s \in Slots |-> FALSE]
  /\ primary_authenticated = [s \in Slots |-> FALSE]
  /\ username = [s \in Slots |-> NoName]
  /\ pending = [s \in Slots |-> <<>>]
  /\ pc = "socket"
  /\ todo = {}
  /\ cur = 1
  /\ fsd_latched_ = FALSE
  /\ sock = [c \in Conns |-> "new"]
  /\ backlog = <<>>
  /\ peer = [c \in Conns |-> "up"]
  /\ reading = Conns
  /\ inflight = [c \in Conns |-> <<>>]
  /\ sent = [c \in Conns |-> <<>>]
  /\ nsent = 0
  /\ handled = [c \in Conns |-> <<>>]
  /\ effective = [c \in Conns |-> {}]

-----------------------------------------------------------------------------
(* The clients and the network.                                            *)

Listening == pc \notin {"socket", "listen", "ended"}

\* The listen queue holds NUT_MAX_CLIENTS connections.
Connect(c) ==
  /\ Listening
  /\ sock[c] = "new"
  /\ Len(backlog) < NumSlots
  /\ sock' = [sock EXCEPT ![c] = "waiting"]
  /\ backlog' = Append(backlog, c)
  /\ UNCHANGED <<slotVars, loopVars, fsd_latched_, peer, reading, inflight, sent, nsent, histVars>>

SendLine(c, line) ==
  /\ sock[c] \in {"waiting", "open"}
  /\ peer[c] = "up"
  /\ nsent < MaxLines
  /\ Len(inflight[c]) <= 2 * (Window - 1)
  /\ nsent' = nsent + 1
  /\ sent' = [sent EXCEPT ![c] = Append(@, line)]
  /\ inflight' = [inflight EXCEPT ![c] = @ \o << <<line, "head">>, <<line, "tail">> >>]
  /\ UNCHANGED <<slotVars, loopVars, fsd_latched_, sock, backlog, peer, reading, histVars>>

\* The peer closes or resets: what is under way arrives up to some point,
\* in the middle of a line perhaps.
PeerLeaves(c) ==
  /\ sock[c] \in {"waiting", "open"}
  /\ peer[c] = "up"
  /\ peer' = [peer EXCEPT ![c] = "gone"]
  /\ \E n \in 0..Len(inflight[c]) : inflight' = [inflight EXCEPT ![c] = SubSeq(@, 1, n)]
  /\ UNCHANGED <<slotVars, loopVars, fsd_latched_, sock, backlog, reading, sent, nsent, histVars>>

StopsReading(c) ==
  /\ sock[c] = "open" /\ peer[c] = "up"
  /\ c \in Stallers \cap reading
  /\ reading' = reading \ {c}
  /\ UNCHANGED <<slotVars, loopVars, fsd_latched_, sock, backlog, peer, inflight, sent, nsent,
                 histVars>>

ReadsAgain(c) ==
  /\ peer[c] = "up"
  /\ c \notin reading
  /\ reading' = reading \cup {c}
  /\ UNCHANGED <<slotVars, loopVars, fsd_latched_, sock, backlog, peer, inflight, sent, nsent,
                 histVars>>

-----------------------------------------------------------------------------
(* The server loop.                                                        *)

\* socket(), then bind() and listen(): if one fails the task ends.
OpenListener(opened) ==
  /\ \/ pc = "socket" /\ pc' = IF opened THEN "listen" ELSE "ended"
     \/ pc = "listen" /\ pc' = IF opened THEN "select" ELSE "ended"
  /\ UNCHANGED <<slotVars, todo, cur, fsd_latched_, netVars, histVars>>

\* Slip: a socket is read only when there is data, so an end of file is not.
ReadableData(c) == inflight[c] # <<>>

Readable(c) == inflight[c] # <<>> \/ peer[c] = "gone"

\* select() blocks until the listener or a client socket is readable.
Select ==
  /\ pc = "select"
  /\ todo' = {s \in Slots : fd[s] # NoConn /\ Readable(fd[s])}
  /\ IF backlog # <<>> THEN pc' = "accept" ELSE todo' # {} /\ pc' = "serve"
  /\ UNCHANGED <<slotVars, cur, fsd_latched_, netVars, histVars>>

FreeSlots == {s \in Slots : fd[s] = NoConn}
First(S)  == CHOOSE s \in S : \A t \in S : s <= t
AfterServing(rest) == pc' = IF rest = {} THEN "select" ELSE "serve"

\* Slips: the slot keeps the session, or the unfinished line, of its last owner.
AcceptKeepsSession ==
  /\ pc = "accept"
  /\ FreeSlots # {}
  /\ sock' = [sock EXCEPT ![Head(backlog)] = "open"]
  /\ fd' = [fd EXCEPT ![First(FreeSlots)] = Head(backlog)]
  /\ pending' = [pending EXCEPT ![First(FreeSlots)] = <<>>]
  /\ backlog' = Tail(backlog)
  /\ AfterServing(todo)
  /\ UNCHANGED <<sessionVars, todo, cur, fsd_latched_, peer, reading, inflight, sent, nsent, histVars>>

AcceptKeepsPending ==
  /\ pc = "accept"
  /\ FreeSlots # {}
  /\ sock' = [sock EXCEPT ![Head(backlog)] = "open"]
  /\ fd' = [fd EXCEPT ![First(FreeSlots)] = Head(backlog)]
  /\ backlog' = Tail(backlog)
  /\ AfterServing(todo)
  /\ UNCHANGED <<sessionVars, pending, todo, cur, fsd_latched_, peer, reading, inflight, sent, nsent,
                 histVars>>

\* One connection is accepted per round, into the first free slot.
Accept ==
  /\ pc = "accept"
  /\ FreeSlots # {}
  /\ LET c == Head(backlog)
         s == First(FreeSlots)
     IN /\ sock' = [sock EXCEPT ![c] = "open"]
        /\ fd' = [fd EXCEPT ![s] = c]
        /\ authenticated' = [authenticated EXCEPT ![s] = FALSE]
        /\ primary_authenticated' = [primary_authenticated EXCEPT ![s] = FALSE]
        /\ username' = [username EXCEPT ![s] = NoName]
        /\ pending' = [pending EXCEPT ![s] = <<>>]
  /\ backlog' = Tail(backlog)
  /\ AfterServing(todo)
  /\ UNCHANGED <<todo, cur, fsd_latched_, peer, reading, inflight, sent, nsent, histVars>>

\* Slip: the newcomer that finds no slot is not closed.
DropLeaks ==
  /\ pc = "accept"
  /\ FreeSlots = {}
  /\ sock' = [sock EXCEPT ![Head(backlog)] = "open"]
  /\ backlog' = Tail(backlog)
  /\ AfterServing(todo)
  /\ UNCHANGED <<slotVars, todo, cur, fsd_latched_, peer, reading, inflight, sent, nsent, histVars>>

\* Connection slots full: the socket that accept() returned is closed.  It is
\* open for no other step to see: the server does nothing with it in between,
\* and the peer finds it closed either way.
Drop ==
  /\ pc = "accept"
  /\ FreeSlots = {}
  /\ sock' = [sock EXCEPT ![Head(backlog)] = "closed"]
  /\ backlog' = Tail(backlog)
  /\ AfterServing(todo)
  /\ UNCHANGED <<slotVars, todo, cur, fsd_latched_, peer, reading, inflight, sent, nsent, histVars>>

\* accept() fails when the peer has gone while it waited.
AcceptFails ==
  /\ pc = "accept"
  /\ peer[Head(backlog)] = "gone"
  /\ sock' = [sock EXCEPT ![Head(backlog)] = "closed"]
  /\ backlog' = Tail(backlog)
  /\ AfterServing(todo)
  /\ UNCHANGED <<slotVars, todo, cur, fsd_latched_, peer, reading, inflight, sent, nsent, histVars>>

Receive ==
  /\ pc = "serve"
  /\ LET s == First(todo)
         c == fd[s]
     IN /\ inflight[c] # <<>>
        /\ \E n \in 1..Len(inflight[c]) :
             /\ pending' = [pending EXCEPT ![s] = @ \o SubSeq(inflight[c], 1, n)]
             /\ inflight' = [inflight EXCEPT ![c] = SubSeq(@, n + 1, Len(@))]
        /\ cur' = s
  /\ pc' = "lines"
  /\ UNCHANGED <<fd, sessionVars, todo, fsd_latched_, sock, backlog, peer, reading, sent, nsent, histVars>>

\* recv() returns 0 or an error; the session fields keep their values until
\* the slot is taken again.
Disconnect ==
  /\ pc = "serve"
  /\ LET s == First(todo)
         c == fd[s]
     IN /\ inflight[c] = <<>>
        /\ sock' = [sock EXCEPT ![c] = "closed"]
        /\ fd' = [fd EXCEPT ![s] = NoConn]
        /\ todo' = todo \ {s}
        /\ AfterServing(todo \ {s})
  /\ UNCHANGED <<sessionVars, pending, cur, fsd_latched_, backlog, peer, reading, inflight, sent, nsent, histVars>>

-----------------------------------------------------------------------------
(* Lines.  The text before the first '\n' is one line only if it is made   *)
(* of the two halves of one.                                               *)

HasLine(p)  == \E i \in 1..Len(p) : p[i][2] = "tail"
LineEnd(p)  == CHOOSE i \in 1..Len(p) : p[i][2] = "tail" /\ \A j \in 1..(i - 1) : p[j][2] = "head"
LineText(p) == IF LineEnd(p) = 2 /\ p[1][1] = p[2][1] THEN p[1][1] ELSE Garbage

Eat == pending' = [pending EXCEPT ![cur] = SubSeq(@, LineEnd(@) + 1, Len(@))]

\* Slip: one line is handled per recv().
OneLineOnly ==
  /\ pc = "lines"
  /\ todo' = todo \ {cur}
  /\ AfterServing(todo \ {cur})
  /\ UNCHANGED <<slotVars, cur, fsd_latched_, netVars, histVars>>

NoMoreLines ==
  /\ pc = "lines"
  /\ ~HasLine(pending[cur])
  /\ todo' = todo \ {cur}
  /\ AfterServing(todo \ {cur})
  /\ UNCHANGED <<slotVars, cur, fsd_latched_, netVars, histVars>>

\* handle_nut_command_ is called with the line, except when it is empty.
Handle(line) ==
  /\ pc = "lines"
  /\ HasLine(pending[cur])
  /\ line = LineText(pending[cur])
  /\ line.op # "BLANK"
  /\ Eat
  /\ handled' = [handled EXCEPT ![fd[cur]] = Append(@, line)]
  /\ pc' = "answer"
  /\ UNCHANGED <<fd, todo, cur, netVars>>

\* send() returns when the client has room, or fails when it is gone; what it
\* returns is not looked at.
send_line_ ==
  /\ pc = "answer"
  /\ fd[cur] \in reading \/ peer[fd[cur]] = "gone"
  /\ pc' = "lines"
  /\ UNCHANGED <<slotVars, todo, cur, fsd_latched_, netVars, histVars>>

SkipBlank ==
  /\ pc = "lines"
  /\ HasLine(pending[cur])
  /\ LineText(pending[cur]).op = "BLANK"
  /\ Eat
  /\ UNCHANGED <<fd, sessionVars, loopVars, fsd_latched_, netVars, histVars>>

SetSession(a, p, u) ==
  /\ authenticated' = [authenticated EXCEPT ![cur] = a]
  /\ primary_authenticated' = [primary_authenticated EXCEPT ![cur] = p]
  /\ username' = [username EXCEPT ![cur] = u]

NoEffect == UNCHANGED <<fsd_latched_, effective>>

Username(line) ==
  /\ line.op = "USERNAME"
  /\ Handle(line)
  /\ SetSession(FALSE, FALSE, line.arg)
  /\ NoEffect

Password(line) ==
  /\ line.op = "PASSWORD"
  /\ Handle(line)
  /\ SetSession(username[cur] = username_ /\ line.arg = password_,
                /\ primary_username_ # NoName
                /\ username[cur] = primary_username_
                /\ line.arg = primary_password_,
                NoName)
  /\ NoEffect

\* The connection stays open.
Logout(line) ==
  /\ line.op = "LOGOUT"
  /\ Handle(line)
  /\ SetSession(FALSE, FALSE, NoName)
  /\ NoEffect

ThisLine(c) == Len(handled[c]) + 1
TakesEffect == effective' = [effective EXCEPT ![fd[cur]] = @ \cup {ThisLine(fd[cur])}]

\* Slip: FSD by any user.
FsdByAnyUser(line) ==
  /\ line.op = "FSD"
  /\ Handle(line)
  /\ IF authenticated[cur] /\ line.arg = "ups"
       THEN fsd_latched_' = TRUE /\ TakesEffect
       ELSE NoEffect
  /\ UNCHANGED sessionVars

\* FSD <ups>, by the primary and for this UPS.
Fsd(line) ==
  /\ line.op = "FSD"
  /\ Handle(line)
  /\ IF primary_authenticated[cur] /\ line.arg = "ups"
       THEN fsd_latched_' = TRUE /\ TakesEffect
       ELSE NoEffect
  /\ UNCHANGED sessionVars

\* INSTCMD <ups> <command>: execute_instant_command_ is modelled by InstCmd.
Instcmd(line) ==
  /\ line.op = "INSTCMD"
  /\ Handle(line)
  /\ IF authenticated[cur] /\ line.arg = "ups"
       THEN TakesEffect /\ UNCHANGED fsd_latched_
       ELSE NoEffect
  /\ UNCHANGED sessionVars

\* GET VAR ups.status and LIST VAR call ups_status_, which drops the latch
\* when it sees mains power reported; UpsStatus looks inside.
Status(line) ==
  /\ line.op = "STATUS"
  /\ Handle(line)
  /\ \E on_line \in BOOLEAN : fsd_latched_' = (fsd_latched_ /\ ~on_line)
  /\ UNCHANGED <<sessionVars, effective>>

\* VER, PING, LOGIN, the other LIST and GET lines, unknown commands.
Other(line) ==
  /\ line.op = "OTHER"
  /\ Handle(line)
  /\ UNCHANGED sessionVars
  /\ NoEffect

handle_nut_command_ ==
  \E line \in Commands :
    \/ Username(line)
    \/ Password(line)
    \/ Logout(line)
    \/ Fsd(line)
    \/ Instcmd(line)
    \/ Status(line)
    \/ Other(line)

ServerStep ==
  \/ \E opened \in BOOLEAN : OpenListener(opened)
  \/ Select
  \/ Accept
  \/ Drop
  \/ AcceptFails
  \/ Receive
  \/ Disconnect
  \/ SkipBlank
  \/ handle_nut_command_
  \/ send_line_
  \/ NoMoreLines

Environment ==
  \E c \in Conns :
    \/ Connect(c)
    \/ \E line \in Lines : SendLine(c, line)
    \/ PeerLeaves(c)
    \/ StopsReading(c)
    \/ ReadsAgain(c)

Next == ServerStep \/ Environment

Spec == Init /\ [][Next]_vars

\* The server task blocks only in select() and in send(), where it waits for
\* the environment.  A client that reads makes room, and send() uses it even
\* if the client then stops again.
FairSpec == Spec /\ WF_vars(ServerStep) /\ SF_vars(send_line_)

-----------------------------------------------------------------------------
(* Properties.                                                             *)

\* The flags of a slot are those its present connection has earned by its own
\* lines, whoever held the slot before and however the lines were cut; no
\* connection is both the user and the primary.
FlagsAreEarned ==
  \A s \in Slots : fd[s] # NoConn =>
    LET h == handled[fd[s]] IN
      /\ authenticated[s] = UserGranted(h, Len(h))
      /\ primary_authenticated[s] = PrimaryGranted(h, Len(h))
      /\ ~(authenticated[s] /\ primary_authenticated[s])

\* Sockets and slots: every open socket is in one slot, every slot in use
\* holds an open socket; nothing is closed twice, and nothing leaks: not even
\* the connection that was accepted while every slot was taken (1197-1200).
OneSlotPerSocket ==
  /\ \A s \in Slots : fd[s] # NoConn => sock[fd[s]] = "open"
  /\ \A c \in Conns : sock[c] = "open" => \E s \in Slots : fd[s] = c
  /\ \A s, t \in Slots : fd[s] = fd[t] /\ fd[s] # NoConn => s = t

\* Framing: the lines handled for a connection are the lines it sent, in
\* order and without the empty ones, however recv() cut them and whatever the
\* slot held before.
LinesInOrder ==
  \A c \in Conns :
    /\ Len(handled[c]) <= Spoken(sent[c], Len(sent[c]))
    /\ \A i \in 1..Len(sent[c]) :
         LET k == Spoken(sent[c], i)
         IN sent[c][i].op # "BLANK" /\ k <= Len(handled[c]) => handled[c][k] = sent[c][i]

\* No client stays away from its answers for ever while it is connected.
AllRead == \A c \in Conns : []<>(c \in reading \/ peer[c] = "gone")

Answered(c) ==
  Len(handled[c]) = Spoken(sent[c], Len(sent[c])) /\ ~(pc = "answer" /\ fd[cur] = c)

\* Every connection is taken from the queue, and its lines are answered unless
\* the socket is closed, whatever the other clients do, as long as every
\* client goes on reading its answers: one that does not holds up all.
EveryLineAnswered ==
  AllRead => \A c \in Conns : []<>(sock[c] = "closed" \/ Answered(c))

\* A slot whose peer is known to be gone is freed, unless another client has
\* stopped reading.
GonePeersAreClosed ==
  AllRead => \A c \in Conns : peer[c] = "gone" ~> sock[c] = "closed"
=============================================================================
