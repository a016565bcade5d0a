-------------------------- MODULE NutServerProofs --------------------------
(***************************************************************************)
(* The safety properties of the NUT server for any number of slots and     *)
(* connections, any lines and any names and passwords.                     *)
(***************************************************************************)
EXTENDS NutServer, WellFoundedInduction, SequenceTheorems,
        FiniteSetTheorems, TLAPS

-----------------------------------------------------------------------------
(* The least of a set: the first free slot, the first slot to serve, the   *)
(* first newline.                                                          *)

Below == {pair \in Nat \X Nat : pair[1] < pair[2]}

\* A set of naturals has a least element.
LEMMA LeastNatural ==
  ASSUME NEW S \in SUBSET Nat, S # {}
  PROVE  \E x \in S : \A y \in S : x <= y
<1>1. IsWellFoundedOn(Below, Nat)
  BY NatLessThanWellFounded, Zenon DEF OpToRel, Below
<1>2. PICK x \in S : \A y \in S : <<y, x>> \notin Below
  BY <1>1, WFMin
<1>3. \A y \in S : ~(y < x)
  BY <1>2 DEF Below
<1> QED
  BY <1>3

\* First takes an element of a set of slots.
LEMMA FirstIsIn ==
  ASSUME NEW S \in SUBSET Slots, S # {}
  PROVE  First(S) \in S
<1>1. S \in SUBSET Nat
  BY ServerAssumption DEF Slots
<1>2. \E s \in S : \A t \in S : s <= t
  BY <1>1, LeastNatural
<1> QED
  BY <1>2 DEF First

\* A buffer that holds a newline has a first one.
LEMMA LineEnds ==
  ASSUME NEW p \in Seq(Atoms), HasLine(p)
  PROVE  /\ LineEnd(p) \in 1..Len(p)
         /\ p[LineEnd(p)][2] = "tail"
         /\ \A j \in 1..(LineEnd(p) - 1) : p[j][2] = "head"
<1> DEFINE Tails == {i \in 1..Len(p) : p[i][2] = "tail"}
<1>1. Tails \in SUBSET Nat /\ Tails # {}
  BY DEF HasLine
<1>2. PICK i \in Tails : \A j \in Tails : i <= j
  BY <1>1, LeastNatural
<1>3. \A j \in 1..(i - 1) : p[j][2] = "head"
  <2> TAKE j \in 1..(i - 1)
  <2>1. j \in 1..Len(p) /\ j \notin Tails
    BY <1>2
  <2>2. p[j] \in Atoms
    BY <2>1
  <2> QED
    BY <2>1, <2>2 DEF Atoms
<1> QED
  BY <1>2, <1>3 DEF LineEnd

-----------------------------------------------------------------------------
(* The loop, the slots and the sockets.                                    *)

\* Where pc says that a connection waits, one does; where it says that a slot
\* is served, there is one to serve; and the slots still to serve, among them
\* the one whose lines are being handled, are in use.
LoopInv ==
  /\ pc = "accept" => backlog # <<>>
  /\ pc = "serve" => todo # {}
  /\ pc \in {"lines", "answer"} => cur \in todo
  /\ pc \in {"accept", "serve", "lines", "answer"} => \A s \in todo : fd[s] # NoConn

\* The listen queue holds waiting connections, each of them once.
QueueInv ==
  /\ \A i \in 1..Len(backlog) : sock[backlog[i]] = "waiting"
  /\ \A i, j \in 1..Len(backlog) : backlog[i] = backlog[j] => i = j

\* The inductive invariant of the loop.
ServerInv == TypeOK /\ LoopInv /\ QueueInv /\ OneSlotPerSocket

\* It holds before the listener is opened.
LEMMA ServerStarts == Init => ServerInv
<1> SUFFICES ASSUME Init PROVE ServerInv
  OBVIOUS
<1> USE ServerAssumption, ConnsAssumption DEF Init
<1>1. TypeOK
  <2>1. cur \in Slots
    BY DEF Slots
  <2>2. /\ pending \in [Slots -> Seq(Atoms)]
        /\ backlog \in Seq(Conns)
        /\ inflight \in [Conns -> Seq(Atoms)]
        /\ sent \in [Conns -> Seq(Lines)]
        /\ handled \in [Conns -> Seq(Commands)]
    BY EmptySeq
  <2>3. effective \in [Conns -> SUBSET Nat] /\ nsent \in 0..MaxLines
    OBVIOUS
  <2>4. username \in [Slots -> Names]
    BY DEF Names
  <2> QED
    BY <2>1, <2>2, <2>3, <2>4 DEF TypeOK
<1>2. LoopInv
  BY DEF LoopInv
<1>3. QueueInv
  BY DEF QueueInv
<1>4. OneSlotPerSocket
  BY DEF OneSlotPerSocket
<1> QED
  BY <1>1, <1>2, <1>3, <1>4 DEF ServerInv

USE DEF slotVars, sessionVars, loopVars, netVars, histVars

\* A client that connects, writes, leaves, stops reading or reads again keeps
\* the invariant of the loop.
LEMMA EnvironmentKeeps == ServerInv /\ Environment => ServerInv'
<1> SUFFICES ASSUME ServerInv, NEW c \in Conns,
                    \/ Connect(c)
                    \/ \E line \in Lines : SendLine(c, line)
                    \/ PeerLeaves(c)
                    \/ StopsReading(c) \/ ReadsAgain(c)
             PROVE  ServerInv'
  BY DEF Environment
<1> USE DEF ServerInv
<1>1. CASE Connect(c)
  <2>1. TypeOK'
    <3>1. /\ UNCHANGED <<slotVars, loopVars, fsd_latched_, peer, reading, inflight, sent, nsent,
                       histVars>>
          /\ sock' = [sock EXCEPT ![c] = "waiting"] /\ backlog' = Append(backlog, c)
      BY <1>1 DEF Connect
    <3>2. sock' \in [Conns -> {"new", "waiting", "open", "closed"}]
      BY <3>1 DEF TypeOK
    <3>3. backlog' \in Seq(Conns)
      BY <3>1, AppendProperties DEF TypeOK
    <3> QED
      BY <3>1, <3>2, <3>3 DEF TypeOK, slotVars, loopVars, histVars
  <2>2. LoopInv'
    <3>1. backlog' # <<>>
      <4>1. backlog \in Seq(Conns) /\ backlog' = Append(backlog, c)
        BY <1>1 DEF Connect, TypeOK
      <4>2. Append(backlog, c) # <<>>
        BY <4>1, AppendProperties, Zenon
      <4> QED
        BY <4>1, <4>2, Zenon
    <3> QED
      BY <1>1, <3>1 DEF Connect, LoopInv
  <2>3. QueueInv'
    <3>1. /\ Len(backlog) \in Nat
          /\ Len(backlog') = Len(backlog) + 1
          /\ backlog'[Len(backlog) + 1] = c
          /\ \A i \in 1..Len(backlog) : backlog'[i] = backlog[i] /\ backlog'[i] # c
      <4>1. sock[c] = "new" /\ backlog' = Append(backlog, c) /\ backlog \in Seq(Conns)
        BY <1>1 DEF Connect, TypeOK
      <4>2. \A i \in 1..Len(backlog) : backlog[i] # c
        BY <4>1 DEF QueueInv
      <4> QED
        BY <4>1, <4>2, AppendProperties
    <3>2. \A i \in 1..Len(backlog) : backlog[i] \in Conns
      BY DEF TypeOK
    <3>3. \A i \in 1..Len(backlog') : sock'[backlog'[i]] = "waiting"
      <4>1. PICK n \in Nat : n = Len(backlog)
        BY <3>1
      <4>2. \A d \in Conns : sock'[d] = IF d = c THEN "waiting" ELSE sock[d]
        BY <1>1 DEF Connect, TypeOK
      <4>3. \A i \in 1..n : sock'[backlog'[i]] = "waiting"
        BY <3>1, <3>2, <4>1, <4>2 DEF QueueInv
      <4>4. sock'[backlog'[n + 1]] = "waiting"
        BY <3>1, <4>1, <4>2
      <4>5. \A i \in 1..Len(backlog') : i \in 1..n \/ i = n + 1
        BY <3>1, <4>1
      <4> QED
        BY <4>3, <4>4, <4>5
    <3>4. \A i, j \in 1..Len(backlog') : backlog'[i] = backlog'[j] => i = j
      BY <3>1 DEF QueueInv
    <3> QED
      BY <3>3, <3>4 DEF QueueInv
  <2>4. OneSlotPerSocket'
    BY <1>1 DEF Connect, TypeOK, OneSlotPerSocket
  <2> QED
    BY <2>1, <2>2, <2>3, <2>4
<1>2. ASSUME NEW line \in Lines, SendLine(c, line) PROVE ServerInv'
  <2>1. << <<line, "head">>, <<line, "tail">> >> \in Seq(Atoms)
    BY DEF Atoms, Commands
  <2>2. inflight[c] \o << <<line, "head">>, <<line, "tail">> >> \in Seq(Atoms)
    BY <2>1, ConcatProperties DEF TypeOK
  <2>3. Append(sent[c], line) \in Seq(Lines)
    BY AppendProperties DEF TypeOK
  <2>4. TypeOK'
    BY <1>2, <2>2, <2>3, ServerAssumption DEF SendLine, TypeOK
  <2> QED
    BY <1>2, <2>4 DEF SendLine, LoopInv, QueueInv, OneSlotPerSocket
<1>3. CASE PeerLeaves(c)
  <2>1. \A n \in 0..Len(inflight[c]) : SubSeq(inflight[c], 1, n) \in Seq(Atoms)
    <3> TAKE n \in 0..Len(inflight[c])
    <3>1. \A i \in 1..n : inflight[c][i] \in Atoms
      BY DEF TypeOK
    <3> QED
      BY <3>1, SubSeqProperties
  <2>2. TypeOK'
    BY <1>3, <2>1 DEF PeerLeaves, TypeOK
  <2> QED
    BY <1>3, <2>2 DEF PeerLeaves, LoopInv, QueueInv, OneSlotPerSocket
<1>4. CASE StopsReading(c) \/ ReadsAgain(c)
  <2>1. reading' \in SUBSET Conns
    BY <1>4 DEF StopsReading, ReadsAgain, TypeOK
  <2>2. UNCHANGED <<slotVars, loopVars, fsd_latched_, sock, backlog, peer, inflight, sent, nsent,
                    histVars>>
    BY <1>4 DEF StopsReading, ReadsAgain
  <2> QED
    BY <2>1, <2>2 DEF TypeOK, LoopInv, QueueInv, OneSlotPerSocket
<1> QED
  BY <1>1, <1>2, <1>3, <1>4

\* A step that only moves the loop on keeps all but LoopInv.
LEMMA LoopMoves ==
  ASSUME ServerInv, UNCHANGED <<slotVars, cur, fsd_latched_, netVars, histVars>>,
         todo' \in SUBSET Slots,
         pc' \in {"socket", "listen", "ended", "select", "accept", "serve", "lines", "answer"}
  PROVE  TypeOK' /\ QueueInv' /\ OneSlotPerSocket'
<1>1. TypeOK'
  BY DEF ServerInv, TypeOK, slotVars, netVars, histVars
<1>2. QueueInv'
  BY DEF ServerInv, QueueInv, netVars
<1>3. OneSlotPerSocket'
  BY DEF ServerInv, OneSlotPerSocket, slotVars, netVars
<1> QED
  BY <1>1, <1>2, <1>3

\* Opening the listener and waiting in select().
LEMMA SelectKeeps ==
  ASSUME ServerInv, (\E opened \in BOOLEAN : OpenListener(opened)) \/ Select
  PROVE  ServerInv'
<1> USE DEF ServerInv
<1>1. ASSUME NEW opened \in BOOLEAN, OpenListener(opened) PROVE ServerInv'
  <2>1. /\ pc' \in {"listen", "select", "ended"}
        /\ UNCHANGED <<slotVars, todo, cur, fsd_latched_, netVars, histVars>>
    BY <1>1 DEF OpenListener
  <2>2. todo' \in SUBSET Slots
    BY <2>1 DEF TypeOK
  <2>3. LoopInv'
    BY <2>1 DEF LoopInv
  <2> QED
    BY <2>1, <2>2, <2>3, LoopMoves
<1>2. CASE Select
  <2>1. /\ todo' \in SUBSET Slots /\ (\A s \in todo' : fd[s] # NoConn)
        /\ pc' \in {"accept", "serve"}
        /\ UNCHANGED <<slotVars, cur, fsd_latched_, netVars, histVars>>
    BY <1>2 DEF Select
  <2>2. LoopInv'
    BY <1>2, <2>1 DEF Select, LoopInv, slotVars, netVars
  <2> QED
    BY <2>1, <2>2, LoopMoves
<1> QED
  BY <1>1, <1>2

\* The head of the listen queue leaves it: the rest still waits.
LEMMA QueueShrinks ==
  ASSUME TypeOK, QueueInv, backlog # <<>>, NEW state \in {"open", "closed"},
         sock' = [sock EXCEPT ![Head(backlog)] = state], backlog' = Tail(backlog)
  PROVE  /\ Head(backlog) \in Conns /\ sock[Head(backlog)] = "waiting"
         /\ backlog' \in Seq(Conns) /\ QueueInv'
<1>1. /\ Head(backlog) = backlog[1] /\ Head(backlog) \in Conns
      /\ Len(backlog) \in Nat \ {0}
      /\ Tail(backlog) \in Seq(Conns)
      /\ Len(Tail(backlog)) = Len(backlog) - 1
      /\ \A i \in 1..Len(Tail(backlog)) : Tail(backlog)[i] = backlog[i + 1]
  BY HeadTailProperties, EmptySeq DEF TypeOK
<1>2. \A i \in 1..Len(Tail(backlog)) : /\ i + 1 \in 1..Len(backlog)
                                       /\ backlog[i + 1] \in Conns
                                       /\ backlog[i + 1] # Head(backlog)
  BY <1>1 DEF QueueInv, TypeOK
<1>3. \A i \in 1..Len(backlog') : sock'[backlog'[i]] = "waiting"
  BY <1>1, <1>2 DEF QueueInv, TypeOK
<1>4. \A i, j \in 1..Len(backlog') : backlog'[i] = backlog'[j] => i = j
  BY <1>1, <1>2 DEF QueueInv, TypeOK
<1>5. 1 \in 1..Len(backlog)
  BY <1>1
<1> QED
  BY <1>1, <1>3, <1>4, <1>5 DEF QueueInv

\* Taking a connection from the queue, into a slot or to be closed.
LEMMA AcceptKeeps ==
  ASSUME ServerInv, Accept \/ Drop \/ AcceptFails
  PROVE  ServerInv'
<1> USE DEF ServerInv, AfterServing
<1>1. CASE Accept
  <2> DEFINE c == Head(backlog)
             s == First(FreeSlots)
  <2>1. /\ s \in Slots /\ fd[s] = NoConn
    BY <1>1, FirstIsIn DEF Accept, FreeSlots
  <2>2. /\ sock' = [sock EXCEPT ![c] = "open"]
        /\ fd' = [fd EXCEPT ![s] = c]
        /\ backlog' = Tail(backlog)
        /\ backlog # <<>>
    BY <1>1 DEF Accept, LoopInv
  <2>3. c \in Conns /\ sock[c] = "waiting" /\ backlog' \in Seq(Conns) /\ QueueInv'
    BY <2>2, QueueShrinks
  <2>4. \A t \in Slots : fd[t] # c
    BY <2>3, ConnsAssumption DEF OneSlotPerSocket
  <2> HIDE DEF c, s
  <2>5. TypeOK'
    <3>1. /\ authenticated' \in [Slots -> BOOLEAN]
          /\ primary_authenticated' \in [Slots -> BOOLEAN]
      BY <1>1 DEF Accept, TypeOK
    <3>2. username' \in [Slots -> Names]
      BY <1>1 DEF Accept, TypeOK, Names
    <3>3. pending' \in [Slots -> Seq(Atoms)]
      BY <1>1, EmptySeq DEF Accept, TypeOK
    <3>4. /\ fd' \in [Slots -> Conns \cup {NoConn}]
          /\ sock' \in [Conns -> {"new", "waiting", "open", "closed"}]
      BY <2>2, <2>3 DEF TypeOK
    <3>5. /\ pc' \in {"select", "serve"}
          /\ UNCHANGED <<todo, cur, fsd_latched_, peer, reading, inflight, sent, nsent,
                         histVars>>
      BY <1>1 DEF Accept
    <3> QED
      BY <2>3, <3>1, <3>2, <3>3, <3>4, <3>5 DEF TypeOK
  <2>6. LoopInv'
    <3>1. \A t \in todo : fd'[t] # NoConn
      <4>1. \A t \in todo : t \in Slots /\ fd[t] # NoConn
        BY <1>1 DEF Accept, LoopInv, TypeOK
      <4> QED
        BY <2>2, <2>3, <4>1, ConnsAssumption
    <3> QED
      BY <1>1, <3>1 DEF Accept, LoopInv
  <2>7. OneSlotPerSocket'
    <3>1. /\ \A d \in Conns : sock'[d] = IF d = c THEN "open" ELSE sock[d]
          /\ \A t \in Slots : fd'[t] = IF t = s THEN c ELSE fd[t]
          /\ \A t \in Slots : fd[t] \in Conns \cup {NoConn}
      BY <2>2, <2>3 DEF TypeOK
    <3>2. \A t \in Slots : fd[t] # c
      BY <2>4
    <3>3. \A t \in Slots : fd'[t] # NoConn => sock'[fd'[t]] = "open"
      BY <2>2, <2>3, <3>1, <3>2 DEF OneSlotPerSocket
    <3>4. \A d \in Conns : sock'[d] = "open" => \E t \in Slots : fd'[t] = d
      <4> TAKE d \in Conns
      <4>1. CASE d = c
        BY <2>1, <3>1, <4>1
      <4>2. ASSUME d # c, sock'[d] = "open" PROVE \E t \in Slots : fd'[t] = d
        <5>1. PICK t \in Slots : fd[t] = d
          BY <3>1, <4>2 DEF OneSlotPerSocket
        <5>2. t # s
          BY <2>1, <5>1, ConnsAssumption
        <5> QED
          BY <3>1, <5>1, <5>2
      <4> QED
        BY <4>1, <4>2
    <3>5. \A t, u \in Slots : fd'[t] = fd'[u] /\ fd'[t] # NoConn => t = u
      BY <3>1, <3>2 DEF OneSlotPerSocket
    <3> QED
      BY <3>3, <3>4, <3>5 DEF OneSlotPerSocket
  <2> QED
    BY <2>3, <2>5, <2>6, <2>7
<1>2. CASE Drop \/ AcceptFails
  <2> DEFINE c == Head(backlog)
  <2>1. /\ sock' = [sock EXCEPT ![c] = "closed"]
        /\ backlog' = Tail(backlog)
        /\ backlog # <<>>
        /\ pc' = IF todo = {} THEN "select" ELSE "serve"
        /\ UNCHANGED <<slotVars, todo, cur, fsd_latched_, peer, reading, inflight, sent, nsent,
                       histVars>>
    BY <1>2 DEF Drop, AcceptFails, LoopInv
  <2>2. c \in Conns /\ sock[c] = "waiting" /\ backlog' \in Seq(Conns) /\ QueueInv'
    BY <2>1, QueueShrinks
  <2> HIDE DEF c
  <2>3. TypeOK'
    BY <2>1, <2>2 DEF TypeOK
  <2>4. LoopInv'
    BY <1>2, <2>1 DEF Drop, AcceptFails, LoopInv
  <2>5. OneSlotPerSocket'
    BY <2>1, <2>2 DEF OneSlotPerSocket, TypeOK
  <2> QED
    BY <2>2, <2>3, <2>4, <2>5
<1> QED
  BY <1>1, <1>2

\* Serving a slot: what was received, or the end of the connection.
LEMMA ServeKeeps ==
  ASSUME ServerInv, Receive \/ Disconnect
  PROVE  ServerInv'
<1> DEFINE s == First(todo)
           c == fd[s]
<1> USE DEF ServerInv
<1>1. s \in todo /\ s \in Slots /\ c \in Conns
  <2>1. todo \in SUBSET Slots /\ todo # {} /\ \A t \in todo : fd[t] # NoConn
    BY DEF Receive, Disconnect, TypeOK, LoopInv
  <2>2. s \in todo
    BY <2>1, FirstIsIn
  <2> QED
    BY <2>1, <2>2 DEF TypeOK
<1>2. CASE Receive
  <2>1. PICK n \in 1..Len(inflight[c]) :
          /\ pending' = [pending EXCEPT ![s] = @ \o SubSeq(inflight[c], 1, n)]
          /\ inflight' = [inflight EXCEPT ![c] = SubSeq(@, n + 1, Len(@))]
    BY <1>2 DEF Receive
  <2>2. /\ cur' = s /\ pc = "serve" /\ pc' = "lines"
        /\ UNCHANGED <<fd, sessionVars, todo, fsd_latched_, sock, backlog, peer, reading,
                       sent, nsent, histVars>>
    BY <1>2 DEF Receive
  <2> HIDE DEF s, c
  <2>3. /\ inflight[c] \in Seq(Atoms) /\ pending[s] \in Seq(Atoms)
        /\ n \in 1..Len(inflight[c]) /\ Len(inflight[c]) \in Nat
        /\ \A i \in 1..Len(inflight[c]) : inflight[c][i] \in Atoms
    BY <1>1 DEF TypeOK
  <2>4. SubSeq(inflight[c], 1, n) \in Seq(Atoms)
    BY <2>3, SubSeqProperties
  <2>5. SubSeq(inflight[c], n + 1, Len(inflight[c])) \in Seq(Atoms)
    <3>1. \A i \in (n + 1)..Len(inflight[c]) : inflight[c][i] \in Atoms
      BY <2>3
    <3> QED
      BY <2>3, <3>1, SubSeqProperties
  <2>6. pending[s] \o SubSeq(inflight[c], 1, n) \in Seq(Atoms)
    BY <2>3, <2>4, ConcatProperties
  <2>7. TypeOK'
    BY <1>1, <2>1, <2>2, <2>5, <2>6 DEF TypeOK
  <2>8. LoopInv'
    BY <1>1, <2>2 DEF LoopInv
  <2>9. QueueInv' /\ OneSlotPerSocket'
    BY <2>2 DEF QueueInv, OneSlotPerSocket
  <2> QED
    BY <2>7, <2>8, <2>9
<1>3. CASE Disconnect
  <2>1. /\ sock' = [sock EXCEPT ![c] = "closed"]
        /\ fd' = [fd EXCEPT ![s] = NoConn]
        /\ todo' = todo \ {s}
        /\ pc' = IF todo' = {} THEN "select" ELSE "serve"
        /\ UNCHANGED <<sessionVars, pending, cur, fsd_latched_, backlog, peer, reading,
                       inflight, sent, nsent, histVars>>
        /\ pc = "serve"
    BY <1>3 DEF Disconnect, AfterServing
  <2>2. c = fd[s] /\ sock[c] = "open" /\ \A t \in Slots : fd[t] = c => t = s
    BY <1>1, ConnsAssumption DEF OneSlotPerSocket
  <2> HIDE DEF s, c
  <2>3. TypeOK'
    <3>1. /\ fd' \in [Slots -> Conns \cup {NoConn}]
          /\ sock' \in [Conns -> {"new", "waiting", "open", "closed"}]
          /\ todo' \in SUBSET Slots /\ pc' \in {"select", "serve"}
      BY <2>1 DEF TypeOK
    <3> QED
      BY <2>1, <3>1 DEF TypeOK, sessionVars, histVars
  <2>4. LoopInv'
    <3>1. \A t \in todo : t \in Slots /\ fd[t] # NoConn
      BY <2>1 DEF LoopInv, TypeOK
    <3>2. \A t \in todo' : t \in todo /\ fd'[t] = fd[t]
      <4>1. \A t \in Slots : t # s => fd'[t] = fd[t]
        BY <2>1 DEF TypeOK
      <4> QED
        BY <2>1, <3>1, <4>1
    <3>3. /\ pc' \in {"select", "serve"} /\ (pc' = "serve" => todo' # {})
      BY <2>1
    <3> QED
      BY <3>1, <3>2, <3>3 DEF LoopInv
  <2>5. QueueInv'
    <3>1. \A i \in 1..Len(backlog) : backlog[i] \in Conns /\ backlog[i] # c
      <4>1. \A i \in 1..Len(backlog) : sock[backlog[i]] = "waiting"
        BY DEF QueueInv
      <4>2. backlog \in Seq(Conns)
        BY DEF TypeOK
      <4>3. \A i \in 1..Len(backlog) : backlog[i] \in Conns
        BY <4>2, ElementOfSeq
      <4> QED
        BY <2>2, <4>1, <4>3
    <3>2. \A d \in Conns : d # c => sock'[d] = sock[d]
      BY <2>1 DEF TypeOK
    <3> QED
      BY <2>1, <3>1, <3>2 DEF QueueInv
  <2>6. OneSlotPerSocket'
    BY <1>1, <2>1, <2>2 DEF OneSlotPerSocket, TypeOK
  <2> QED
    BY <2>3, <2>4, <2>5, <2>6
<1> QED
  BY <1>2, <1>3

\* What handling or skipping a line leaves: one line less in the buffer.
LEMMA EatTyped ==
  ASSUME TypeOK, HasLine(pending[cur]), Eat
  PROVE  /\ pending' \in [Slots -> Seq(Atoms)]
         /\ pending'[cur] = SubSeq(pending[cur], LineEnd(pending[cur]) + 1, Len(pending[cur]))
<1> DEFINE p == pending[cur]
<1>1. p \in Seq(Atoms) /\ cur \in Slots
  BY DEF TypeOK
<1>2. LineEnd(p) \in 1..Len(p) /\ Len(p) \in Nat
  BY <1>1, LineEnds
<1>3. \A i \in (LineEnd(p) + 1)..Len(p) : p[i] \in Atoms
  BY <1>1, <1>2
<1>4. SubSeq(p, LineEnd(p) + 1, Len(p)) \in Seq(Atoms)
  BY <1>2, <1>3, SubSeqProperties
<1> QED
  BY <1>1, <1>4 DEF Eat, TypeOK

\* The session fields after a line, whatever it was.
LEMMA SessionTyped ==
  ASSUME TypeOK, LoopInv, NEW line \in Commands,
         \/ Username(line) \/ Password(line) \/ Logout(line)
         \/ Fsd(line) \/ Instcmd(line) \/ Status(line) \/ Other(line)
  PROVE  /\ authenticated' \in [Slots -> BOOLEAN]
         /\ primary_authenticated' \in [Slots -> BOOLEAN]
         /\ username' \in [Slots -> Names]
         /\ fsd_latched_' \in BOOLEAN
         /\ effective' \in [Conns -> SUBSET Nat]
         /\ Handle(line)
<1>1. Handle(line)
  BY DEF Username, Password, Logout, Fsd, Instcmd, Status, Other
<1>2. NoName \in Names /\ line.arg \in Names
  BY DEF Names
<1>3. ASSUME NEW a \in BOOLEAN, NEW b \in BOOLEAN, NEW u \in Names, SetSession(a, b, u)
      PROVE  /\ authenticated' \in [Slots -> BOOLEAN]
             /\ primary_authenticated' \in [Slots -> BOOLEAN]
             /\ username' \in [Slots -> Names]
  BY <1>3 DEF SetSession, TypeOK
<1>4. ASSUME UNCHANGED sessionVars
      PROVE  /\ authenticated' \in [Slots -> BOOLEAN]
             /\ primary_authenticated' \in [Slots -> BOOLEAN]
             /\ username' \in [Slots -> Names]
  BY <1>4 DEF TypeOK
<1>5. NoEffect => fsd_latched_' \in BOOLEAN /\ effective' \in [Conns -> SUBSET Nat]
  BY DEF NoEffect, TypeOK
<1>6. TakesEffect => effective' \in [Conns -> SUBSET Nat]
  <2>1. \A c \in Conns : ThisLine(c) \in Nat
    BY LenProperties DEF ThisLine, TypeOK
  <2>2. ASSUME NEW c \in Conns, NEW k \in Nat
        PROVE  [effective EXCEPT ![c] = @ \cup {k}] \in [Conns -> SUBSET Nat]
    <3>1. effective \in [Conns -> SUBSET Nat] /\ effective[c] \cup {k} \in SUBSET Nat
      BY DEF TypeOK
    <3> QED
      BY <3>1
  <2>3. fd[cur] \in Conns
    BY <1>1 DEF Handle, LoopInv, TypeOK
  <2> QED
    BY <2>1, <2>2, <2>3 DEF TakesEffect
<1>7. CASE Username(line)
  BY <1>1, <1>2, <1>3, <1>5, <1>7 DEF Username
<1>8. CASE Password(line)
  <2>1. /\ (username[cur] = username_ /\ line.arg = password_) \in BOOLEAN
        /\ (/\ primary_username_ # NoName
            /\ username[cur] = primary_username_
            /\ line.arg = primary_password_) \in BOOLEAN
    BY Zenon
  <2> QED
    BY <1>1, <1>2, <1>3, <1>5, <1>8, <2>1, Zenon DEF Password
<1>9. CASE Logout(line)
  BY <1>1, <1>2, <1>3, <1>5, <1>9 DEF Logout
<1>10. CASE Fsd(line)
  BY <1>1, <1>4, <1>5, <1>6, <1>10 DEF Fsd
<1>11. CASE Instcmd(line)
  BY <1>1, <1>4, <1>5, <1>6, <1>11 DEF Instcmd, TypeOK
<1>12. CASE Status(line)
  <2>1. fsd_latched_' \in BOOLEAN
    BY <1>12, Zenon DEF Status
  <2> QED
    BY <1>1, <1>4, <1>12, <2>1 DEF Status, TypeOK
<1>13. CASE Other(line)
  BY <1>1, <1>4, <1>5, <1>13 DEF Other
<1> QED
  BY <1>7, <1>8, <1>9, <1>10, <1>11, <1>12, <1>13

\* Handling lines, answering them and going on to the next slot.
LEMMA LinesKeep ==
  ASSUME ServerInv, SkipBlank \/ handle_nut_command_ \/ send_line_ \/ NoMoreLines
  PROVE  ServerInv'
<1> USE DEF ServerInv
<1>1. CASE SkipBlank
  <2>1. pending' \in [Slots -> Seq(Atoms)]
    BY <1>1, EatTyped DEF SkipBlank
  <2>2. UNCHANGED <<fd, sessionVars, loopVars, fsd_latched_, netVars, histVars>>
    BY <1>1 DEF SkipBlank
  <2> QED
    BY <2>1, <2>2 DEF TypeOK, LoopInv, QueueInv, OneSlotPerSocket
<1>2. CASE handle_nut_command_
  <2>1. PICK line \in Commands :
          \/ Username(line) \/ Password(line) \/ Logout(line)
          \/ Fsd(line) \/ Instcmd(line) \/ Status(line) \/ Other(line)
    BY <1>2 DEF handle_nut_command_
  <2>2. /\ authenticated' \in [Slots -> BOOLEAN]
        /\ primary_authenticated' \in [Slots -> BOOLEAN]
        /\ username' \in [Slots -> Names]
        /\ fsd_latched_' \in BOOLEAN
        /\ effective' \in [Conns -> SUBSET Nat]
        /\ Handle(line)
    BY <2>1, SessionTyped
  <2>3. /\ pc = "lines" /\ pc' = "answer"
        /\ handled' = [handled EXCEPT ![fd[cur]] = Append(@, line)]
        /\ HasLine(pending[cur]) /\ Eat
        /\ UNCHANGED <<fd, todo, cur, netVars>>
    BY <2>2 DEF Handle
  <2>4. pending' \in [Slots -> Seq(Atoms)]
    BY <2>3, EatTyped
  <2>5. fd[cur] \in Conns
    BY <2>3 DEF LoopInv, TypeOK
  <2>6. handled' \in [Conns -> Seq(Commands)]
    BY <2>3, <2>5, AppendProperties DEF TypeOK
  <2>7. TypeOK'
    BY <2>2, <2>3, <2>4, <2>6 DEF TypeOK
  <2>8. LoopInv'
    BY <2>3 DEF LoopInv
  <2>9. QueueInv' /\ OneSlotPerSocket'
    BY <2>3 DEF QueueInv, OneSlotPerSocket, netVars
  <2> QED
    BY <2>7, <2>8, <2>9
<1>3. CASE send_line_
  <2>1. /\ pc' = "lines" /\ pc = "answer"
        /\ UNCHANGED <<slotVars, todo, cur, fsd_latched_, netVars, histVars>>
    BY <1>3 DEF send_line_
  <2>2. todo' \in SUBSET Slots
    BY <2>1 DEF TypeOK
  <2>3. LoopInv'
    BY <2>1 DEF LoopInv, slotVars
  <2> QED
    BY <2>1, <2>2, <2>3, LoopMoves
<1>4. CASE NoMoreLines
  <2>1. /\ todo' = todo \ {cur} /\ pc = "lines"
        /\ pc' = IF todo' = {} THEN "select" ELSE "serve"
        /\ UNCHANGED <<slotVars, cur, fsd_latched_, netVars, histVars>>
    BY <1>4 DEF NoMoreLines, AfterServing
  <2>2. todo' \in SUBSET Slots /\ pc' \in {"select", "serve"}
    BY <2>1 DEF TypeOK
  <2>3. LoopInv'
    BY <2>1, <2>2 DEF LoopInv, slotVars
  <2> QED
    BY <2>1, <2>2, <2>3, LoopMoves
<1> QED
  BY <1>1, <1>2, <1>3, <1>4

\* In every reachable state the variables have their types, the loop finds what
\* it expects, and slots and sockets match.
THEOREM ServerInvariant == Spec => []ServerInv
<1>1. ServerInv /\ UNCHANGED vars => ServerInv'
  BY DEF vars, ServerInv, TypeOK, LoopInv, QueueInv, OneSlotPerSocket
<1>2. ServerInv /\ [Next]_vars => ServerInv'
  BY <1>1, EnvironmentKeeps, SelectKeeps, AcceptKeeps, ServeKeeps, LinesKeep
     DEF Next, ServerStep
<1> QED
  BY ServerStarts, <1>2, PTL DEF Spec

\* Every open socket is in exactly one slot and every slot in use holds an open
\* socket, for any number of slots and connections: nothing leaks through
\* disconnects, full tables and failed accepts, and no slot is overwritten.
THEOREM SocketsMatchSlots == Spec => []OneSlotPerSocket
BY ServerInvariant, PTL DEF ServerInv

-----------------------------------------------------------------------------
(* What a list of handled lines grants, and how the next line changes it.  *)

\* The last credential line of h is USERNAME name.
LastNamed(h, name) ==
  \E i \in 1..Len(h) : /\ Is(h[i], "USERNAME", name)
                       /\ \A m \in (i + 1)..Len(h) : ~Credential(h[m])

\* A list with one more line.
LEMMA OneMore ==
  ASSUME NEW h \in Seq(Commands), NEW line \in Commands
  PROVE  /\ Len(h) \in Nat /\ Len(Append(h, line)) = Len(h) + 1
         /\ Append(h, line)[Len(h) + 1] = line
         /\ \A i \in 1..Len(h) : Append(h, line)[i] = h[i]
BY AppendProperties, LenProperties

\* A grant depends on the lines up to it alone.
LEMMA SameLinesGrant ==
  ASSUME NEW g, NEW h, NEW name, NEW word, NEW k \in Nat, \A i \in 1..k : g[i] = h[i],
         Granted(g, k, name, word)
  PROVE  Granted(h, k, name, word)
<1>1. PICK i, j \in 1..k :
        /\ i < j /\ Is(g[i], "USERNAME", name) /\ Is(g[j], "PASSWORD", word)
        /\ \A m \in (i + 1)..k : m # j => ~Credential(g[m])
  BY DEF Granted
<1>2. Is(h[i], "USERNAME", name) /\ Is(h[j], "PASSWORD", word)
  BY <1>1
<1>3. ASSUME NEW m \in (i + 1)..k, m # j PROVE ~Credential(h[m])
  <2>1. m \in 1..k
    BY <1>1
  <2>2. h[m] = g[m]
    BY <2>1
  <2> QED
    BY <1>1, <1>3, <2>2
<1> QED
  BY <1>1, <1>2, <1>3 DEF Granted

\* What was granted up to a line does not depend on the lines after it.
LEMMA GrantedBefore ==
  ASSUME NEW h \in Seq(Commands), NEW line \in Commands, NEW name, NEW word,
         NEW k \in 0..Len(h)
  PROVE  Granted(Append(h, line), k, name, word) <=> Granted(h, k, name, word)
<1>1. \A i \in 1..k : Append(h, line)[i] = h[i]
  BY OneMore
<1>2. PICK g : g = Append(h, line)
  OBVIOUS
<1>3. \A i \in 1..k : g[i] = h[i]
  BY <1>1, <1>2
<1>4. k \in Nat
  BY OneMore
<1>5. Granted(g, k, name, word) => Granted(h, k, name, word)
  BY <1>3, <1>4, SameLinesGrant
<1>6. Granted(h, k, name, word) => Granted(g, k, name, word)
  BY <1>3, <1>4, SameLinesGrant
<1> QED
  BY <1>2, <1>5, <1>6

\* A line that is no credential grants and withdraws nothing.
LEMMA OtherLineGrants ==
  ASSUME NEW h \in Seq(Commands), NEW line \in Commands, NEW name, NEW word,
         ~Credential(line)
  PROVE  /\ Granted(Append(h, line), Len(h) + 1, name, word) <=> Granted(h, Len(h), name, word)
         /\ LastNamed(Append(h, line), name) <=> LastNamed(h, name)
<1> DEFINE g == Append(h, line)
           n == Len(h)
<1>1. /\ n \in Nat /\ Len(g) = n + 1 /\ g[n + 1] = line
      /\ \A i \in 1..n : g[i] = h[i]
  BY OneMore
<1> HIDE DEF g, n
<1>2. ~Is(g[n + 1], "USERNAME", name) /\ ~Is(g[n + 1], "PASSWORD", word) /\ ~Credential(g[n + 1])
  BY <1>1 DEF Is, Credential
<1>3. Granted(g, n + 1, name, word) <=> Granted(g, n, name, word)
  <2>1. ASSUME Granted(g, n + 1, name, word) PROVE Granted(g, n, name, word)
    <3>1. PICK i, j \in 1..(n + 1) :
            /\ i < j /\ Is(g[i], "USERNAME", name) /\ Is(g[j], "PASSWORD", word)
            /\ \A m \in (i + 1)..(n + 1) : m # j => ~Credential(g[m])
      BY <2>1 DEF Granted
    <3>2. i \in 1..n /\ j \in 1..n
      BY <1>1, <1>2, <3>1
    <3>3. \A m \in (i + 1)..n : m \in (i + 1)..(n + 1)
      BY <1>1, <3>2
    <3> QED
      BY <3>1, <3>2, <3>3 DEF Granted
  <2>2. ASSUME Granted(g, n, name, word) PROVE Granted(g, n + 1, name, word)
    <3>1. PICK i, j \in 1..n :
            /\ i < j /\ Is(g[i], "USERNAME", name) /\ Is(g[j], "PASSWORD", word)
            /\ \A m \in (i + 1)..n : m # j => ~Credential(g[m])
      BY <2>2 DEF Granted
    <3>2. i \in 1..(n + 1) /\ j \in 1..(n + 1)
      BY <1>1, <3>1
    <3>3. \A m \in (i + 1)..(n + 1) : m \in (i + 1)..n \/ m = n + 1
      BY <1>1, <3>1
    <3>4. \A m \in (i + 1)..(n + 1) : m # j => ~Credential(g[m])
      BY <1>2, <3>1, <3>3
    <3> QED
      BY <3>1, <3>2, <3>4 DEF Granted
  <2> QED
    BY <2>1, <2>2
<1>4. Granted(g, n, name, word) <=> Granted(h, n, name, word)
  BY <1>1, GrantedBefore DEF g, n
<1>5. LastNamed(g, name) <=> LastNamed(h, name)
  BY <1>1, <1>2 DEF LastNamed, n
<1> QED
  BY <1>3, <1>4, <1>5 DEF g, n

\* USERNAME and LOGOUT withdraw everything; only USERNAME leaves a name.
LEMMA NameLineGrants ==
  ASSUME NEW h \in Seq(Commands), NEW line \in Commands, NEW name, NEW word,
         line.op \in {"USERNAME", "LOGOUT"}
  PROVE  /\ ~Granted(Append(h, line), Len(h) + 1, name, word)
         /\ LastNamed(Append(h, line), name) <=> Is(line, "USERNAME", name)
<1> DEFINE g == Append(h, line)
           n == Len(h)
<1>1. /\ n \in Nat /\ Len(g) = n + 1 /\ g[n + 1] = line
      /\ \A i \in 1..n : g[i] = h[i]
  BY OneMore
<1> HIDE DEF g, n
<1>2. Credential(g[n + 1]) /\ g[n + 1].op # "PASSWORD"
  BY <1>1 DEF Credential
<1>3. ~Granted(g, n + 1, name, word)
  BY <1>1, <1>2 DEF Granted, Is
<1>4. LastNamed(g, name) <=> Is(g[n + 1], "USERNAME", name)
  BY <1>1, <1>2 DEF LastNamed
<1> QED
  BY <1>1, <1>3, <1>4 DEF g, n

\* PASSWORD grants what its word and the name just before it allow, and uses
\* the name up.
LEMMA PasswordLineGrants ==
  ASSUME NEW h \in Seq(Commands), NEW line \in Commands, NEW name, NEW word,
         line.op = "PASSWORD"
  PROVE  /\ Granted(Append(h, line), Len(h) + 1, name, word)
              <=> line.arg = word /\ LastNamed(h, name)
         /\ ~LastNamed(Append(h, line), name)
<1> DEFINE g == Append(h, line)
           n == Len(h)
<1>1. /\ n \in Nat /\ Len(g) = n + 1 /\ g[n + 1] = line
      /\ \A i \in 1..n : g[i] = h[i]
  BY OneMore
<1> HIDE DEF g, n
<1>2. Credential(g[n + 1]) /\ g[n + 1].op # "USERNAME"
  BY <1>1 DEF Credential
<1>3. ASSUME Granted(g, n + 1, name, word) PROVE line.arg = word /\ LastNamed(h, name)
  <2>1. PICK i \in 1..(n + 1), j \in 1..(n + 1) :
          /\ i < j
          /\ Is(g[i], "USERNAME", name)
          /\ Is(g[j], "PASSWORD", word)
          /\ \A m \in (i + 1)..(n + 1) : m # j => ~Credential(g[m])
    BY <1>3 DEF Granted
  <2>2. i \in 1..n /\ j = n + 1
    BY <1>1, <1>2, <2>1 DEF Is
  <2>3. \A m \in (i + 1)..n : m # j /\ m \in (i + 1)..(n + 1) /\ g[m] = h[m]
    BY <1>1, <2>2
  <2>4. \A m \in (i + 1)..n : ~Credential(h[m])
    BY <2>1, <2>3
  <2> QED
    BY <1>1, <2>1, <2>2, <2>4 DEF Is, LastNamed, n
<1>4. ASSUME line.arg = word, LastNamed(h, name) PROVE Granted(g, n + 1, name, word)
  <2>1. PICK i \in 1..n : /\ Is(h[i], "USERNAME", name)
                          /\ \A m \in (i + 1)..n : ~Credential(h[m])
    BY <1>4 DEF LastNamed, n
  <2>2. Is(g[i], "USERNAME", name) /\ Is(g[n + 1], "PASSWORD", word)
    BY <1>1, <1>4, <2>1 DEF Is
  <2>3. \A m \in (i + 1)..(n + 1) : m # n + 1 => ~Credential(g[m])
    BY <1>1, <2>1
  <2>4. i \in 1..(n + 1) /\ n + 1 \in 1..(n + 1) /\ i < n + 1
    BY <1>1
  <2> QED
    BY <2>2, <2>3, <2>4 DEF Granted
<1>5. ~LastNamed(g, name)
  BY <1>1, <1>2 DEF LastNamed, Is
<1> QED
  BY <1>3, <1>4, <1>5 DEF g, n

\* Nobody is granted both: the last name is one of the two.
LEMMA OneGrantOnly ==
  ASSUME NEW h, NEW k \in Nat
  PROVE  ~(UserGranted(h, k) /\ PrimaryGranted(h, k))
<1> SUFFICES ASSUME UserGranted(h, k), PrimaryGranted(h, k) PROVE FALSE
  OBVIOUS
<1>1. PICK i \in 1..k, j \in 1..k :
        /\ i < j
        /\ Is(h[i], "USERNAME", username_)
        /\ Is(h[j], "PASSWORD", password_)
        /\ \A m \in (i + 1)..k : m # j => ~Credential(h[m])
  BY DEF UserGranted, Granted
<1>2. PICK p \in 1..k, q \in 1..k :
        /\ p < q
        /\ Is(h[p], "USERNAME", primary_username_)
        /\ Is(h[q], "PASSWORD", primary_password_)
        /\ \A m \in (p + 1)..k : m # q => ~Credential(h[m])
  BY DEF PrimaryGranted, Granted
<1>3. Credential(h[i]) /\ Credential(h[p]) /\ i # q /\ p # j
  BY <1>1, <1>2 DEF Is, Credential
<1>4. i = p
  BY <1>1, <1>2, <1>3
<1> QED
  BY <1>1, <1>2, <1>4, ServerAssumption DEF Is

-----------------------------------------------------------------------------
(* Privileges.                                                             *)

\* The session of slot s is what h, the lines handled on its connection, have
\* earned: the two flags, and the name that a PASSWORD would be matched with.
Earned(s, h) ==
  /\ authenticated[s] <=> UserGranted(h, Len(h))
  /\ primary_authenticated[s] <=> PrimaryGranted(h, Len(h))
  /\ username[s] = username_ <=> LastNamed(h, username_)
  /\ primary_username_ # NoName =>
       (username[s] = primary_username_ <=> LastNamed(h, primary_username_))

\* Sessions are earned by the connection in the slot, and one that is in no
\* slot yet has earned nothing.
GrantInv ==
  /\ \A s \in Slots : fd[s] # NoConn => Earned(s, handled[fd[s]])
  /\ \A c \in Conns : sock[c] \in {"new", "waiting"} => handled[c] = <<>>
  /\ \A c \in Conns : \A k \in Nat :
       k \in effective[c] <=> k \in 1..Len(handled[c]) /\ Entitled(handled[c], k)

\* Steps that handle no line and fill no slot keep all that is earned.
LEMMA UntouchedIsEarned ==
  ASSUME ServerInv, GrantInv, UNCHANGED <<sessionVars, histVars>>,
         \A s \in Slots : fd'[s] \in {fd[s], NoConn},
         \A c \in Conns : sock'[c] \in {"new", "waiting"} => sock[c] \in {"new", "waiting"}
  PROVE  GrantInv'
<1>1. ASSUME NEW s \in Slots, fd'[s] # NoConn PROVE Earned(s, handled[fd[s]])' /\ fd'[s] = fd[s]
  BY <1>1 DEF GrantInv, Earned
<1>2. \A c \in Conns : sock'[c] \in {"new", "waiting"} => handled'[c] = <<>>
  BY DEF GrantInv
<1>3. \A c \in Conns : \A k \in Nat :
        k \in effective'[c] <=> k \in 1..Len(handled'[c]) /\ Entitled(handled'[c], k)
  BY DEF GrantInv
<1> QED
  BY <1>1, <1>2, <1>3 DEF GrantInv

\* A connection that is accepted starts without a name and without a grant.
LEMMA AcceptedHasNothing ==
  ASSUME ServerInv, GrantInv, Accept
  PROVE  GrantInv'
<1>1. PICK s \in Slots : s = First(FreeSlots)
  BY FirstIsIn DEF Accept, FreeSlots
<1>2. PICK c \in Conns : c = Head(backlog) /\ sock[c] = "waiting"
  BY QueueShrinks DEF Accept, ServerInv, LoopInv
<1>3. /\ sock' = [sock EXCEPT ![c] = "open"]
      /\ fd' = [fd EXCEPT ![s] = c]
      /\ authenticated' = [authenticated EXCEPT ![s] = FALSE]
      /\ primary_authenticated' = [primary_authenticated EXCEPT ![s] = FALSE]
      /\ username' = [username EXCEPT ![s] = NoName]
      /\ UNCHANGED histVars
  BY <1>1, <1>2 DEF Accept
<1>4. handled[c] = <<>> /\ Len(handled[c]) = 0
  BY <1>2 DEF GrantInv
<1>5. Earned(s, handled[fd[s]])'
  <2>1. /\ ~authenticated'[s] /\ ~primary_authenticated'[s] /\ username'[s] = NoName
        /\ fd'[s] = c /\ handled'[fd'[s]] = handled[c]
    BY <1>1, <1>3 DEF ServerInv, TypeOK
  <2>2. \A name : ~LastNamed(handled[c], name)
    BY <1>4 DEF LastNamed
  <2>3. ~UserGranted(handled[c], Len(handled[c])) /\ ~PrimaryGranted(handled[c], Len(handled[c]))
    BY <1>4 DEF UserGranted, PrimaryGranted, Granted
  <2>4. username_ # NoName
    BY ServerAssumption
  <2> QED
    BY <2>1, <2>2, <2>3, <2>4 DEF Earned
<1>6. ASSUME NEW t \in Slots, t # s, fd'[t] # NoConn PROVE Earned(t, handled[fd[t]])'
  <2>1. fd'[t] = fd[t] /\ Earned(t, handled[fd[t]])
    BY <1>1, <1>3, <1>6 DEF GrantInv, ServerInv, TypeOK
  <2>2. /\ authenticated'[t] = authenticated[t]
        /\ primary_authenticated'[t] = primary_authenticated[t]
        /\ username'[t] = username[t]
        /\ handled' = handled
    BY <1>1, <1>3, <1>6 DEF ServerInv, TypeOK
  <2> QED
    BY <2>1, <2>2 DEF Earned
<1>7. \A d \in Conns : sock'[d] \in {"new", "waiting"} => handled'[d] = <<>>
  BY <1>2, <1>3 DEF GrantInv, ServerInv, TypeOK
<1>8. \A d \in Conns : \A k \in Nat :
        k \in effective'[d] <=> k \in 1..Len(handled'[d]) /\ Entitled(handled'[d], k)
  BY <1>3 DEF GrantInv
<1>9. \A t \in Slots : fd'[t] # NoConn => Earned(t, handled[fd[t]])'
  BY <1>5, <1>6 DEF Earned
<1> QED
  BY <1>7, <1>8, <1>9 DEF GrantInv

\* handle_nut_command_ sets the session of the slot to what the lines of its
\* connection, the new one included, have earned.
LEMMA LineEarns ==
  ASSUME ServerInv, NEW line \in Commands, NEW s \in Slots, NEW h \in Seq(Commands),
         s = cur, Earned(s, h),
         \/ Username(line) \/ Password(line) \/ Logout(line)
         \/ Fsd(line) \/ Instcmd(line) \/ Status(line) \/ Other(line)
  PROVE  Earned(s, Append(h, line))'
<1> DEFINE g == Append(h, line)
<1>1. /\ s \in DOMAIN authenticated /\ s \in DOMAIN primary_authenticated
      /\ s \in DOMAIN username
      /\ Len(g) = Len(h) + 1
      /\ username_ # NoName
  BY OneMore, ServerAssumption DEF ServerInv, TypeOK
<1> HIDE DEF g
<1>2. CASE Username(line) \/ Logout(line)
  <2>1. line.op \in {"USERNAME", "LOGOUT"}
    BY <1>2 DEF Username, Logout
  <2>2. ~UserGranted(g, Len(g)) /\ ~PrimaryGranted(g, Len(g))
    BY <1>1, <2>1, NameLineGrants DEF UserGranted, PrimaryGranted, g
  <2>3. \A name : LastNamed(g, name) <=> Is(line, "USERNAME", name)
    BY <2>1, NameLineGrants DEF g
  <2>4. ~authenticated'[s] /\ ~primary_authenticated'[s]
    BY <1>1, <1>2 DEF Username, Logout, SetSession
  <2>5. username'[s] = IF line.op = "USERNAME" THEN line.arg ELSE NoName
    BY <1>1, <1>2 DEF Username, Logout, SetSession
  <2>6. \A name : name # NoName => (username'[s] = name <=> LastNamed(g, name))
    BY <2>1, <2>3, <2>5 DEF Is
  <2> QED
    BY <1>1, <2>2, <2>4, <2>6 DEF Earned, g
<1>3. CASE Password(line)
  <2>1. line.op = "PASSWORD"
    BY <1>3 DEF Password
  <2>2. /\ UserGranted(g, Len(g)) <=> line.arg = password_ /\ LastNamed(h, username_)
        /\ PrimaryGranted(g, Len(g)) <=> /\ primary_username_ # NoName
                                         /\ line.arg = primary_password_
                                         /\ LastNamed(h, primary_username_)
    BY <1>1, <2>1, PasswordLineGrants DEF UserGranted, PrimaryGranted, g
  <2>3. \A name : ~LastNamed(g, name)
    BY <2>1, PasswordLineGrants DEF g
  <2>4. /\ authenticated'[s] <=> username[s] = username_ /\ line.arg = password_
        /\ primary_authenticated'[s] <=> /\ primary_username_ # NoName
                                         /\ username[s] = primary_username_
                                         /\ line.arg = primary_password_
        /\ username'[s] = NoName
    BY <1>1, <1>3, Zenon DEF Password, SetSession
  <2> QED
    BY <1>1, <2>2, <2>3, <2>4 DEF Earned, g
<1>4. CASE Fsd(line) \/ Instcmd(line) \/ Status(line) \/ Other(line)
  <2>1. ~Credential(line)
    BY <1>4 DEF Fsd, Instcmd, Status, Other, Credential
  <2>2. \A name, word : /\ Granted(g, Len(g), name, word) <=> Granted(h, Len(h), name, word)
                        /\ LastNamed(g, name) <=> LastNamed(h, name)
    BY <1>1, <2>1, OtherLineGrants DEF g
  <2>3. UNCHANGED sessionVars
    BY <1>4 DEF Fsd, Instcmd, Status, Other
  <2>4. /\ UserGranted(g, Len(g)) <=> UserGranted(h, Len(h))
        /\ PrimaryGranted(g, Len(g)) <=> PrimaryGranted(h, Len(h))
    BY <2>2 DEF UserGranted, PrimaryGranted
  <2> QED
    BY <2>2, <2>3, <2>4 DEF Earned, g
<1> QED
  BY <1>2, <1>3, <1>4

\* Only FSD and INSTCMD lines can take effect, and they do exactly when the
\* session entitles them.
LEMMA LineTakesEffect ==
  ASSUME ServerInv, NEW line \in Commands, NEW s \in Slots, NEW c \in Conns,
         NEW h \in Seq(Commands), s = cur, c = fd[s], h = handled[c], Earned(s, h),
         \/ Username(line) \/ Password(line) \/ Logout(line)
         \/ Fsd(line) \/ Instcmd(line) \/ Status(line) \/ Other(line)
  PROVE  effective' = IF Entitled(Append(h, line), Len(h) + 1)
                        THEN [effective EXCEPT ![c] = @ \cup {Len(h) + 1}] ELSE effective
<1> DEFINE g == Append(h, line)
           entitled == \/ Is(line, "INSTCMD", "ups") /\ UserGranted(h, Len(h))
                       \/ Is(line, "FSD", "ups") /\ PrimaryGranted(h, Len(h))
<1>1. Entitled(g, Len(h) + 1) <=> entitled
  <2>1. g[Len(h) + 1] = line /\ (Len(h) + 1) - 1 = Len(h) /\ Len(h) \in 0..Len(h)
    BY OneMore
  <2>2. \A name, word : Granted(g, Len(h), name, word) <=> Granted(h, Len(h), name, word)
    BY <2>1, GrantedBefore
  <2>3. /\ UserGranted(g, Len(h)) <=> UserGranted(h, Len(h))
        /\ PrimaryGranted(g, Len(h)) <=> PrimaryGranted(h, Len(h))
    BY <2>2 DEF UserGranted, PrimaryGranted
  <2> HIDE DEF g
  <2> QED
    BY <2>1, <2>3 DEF Entitled
<1>2. TakesEffect => effective' = [effective EXCEPT ![c] = @ \cup {Len(h) + 1}]
  BY DEF TakesEffect, ThisLine
<1>3. NoEffect => effective' = effective
  BY DEF NoEffect
<1> HIDE DEF g
<1>4. CASE Username(line) \/ Password(line) \/ Logout(line) \/ Status(line) \/ Other(line)
  <2>1. ~entitled
    BY <1>4 DEF Username, Password, Logout, Status, Other, Is
  <2>2. effective' = effective
    BY <1>3, <1>4 DEF Username, Password, Logout, Status, Other
  <2> QED
    BY <1>1, <2>1, <2>2 DEF g
<1>5. CASE Fsd(line)
  <2>1. entitled <=> primary_authenticated[cur] /\ line.arg = "ups"
    BY <1>5 DEF Fsd, Is, Earned
  <2>2. effective' = IF primary_authenticated[cur] /\ line.arg = "ups"
                       THEN [effective EXCEPT ![c] = @ \cup {Len(h) + 1}] ELSE effective
    BY <1>2, <1>3, <1>5, Zenon DEF Fsd
  <2> QED
    BY <1>1, <2>1, <2>2, Zenon DEF g
<1>6. CASE Instcmd(line)
  <2>1. entitled <=> authenticated[cur] /\ line.arg = "ups"
    BY <1>6 DEF Instcmd, Is, Earned
  <2>2. effective' = IF authenticated[cur] /\ line.arg = "ups"
                       THEN [effective EXCEPT ![c] = @ \cup {Len(h) + 1}] ELSE effective
    BY <1>2, <1>3, <1>6, Zenon DEF Instcmd
  <2> QED
    BY <1>1, <2>1, <2>2, Zenon DEF g
<1> QED
  BY <1>4, <1>5, <1>6

\* Handling a line keeps what the other connections have, and what was
\* entitled before it.
LEMMA HandledKeepsGrants ==
  ASSUME ServerInv, GrantInv, handle_nut_command_
  PROVE  GrantInv'
<1>1. PICK line \in Commands :
        \/ Username(line) \/ Password(line) \/ Logout(line)
        \/ Fsd(line) \/ Instcmd(line) \/ Status(line) \/ Other(line)
  BY DEF handle_nut_command_
<1>2. PICK s \in Slots : s = cur
  BY DEF ServerInv, TypeOK
<1>3. Handle(line)
  BY <1>1 DEF Username, Password, Logout, Fsd, Instcmd, Status, Other
<1>4. PICK c \in Conns : c = fd[s] /\ sock[c] = "open" /\ c # NoConn
  BY <1>2, <1>3, ConnsAssumption DEF Handle, ServerInv, LoopInv, TypeOK, OneSlotPerSocket
<1>5. PICK h \in Seq(Commands) : h = handled[c]
  BY DEF ServerInv, TypeOK
<1>6. Earned(s, h)
  BY <1>4, <1>5 DEF GrantInv
<1> DEFINE g == Append(h, line)
<1>7. /\ handled' = [handled EXCEPT ![c] = g]
      /\ UNCHANGED <<fd, sock>>
  BY <1>2, <1>3, <1>4, <1>5 DEF Handle
<1>8. handled'[c] = g /\ \A d \in Conns \ {c} : handled'[d] = handled[d]
  BY <1>7 DEF ServerInv, TypeOK
<1>9. Earned(s, g)'
  BY <1>1, <1>2, <1>6, LineEarns
<1>10. effective' = IF Entitled(g, Len(h) + 1)
                      THEN [effective EXCEPT ![c] = @ \cup {Len(h) + 1}] ELSE effective
  BY <1>1, <1>2, <1>4, <1>5, <1>6, LineTakesEffect
<1>11. Len(h) \in Nat /\ Len(g) = Len(h) + 1 /\ \A k \in 1..Len(h) : g[k] = h[k]
  BY OneMore
<1>12. \A k \in 1..Len(h) : Entitled(g, k) <=> Entitled(h, k)
  <2> TAKE k \in 1..Len(h)
  <2>1. k - 1 \in 0..Len(h)
    BY <1>11
  <2>2. \A name, word : Granted(g, k - 1, name, word) <=> Granted(h, k - 1, name, word)
    BY <2>1, GrantedBefore
  <2> QED
    BY <1>11, <2>2 DEF Entitled, UserGranted, PrimaryGranted
<1> HIDE DEF g
<1>13. ASSUME NEW t \in Slots, fd'[t] # NoConn PROVE Earned(t, handled[fd[t]])'
  <2>1. CASE t = s
    BY <1>4, <1>7, <1>8, <1>9, <2>1 DEF Earned
  <2>2. CASE t # s
    <3>1. fd[t] \in Conns \ {c} /\ fd'[t] = fd[t] /\ Earned(t, handled[fd[t]])
      BY <1>4, <1>7, <1>13, <2>2 DEF ServerInv, TypeOK, OneSlotPerSocket, GrantInv
    <3>2. handled'[fd'[t]] = handled[fd[t]]
      BY <1>8, <3>1
    <3>3. /\ authenticated'[t] = authenticated[t]
          /\ primary_authenticated'[t] = primary_authenticated[t]
          /\ username'[t] = username[t]
      BY <1>1, <1>2, <2>2 DEF Username, Password, Logout, Fsd, Instcmd, Status, Other,
         SetSession, ServerInv, TypeOK
    <3> QED
      BY <3>1, <3>2, <3>3 DEF Earned
  <2> QED
    BY <2>1, <2>2
<1>14. \A d \in Conns : sock'[d] \in {"new", "waiting"} => handled'[d] = <<>>
  BY <1>4, <1>7, <1>8 DEF GrantInv
<1>15. ASSUME NEW d \in Conns, NEW k \in Nat
       PROVE  k \in effective'[d] <=> k \in 1..Len(handled'[d]) /\ Entitled(handled'[d], k)
  <2>1. CASE d # c
    <3>1. effective'[d] = effective[d] /\ handled'[d] = handled[d]
      BY <1>8, <1>10, <2>1 DEF ServerInv, TypeOK
    <3> QED
      BY <3>1 DEF GrantInv
  <2>2. CASE d = c
    <3>1. effective'[c] = IF Entitled(g, Len(h) + 1) THEN effective[c] \cup {Len(h) + 1}
                                                     ELSE effective[c]
      BY <1>10 DEF ServerInv, TypeOK
    <3>2. k \in effective[c] <=> k \in 1..Len(h) /\ Entitled(h, k)
      BY <1>5 DEF GrantInv
    <3>3. CASE k \in 1..Len(h)
      BY <1>8, <1>11, <1>12, <2>2, <3>1, <3>2, <3>3
    <3>4. CASE k \notin 1..Len(h)
      BY <1>8, <1>11, <2>2, <3>1, <3>2, <3>4
    <3> QED
      BY <3>3, <3>4
  <2> QED
    BY <2>1, <2>2
<1>16. \A t \in Slots : fd'[t] # NoConn => Earned(t, handled[fd[t]])'
  BY <1>13 DEF Earned
<1> QED
  BY <1>14, <1>15, <1>16 DEF GrantInv

\* Sessions and effects follow from the lines alone: the inductive invariant.
THEOREM GrantInvariant == Spec => []GrantInv
<1>1. Init => GrantInv
  BY EmptySeq DEF Init, GrantInv
<1>2. ServerInv /\ GrantInv /\ [Next]_vars => GrantInv'
  <2> SUFFICES ASSUME ServerInv, GrantInv, [Next]_vars PROVE GrantInv'
    OBVIOUS
  <2>1. CASE Environment
    <3>1. UNCHANGED <<fd, sessionVars, histVars>>
      BY <2>1 DEF Environment, Connect, SendLine, PeerLeaves, StopsReading, ReadsAgain
    <3>2. \A c \in Conns : sock'[c] \in {"new", "waiting"} => sock[c] \in {"new", "waiting"}
      BY <2>1 DEF Environment, Connect, SendLine, PeerLeaves, StopsReading, ReadsAgain,
         ServerInv, TypeOK
    <3> QED
      BY <3>1, <3>2, UntouchedIsEarned
  <2>2. CASE \/ \E opened \in BOOLEAN : OpenListener(opened)
             \/ Select \/ SkipBlank \/ send_line_ \/ NoMoreLines
             \/ UNCHANGED vars
    <3>1. UNCHANGED <<fd, sessionVars, histVars, sock>>
      BY <2>2 DEF OpenListener, Select, SkipBlank, send_line_, NoMoreLines, vars
    <3> QED
      BY <3>1, UntouchedIsEarned
  <2>3. CASE Drop \/ AcceptFails
    <3>1. /\ UNCHANGED <<fd, sessionVars, histVars>>
          /\ sock' = [sock EXCEPT ![Head(backlog)] = "closed"]
      BY <2>3 DEF Drop, AcceptFails
    <3>2. \A c \in Conns : sock'[c] \in {"new", "waiting"} => sock[c] \in {"new", "waiting"}
      BY <3>1 DEF ServerInv, TypeOK
    <3> QED
      BY <3>1, <3>2, UntouchedIsEarned
  <2>4. CASE Receive
    <3>1. UNCHANGED <<fd, sessionVars, histVars, sock>>
      BY <2>4 DEF Receive
    <3> QED
      BY <3>1, UntouchedIsEarned
  <2>5. CASE Disconnect
    <3>1. /\ UNCHANGED <<sessionVars, histVars>>
          /\ fd' = [fd EXCEPT ![First(todo)] = NoConn]
          /\ sock' = [sock EXCEPT ![fd[First(todo)]] = "closed"]
      BY <2>5 DEF Disconnect
    <3>2. \A c \in Conns : sock'[c] \in {"new", "waiting"} => sock[c] \in {"new", "waiting"}
      BY <3>1 DEF ServerInv, TypeOK
    <3>3. \A s \in Slots : fd'[s] \in {fd[s], NoConn}
      BY <3>1 DEF ServerInv, TypeOK
    <3> QED
      BY <3>1, <3>2, <3>3, UntouchedIsEarned
  <2>6. CASE Accept
    BY <2>6, AcceptedHasNothing
  <2>7. CASE handle_nut_command_
    BY <2>7, HandledKeepsGrants
  <2> QED
    BY <2>1, <2>2, <2>3, <2>4, <2>5, <2>6, <2>7 DEF Next, ServerStep
<1> QED
  BY <1>1, <1>2, ServerInvariant, PTL DEF Spec

\* The flags of a slot are those its present connection has earned by its own
\* lines, for any users, slots, connections and lines, and no connection is
\* both the user and the primary.
THEOREM FlagsFollowLines == Spec => []FlagsAreEarned
<1>1. ServerInv /\ GrantInv => FlagsAreEarned
  <2> SUFFICES ASSUME ServerInv, GrantInv, NEW s \in Slots, fd[s] # NoConn
               PROVE  LET h == handled[fd[s]] IN
                        /\ authenticated[s] = UserGranted(h, Len(h))
                        /\ primary_authenticated[s] = PrimaryGranted(h, Len(h))
                        /\ ~(authenticated[s] /\ primary_authenticated[s])
    BY Zenon DEF FlagsAreEarned
  <2> DEFINE h == handled[fd[s]]
  <2>1. h \in Seq(Commands) /\ h = handled[fd[s]]
    BY DEF ServerInv, TypeOK
  <2> HIDE DEF h
  <2>2. /\ authenticated[s] \in BOOLEAN /\ primary_authenticated[s] \in BOOLEAN
        /\ authenticated[s] <=> UserGranted(h, Len(h))
        /\ primary_authenticated[s] <=> PrimaryGranted(h, Len(h))
    BY <2>1 DEF GrantInv, Earned, ServerInv, TypeOK
  <2>3. UserGranted(h, Len(h)) \in BOOLEAN /\ PrimaryGranted(h, Len(h)) \in BOOLEAN
    BY Zenon DEF UserGranted, PrimaryGranted, Granted
  <2>4. ~(authenticated[s] /\ primary_authenticated[s])
    BY <2>1, <2>2, OneGrantOnly, LenProperties
  <2>5. /\ authenticated[s] = UserGranted(h, Len(h))
        /\ primary_authenticated[s] = PrimaryGranted(h, Len(h))
    BY <2>2, <2>3, Zenon
  <2> QED
    BY <2>4, <2>5, Zenon DEF h
<1> QED
  BY <1>1, ServerInvariant, GrantInvariant, PTL

-----------------------------------------------------------------------------
(* Framing.  A connection's stream is what its slot holds of it and what   *)
(* is under way.  It goes on, two atoms a line, with the first line that   *)
(* was not handled or skipped yet, and nothing is missing before the end   *)
(* as long as the peer is there.                                           *)

\* The first n lines were handled, all but the empty ones.
Got(lines, h, n) ==
  /\ n \in 0..Len(lines) /\ Len(h) = Spoken(lines, n)
  /\ \A i \in 1..n : lines[i].op # "BLANK" => h[Spoken(lines, i)] = lines[i]

\* The stream has the lines after the first n.
Flows(lines, n, state, stream) ==
  /\ Len(stream) <= 2 * (Len(lines) - n)
  /\ state = "up" => Len(stream) = 2 * (Len(lines) - n)
  /\ \A m \in 1..(Len(lines) - n) :
       /\ 2 * m - 1 <= Len(stream) => stream[2 * m - 1] = <<lines[n + m], "head">>
       /\ 2 * m <= Len(stream) => stream[2 * m] = <<lines[n + m], "tail">>

Caught(lines, h, state, stream) ==
  \E n \in Nat : Got(lines, h, n) /\ Flows(lines, n, state, stream)

FramingInv ==
  /\ \A c \in Conns : \E n \in Nat : Got(sent[c], handled[c], n)
  /\ \A c \in Conns : sock[c] \in {"new", "waiting"}
                        => Caught(sent[c], handled[c], peer[c], inflight[c])
  /\ \A s \in Slots : fd[s] # NoConn
                        => Caught(sent[fd[s]], handled[fd[s]], peer[fd[s]],
                                  pending[s] \o inflight[fd[s]])

\* One more line is one more to handle, unless it is empty.
LEMMA SpokenStep ==
  ASSUME NEW lines, NEW n \in Nat
  PROVE  /\ Spoken(lines, n) \in Nat /\ Spoken(lines, 0) = 0
         /\ Spoken(lines, n + 1) = IF lines[n + 1].op = "BLANK" THEN Spoken(lines, n)
                                   ELSE Spoken(lines, n) + 1
<1> DEFINE T(m) == {i \in 1..m : lines[i].op # "BLANK"}
<1>1. \A m \in Nat : IsFiniteSet(T(m)) /\ Cardinality(T(m)) \in Nat
  <2> TAKE m \in Nat
  <2>1. IsFiniteSet(1..m) /\ T(m) \in SUBSET (1..m)
    BY FS_Interval
  <2> HIDE DEF T
  <2> QED
    BY <2>1, FS_Subset, FS_CardinalityType
<1>2. T(0) = {}
  OBVIOUS
<1>3. Spoken(lines, 0) = 0 /\ Spoken(lines, n) \in Nat
  <2>1. Spoken(lines, 0) = Cardinality({})
    BY <1>2 DEF Spoken
  <2>2. Spoken(lines, n) = Cardinality(T(n))
    BY DEF Spoken
  <2> HIDE DEF T
  <2> QED
    BY <1>1, <2>1, <2>2, FS_EmptySet
<1>4. CASE lines[n + 1].op = "BLANK"
  <2>1. T(n + 1) = T(n)
    BY <1>4
  <2>2. Spoken(lines, n + 1) = Spoken(lines, n)
    BY <2>1 DEF Spoken
  <2> QED
    BY <1>3, <1>4, <2>2
<1>5. CASE lines[n + 1].op # "BLANK"
  <2>1. T(n + 1) = T(n) \cup {n + 1} /\ n + 1 \notin T(n)
    BY <1>5
  <2>2. Spoken(lines, n + 1) = Cardinality(T(n + 1)) /\ Spoken(lines, n) = Cardinality(T(n))
    BY DEF Spoken
  <2> HIDE DEF T
  <2>3. Cardinality(T(n) \cup {n + 1}) = Cardinality(T(n)) + 1
    BY <1>1, <2>1, FS_AddElement
  <2> QED
    BY <1>3, <1>5, <2>1, <2>2, <2>3
<1> QED
  BY <1>4, <1>5

\* More lines hold at least as many commands.
LEMMA SpokenOrder ==
  ASSUME NEW lines, NEW m \in Nat, NEW n \in Nat, m <= n
  PROVE  Spoken(lines, m) <= Spoken(lines, n)
<1>1. PICK T : T = {i \in 1..n : lines[i].op # "BLANK"}
  OBVIOUS
<1>2. PICK S : S = {i \in 1..m : lines[i].op # "BLANK"}
  OBVIOUS
<1>3. S \in SUBSET T /\ T \in SUBSET (1..n)
  BY <1>1, <1>2
<1>4. IsFiniteSet(T)
  <2>1. IsFiniteSet(1..n)
    BY FS_Interval
  <2> QED
    BY <1>3, <2>1, FS_Subset
<1>5. Cardinality(S) <= Cardinality(T)
  BY <1>3, <1>4, FS_Subset
<1> QED
  BY <1>1, <1>2, <1>5 DEF Spoken

\* What was handled up to some line is in order.
LEMMA GotIsInOrder ==
  ASSUME NEW lines \in Seq(Lines), NEW h, NEW n \in Nat, Got(lines, h, n)
  PROVE  /\ Len(h) <= Spoken(lines, Len(lines))
         /\ \A i \in 1..Len(lines) :
              lines[i].op # "BLANK" /\ Spoken(lines, i) <= Len(h)
                => h[Spoken(lines, i)] = lines[i]
<1>1. Len(lines) \in Nat /\ n <= Len(lines) /\ Len(h) = Spoken(lines, n)
  BY DEF Got
<1>2. Len(h) <= Spoken(lines, Len(lines))
  BY <1>1, SpokenOrder
<1>3. ASSUME NEW i \in 1..Len(lines), lines[i].op # "BLANK", Spoken(lines, i) <= Len(h)
      PROVE  h[Spoken(lines, i)] = lines[i]
  <2>1. CASE i <= n
    <3>1. i \in 1..n
      BY <2>1
    <3> QED
      BY <1>3, <3>1 DEF Got
  <2>2. CASE ~(i <= n)
    <3>1. PICK j \in Nat : i = j + 1 /\ n <= j
      <4>1. i - 1 \in Nat /\ i = (i - 1) + 1 /\ n <= i - 1
        BY <2>2
      <4> QED
        BY <4>1
    <3>2. Spoken(lines, i) = Spoken(lines, j) + 1 /\ Spoken(lines, j) \in Nat
      BY <1>3, <3>1, SpokenStep
    <3>3. Spoken(lines, n) <= Spoken(lines, j) /\ Spoken(lines, n) \in Nat
      BY <3>1, SpokenOrder, SpokenStep
    <3>4. FALSE
      BY <1>1, <1>3, <3>2, <3>3
    <3> QED
      BY <3>4
  <2> QED
    BY <2>1, <2>2
<1> QED
  BY <1>2, <1>3

\* Another line changes nothing for those before it.
LEMMA GotWithMore ==
  ASSUME NEW lines \in Seq(Lines), NEW line \in Lines, NEW h, NEW n \in Nat, Got(lines, h, n)
  PROVE  Got(Append(lines, line), h, n)
<1>1. PICK more : more = Append(lines, line)
  OBVIOUS
<1>2. /\ Len(lines) \in Nat /\ Len(more) = Len(lines) + 1
      /\ \A i \in 1..Len(lines) : more[i] = lines[i]
  BY <1>1, AppendProperties
<1>3. n <= Len(lines) /\ n \in 0..Len(more)
  BY <1>2 DEF Got
<1>4. ASSUME NEW i \in 0..n PROVE Spoken(more, i) = Spoken(lines, i)
  <2>1. \A j \in 1..i : more[j] = lines[j]
    BY <1>2, <1>3
  <2>2. {j \in 1..i : more[j].op # "BLANK"} = {j \in 1..i : lines[j].op # "BLANK"}
    BY <2>1
  <2> QED
    BY <2>2 DEF Spoken
<1>5. Len(h) = Spoken(more, n)
  BY <1>4 DEF Got
<1>6. ASSUME NEW i \in 1..n, more[i].op # "BLANK" PROVE h[Spoken(more, i)] = more[i]
  <2>1. i \in 0..n /\ i \in 1..Len(lines)
    BY <1>2, <1>3
  <2> QED
    BY <1>2, <1>4, <1>6, <2>1 DEF Got
<1> QED
  BY <1>1, <1>3, <1>5, <1>6 DEF Got

\* A line that is sent goes to the end of the stream.
LEMMA FlowsWithMore ==
  ASSUME NEW lines \in Seq(Lines), NEW line \in Lines, NEW n \in 0..Len(lines),
         NEW stream \in Seq(Atoms), Flows(lines, n, "up", stream),
         NEW longer \in Seq(Atoms), Len(longer) = Len(stream) + 2,
         \A k \in 1..Len(stream) : longer[k] = stream[k],
         longer[Len(stream) + 1] = <<line, "head">>,
         longer[Len(stream) + 2] = <<line, "tail">>
  PROVE  Flows(Append(lines, line), n, "up", longer)
<1>1. PICK more : more = Append(lines, line)
  OBVIOUS
<1>2. /\ Len(lines) \in Nat /\ Len(more) = Len(lines) + 1
      /\ \A i \in 1..Len(lines) : more[i] = lines[i]
      /\ more[Len(lines) + 1] = line
  BY <1>1, AppendProperties
<1>3. Len(stream) = 2 * (Len(lines) - n) /\ Len(longer) = 2 * (Len(more) - n)
  <2>1. Len(stream) = 2 * (Len(lines) - n)
    BY DEF Flows
  <2> QED
    BY <1>2, <2>1
<1>4. ASSUME NEW m \in 1..(Len(more) - n)
      PROVE  /\ longer[2 * m - 1] = <<more[n + m], "head">>
             /\ longer[2 * m] = <<more[n + m], "tail">>
  <2>1. CASE m = Len(more) - n
    <3>1. 2 * m - 1 = Len(stream) + 1 /\ 2 * m = Len(stream) + 2 /\ n + m = Len(lines) + 1
      BY <1>2, <1>3, <2>1
    <3> QED
      BY <1>2, <3>1
  <2>2. CASE m # Len(more) - n
    <3>1. /\ m \in 1..(Len(lines) - n) /\ n + m \in 1..Len(lines)
          /\ 2 * m - 1 \in 1..Len(stream) /\ 2 * m \in 1..Len(stream)
      <4>1. m \in 1..(Len(lines) - n)
        BY <1>2, <2>2
      <4>2. m \in Nat /\ 1 <= m /\ m <= Len(lines) - n /\ n \in Nat
        BY <1>2, <4>1
      <4>3. Len(stream) \in Nat
        OBVIOUS
      <4> QED
        BY <1>2, <1>3, <4>1, <4>2, <4>3
    <3>2. stream[2 * m - 1] = <<lines[n + m], "head">> /\ stream[2 * m] = <<lines[n + m], "tail">>
      BY <1>3, <3>1 DEF Flows
    <3> QED
      BY <1>2, <3>1, <3>2
  <2> QED
    BY <2>1, <2>2
<1>5. Len(longer) <= 2 * (Len(more) - n)
  BY <1>2, <1>3
<1> QED
  BY <1>1, <1>3, <1>4, <1>5 DEF Flows

\* What is left when the peer goes is the first part.
LEMMA FlowsCut ==
  ASSUME NEW lines \in Seq(Lines), NEW n \in 0..Len(lines), NEW state,
         NEW stream \in Seq(Atoms), Flows(lines, n, state, stream),
         NEW part \in Seq(Atoms), Len(part) <= Len(stream),
         \A k \in 1..Len(part) : part[k] = stream[k]
  PROVE  Flows(lines, n, "gone", part)
<1>1. Len(lines) \in Nat /\ Len(part) \in Nat /\ Len(stream) \in Nat
  OBVIOUS
<1>2. Len(part) <= 2 * (Len(lines) - n)
  BY <1>1 DEF Flows
<1>3. ASSUME NEW m \in 1..(Len(lines) - n)
      PROVE  /\ 2 * m - 1 <= Len(part) => part[2 * m - 1] = <<lines[n + m], "head">>
             /\ 2 * m <= Len(part) => part[2 * m] = <<lines[n + m], "tail">>
  <2>1. 2 * m - 1 <= Len(part) => 2 * m - 1 \in 1..Len(part) /\ 2 * m - 1 <= Len(stream)
    BY <1>1
  <2>2. 2 * m <= Len(part) => 2 * m \in 1..Len(part) /\ 2 * m <= Len(stream)
    BY <1>1
  <2> QED
    BY <2>1, <2>2 DEF Flows
<1> QED
  BY <1>2, <1>3 DEF Flows

\* The first newline of a buffer ends the line that is next, and what follows
\* it goes on with the one after.
LEMMA FirstLineIsNext ==
  ASSUME NEW lines \in Seq(Lines), NEW n \in 0..Len(lines), NEW state,
         NEW p \in Seq(Atoms), NEW f \in Seq(Atoms), HasLine(p),
         Flows(lines, n, state, p \o f)
  PROVE  /\ n + 1 <= Len(lines) /\ LineText(p) = lines[n + 1]
         /\ Flows(lines, n + 1, state, SubSeq(p, LineEnd(p) + 1, Len(p)) \o f)
<1>1. PICK stream : stream = p \o f
  OBVIOUS
<1>2. /\ stream \in Seq(Atoms) /\ Len(stream) = Len(p) + Len(f)
      /\ Len(p) \in Nat /\ Len(f) \in Nat /\ Len(lines) \in Nat
      /\ \A k \in 1..(Len(p) + Len(f)) :
           stream[k] = IF k <= Len(p) THEN p[k] ELSE f[k - Len(p)]
  BY <1>1, ConcatProperties
<1>3. PICK e : e = LineEnd(p)
  OBVIOUS
<1>4. e \in 1..Len(p) /\ p[e][2] = "tail" /\ \A j \in 1..(e - 1) : p[j][2] = "head"
  BY <1>3, LineEnds
<1>5. 1 <= Len(stream) /\ n + 1 <= Len(lines) /\ 1 \in 1..(Len(lines) - n)
  BY <1>1, <1>2, <1>4 DEF Flows
<1>6. stream[1] = <<lines[n + 1], "head">>
        /\ (2 <= Len(stream) => stream[2] = <<lines[n + 1], "tail">>)
  <2>1. 2 * 1 - 1 = 1 /\ 2 * 1 = 2
    OBVIOUS
  <2> QED
    BY <1>1, <1>5, <2>1 DEF Flows
<1>7. p[1] = <<lines[n + 1], "head">>
  BY <1>2, <1>4, <1>6
<1>8. e # 1
  BY <1>4, <1>7
<1>9. 2 <= Len(p) /\ 2 <= Len(stream) /\ p[2] = <<lines[n + 1], "tail">>
  BY <1>2, <1>4, <1>6, <1>8
<1>10. e = 2
  <2>1. ~(2 \in 1..(e - 1))
    BY <1>4, <1>9
  <2> QED
    BY <1>4, <1>8, <2>1
<1>11. LineText(p) = lines[n + 1]
  BY <1>3, <1>7, <1>9, <1>10 DEF LineText
<1>12. PICK q : q = SubSeq(p, 3, Len(p))
  OBVIOUS
<1>13. q \in Seq(Atoms) /\ Len(q) = Len(p) - 2 /\ \A k \in 1..Len(q) : q[k] = p[k + 2]
  <2>1. \A k \in 3..Len(p) : p[k] \in Atoms
    BY <1>2
  <2>2. /\ q \in Seq(Atoms)
        /\ Len(q) = IF 3 <= Len(p) THEN Len(p) - 3 + 1 ELSE 0
        /\ \A k \in 1..(Len(p) - 3 + 1) : q[k] = p[3 + k - 1]
    BY <1>2, <1>12, <2>1, SubSeqProperties
  <2>3. Len(q) = Len(p) - 2
    <3>1. \A k \in Nat : 2 <= k => (IF 3 <= k THEN k - 3 + 1 ELSE 0) = k - 2
      OBVIOUS
    <3>2. 2 <= Len(p) => (IF 3 <= Len(p) THEN Len(p) - 3 + 1 ELSE 0) = Len(p) - 2
      BY <1>2, <3>1, Zenon
    <3> QED
      BY <1>9, <2>2, <3>2, Zenon
  <2>4. \A k \in 1..Len(q) : k \in 1..(Len(p) - 3 + 1) /\ 3 + k - 1 = k + 2
    BY <1>2, <2>3
  <2> QED
    BY <2>2, <2>3, <2>4
<1>14. PICK rest : rest = q \o f
  OBVIOUS
<1>15. /\ rest \in Seq(Atoms) /\ Len(rest) = Len(stream) - 2
       /\ \A k \in 1..Len(rest) : rest[k] = stream[k + 2]
  <2>1. /\ rest \in Seq(Atoms) /\ Len(rest) = Len(q) + Len(f)
        /\ \A k \in 1..(Len(q) + Len(f)) :
             rest[k] = IF k <= Len(q) THEN q[k] ELSE f[k - Len(q)]
    BY <1>13, <1>14, ConcatProperties
  <2>2. Len(rest) = Len(stream) - 2
    BY <1>2, <1>13, <2>1
  <2>3. ASSUME NEW k \in 1..Len(rest) PROVE rest[k] = stream[k + 2]
    <3>1. CASE k <= Len(q)
      BY <1>2, <1>13, <2>1, <3>1
    <3>2. CASE ~(k <= Len(q))
      <4>1. k - Len(q) = (k + 2) - Len(p)
        BY <1>2, <1>13
      <4>2. rest[k] = f[k - Len(q)]
        BY <2>1, <3>2
      <4>3. stream[k + 2] = f[(k + 2) - Len(p)]
        BY <1>2, <1>13, <2>1, <3>2
      <4> QED
        BY <4>1, <4>2, <4>3
    <3> QED
      BY <3>1, <3>2
  <2> QED
    BY <2>1, <2>2, <2>3
<1>16. Flows(lines, n + 1, state, rest)
  <2>1. Len(rest) \in Nat
    BY <1>15
  <2>2. Len(rest) <= 2 * (Len(lines) - (n + 1))
        /\ (state = "up" => Len(rest) = 2 * (Len(lines) - (n + 1)))
    BY <1>1, <1>2, <1>15 DEF Flows
  <2>3. ASSUME NEW m \in 1..(Len(lines) - (n + 1))
        PROVE  /\ 2 * m - 1 <= Len(rest) => rest[2 * m - 1] = <<lines[(n + 1) + m], "head">>
               /\ 2 * m <= Len(rest) => rest[2 * m] = <<lines[(n + 1) + m], "tail">>
    <3>1. m + 1 \in 1..(Len(lines) - n) /\ n + (m + 1) = (n + 1) + m
      BY <1>2
    <3>2. /\ 2 * (m + 1) - 1 <= Len(stream)
               => stream[2 * (m + 1) - 1] = <<lines[(n + 1) + m], "head">>
          /\ 2 * (m + 1) <= Len(stream) => stream[2 * (m + 1)] = <<lines[(n + 1) + m], "tail">>
      BY <1>1, <3>1 DEF Flows
    <3>3. 2 * (m + 1) - 1 = (2 * m - 1) + 2 /\ 2 * (m + 1) = 2 * m + 2
      OBVIOUS
    <3>4. m \in Nat /\ m >= 1 /\ Len(stream) = Len(rest) + 2
      BY <1>2, <1>15, <2>1
    <3>5. 2 * m - 1 <= Len(rest)
            => 2 * m - 1 \in 1..Len(rest) /\ 2 * (m + 1) - 1 <= Len(stream)
      BY <2>1, <3>4
    <3>6. 2 * m <= Len(rest) => 2 * m \in 1..Len(rest) /\ 2 * (m + 1) <= Len(stream)
      BY <2>1, <3>4
    <3> QED
      BY <1>15, <3>2, <3>3, <3>5, <3>6
  <2> QED
    BY <2>2, <2>3 DEF Flows
<1>17. LineEnd(p) + 1 = 3
  BY <1>3, <1>10
<1> QED
  BY <1>5, <1>11, <1>12, <1>14, <1>16, <1>17
\* The next line is empty and skipped.
LEMMA GotBlank ==
  ASSUME NEW lines, NEW h, NEW n \in Nat, Got(lines, h, n), n + 1 <= Len(lines),
         Len(lines) \in Nat, lines[n + 1].op = "BLANK"
  PROVE  Got(lines, h, n + 1)
<1>1. Spoken(lines, n + 1) = Spoken(lines, n)
  BY SpokenStep
<1>2. \A i \in 1..(n + 1) : lines[i].op # "BLANK" => i \in 1..n
  OBVIOUS
<1> QED
  BY <1>1, <1>2 DEF Got

\* The next line is not empty and handled.
LEMMA GotLine ==
  ASSUME NEW lines, NEW h \in Seq(Commands), NEW n \in Nat, Got(lines, h, n),
         n + 1 <= Len(lines), Len(lines) \in Nat, lines[n + 1].op # "BLANK",
         lines[n + 1] \in Commands
  PROVE  Got(lines, Append(h, lines[n + 1]), n + 1)
<1>1. PICK more : more = Append(h, lines[n + 1])
  OBVIOUS
<1>2. /\ Len(h) \in Nat /\ Len(more) = Len(h) + 1 /\ more[Len(h) + 1] = lines[n + 1]
      /\ \A k \in 1..Len(h) : more[k] = h[k]
  BY <1>1, AppendProperties
<1>3. Len(h) = Spoken(lines, n) /\ Spoken(lines, n + 1) = Len(h) + 1
  <2>1. Spoken(lines, n + 1) = Spoken(lines, n) + 1
    BY SpokenStep
  <2> QED
    BY <2>1 DEF Got
<1>4. ASSUME NEW i \in 1..(n + 1), lines[i].op # "BLANK" PROVE more[Spoken(lines, i)] = lines[i]
  <2>1. CASE i = n + 1
    BY <1>2, <1>3, <2>1
  <2>2. CASE i # n + 1
    <3>1. i \in 1..n /\ i \in Nat /\ i <= n
      BY <2>2
    <3>2. PICK j \in Nat : i = j + 1
      <4>1. i - 1 \in Nat /\ i = (i - 1) + 1
        BY <3>1
      <4> QED
        BY <4>1
    <3>3. Spoken(lines, i) = Spoken(lines, j) + 1 /\ Spoken(lines, j) \in Nat
      BY <1>4, <3>2, SpokenStep
    <3>4. Spoken(lines, i) <= Len(h)
      BY <1>3, <3>1, SpokenOrder
    <3>5. Spoken(lines, i) \in 1..Len(h)
      BY <1>2, <3>3, <3>4
    <3>6. h[Spoken(lines, i)] = lines[i]
      BY <1>4, <3>1 DEF Got
    <3> QED
      BY <1>2, <3>5, <3>6
  <2> QED
    BY <2>1, <2>2
<1>5. n + 1 \in 0..Len(lines)
  OBVIOUS
<1> QED
  BY <1>1, <1>2, <1>3, <1>4, <1>5 DEF Got

\* The same three steps for a stream.
LEMMA CaughtWithMore ==
  ASSUME NEW lines \in Seq(Lines), NEW line \in Lines, NEW h, NEW stream \in Seq(Atoms),
         Caught(lines, h, "up", stream)
  PROVE  Caught(Append(lines, line), h, "up",
                stream \o << <<line, "head">>, <<line, "tail">> >>)
<1>1. PICK n \in Nat : Got(lines, h, n) /\ Flows(lines, n, "up", stream)
  BY DEF Caught
<1>2. n \in 0..Len(lines)
  BY <1>1 DEF Got
<1>3. PICK two : two = << <<line, "head">>, <<line, "tail">> >>
  OBVIOUS
<1>4. two \in Seq(Atoms) /\ Len(two) = 2 /\ two[1] = <<line, "head">> /\ two[2] = <<line, "tail">>
  <2>1. <<line, "head">> \in Atoms /\ <<line, "tail">> \in Atoms
    BY DEF Atoms, Commands
  <2> QED
    BY <1>3, <2>1
<1>5. PICK longer : longer = stream \o two
  OBVIOUS
<1>6. /\ longer \in Seq(Atoms) /\ Len(longer) = Len(stream) + Len(two)
      /\ \A k \in 1..(Len(stream) + Len(two)) :
           longer[k] = IF k <= Len(stream) THEN stream[k] ELSE two[k - Len(stream)]
  BY <1>4, <1>5, ConcatProperties
<1>7. /\ Len(stream) \in Nat /\ Len(longer) = Len(stream) + 2
      /\ \A k \in 1..Len(stream) : longer[k] = stream[k]
      /\ longer[Len(stream) + 1] = <<line, "head">>
      /\ longer[Len(stream) + 2] = <<line, "tail">>
  <2>1. Len(stream) \in Nat
    OBVIOUS
  <2>2. /\ \A k \in 1..Len(stream) : k \in 1..(Len(stream) + Len(two)) /\ k <= Len(stream)
        /\ Len(stream) + 1 \in 1..(Len(stream) + Len(two))
        /\ Len(stream) + 2 \in 1..(Len(stream) + Len(two))
        /\ ~(Len(stream) + 1 <= Len(stream)) /\ ~(Len(stream) + 2 <= Len(stream))
        /\ (Len(stream) + 1) - Len(stream) = 1 /\ (Len(stream) + 2) - Len(stream) = 2
    BY <1>4, <2>1
  <2>3. \A k \in 1..Len(stream) : longer[k] = stream[k]
    BY <1>6, <2>2, Zenon
  <2>4. longer[Len(stream) + 1] = two[1]
    BY <1>6, <2>2
  <2>5. longer[Len(stream) + 2] = two[2]
    BY <1>6, <2>2
  <2>6. Len(longer) = Len(stream) + 2
    BY <1>4, <1>6
  <2> QED
    BY <1>4, <2>1, <2>3, <2>4, <2>5, <2>6
<1>8. Flows(Append(lines, line), n, "up", longer)
  BY <1>1, <1>2, <1>6, <1>7, FlowsWithMore
<1>9. Got(Append(lines, line), h, n)
  BY <1>1, GotWithMore
<1> QED
  BY <1>3, <1>5, <1>8, <1>9 DEF Caught

\* A peer that leaves in the middle of a line leaves a beginning of what it sent:
\* still the lines that follow the handled ones, and no end of a line is made up.
LEMMA CaughtCut ==
  ASSUME NEW lines \in Seq(Lines), NEW h, NEW state, NEW p \in Seq(Atoms), NEW f \in Seq(Atoms),
         NEW k \in 0..Len(f), Caught(lines, h, state, p \o f)
  PROVE  Caught(lines, h, "gone", p \o SubSeq(f, 1, k))
<1>1. PICK n \in Nat : Got(lines, h, n) /\ Flows(lines, n, state, p \o f)
  BY DEF Caught
<1>2. n \in 0..Len(lines)
  BY <1>1 DEF Got
<1>3. PICK g : g = SubSeq(f, 1, k)
  OBVIOUS
<1>4. Len(f) \in Nat /\ k \in Nat /\ k <= Len(f)
  OBVIOUS
<1>5. g \in Seq(Atoms) /\ Len(g) = k /\ \A i \in 1..k : g[i] = f[i]
  <2>1. \A i \in 1..k : f[i] \in Atoms
    BY <1>4
  <2>2. /\ g \in Seq(Atoms) /\ Len(g) = IF 1 <= k THEN k - 1 + 1 ELSE 0
        /\ \A i \in 1..(k - 1 + 1) : g[i] = f[1 + i - 1]
    BY <1>3, <1>4, <2>1, SubSeqProperties
  <2>3. (IF 1 <= k THEN k - 1 + 1 ELSE 0) = k /\ k - 1 + 1 = k
    BY <1>4
  <2>4. \A i \in 1..k : 1 + i - 1 = i
    OBVIOUS
  <2> QED
    BY <2>2, <2>3, <2>4
<1>6. PICK stream : stream = p \o f
  OBVIOUS
<1>7. PICK part : part = p \o g
  OBVIOUS
<1>8. /\ stream \in Seq(Atoms) /\ Len(stream) = Len(p) + Len(f)
      /\ \A i \in 1..(Len(p) + Len(f)) :
           stream[i] = IF i <= Len(p) THEN p[i] ELSE f[i - Len(p)]
  BY <1>6, ConcatProperties
<1>9. /\ part \in Seq(Atoms) /\ Len(part) = Len(p) + Len(g)
      /\ \A i \in 1..(Len(p) + Len(g)) :
           part[i] = IF i <= Len(p) THEN p[i] ELSE g[i - Len(p)]
  BY <1>5, <1>7, ConcatProperties
<1>10. Len(part) <= Len(stream) /\ \A i \in 1..Len(part) : part[i] = stream[i]
  <2>1. Len(p) \in Nat
    OBVIOUS
  <2>2. ASSUME NEW i \in 1..Len(part) PROVE part[i] = stream[i]
    <3>1. CASE i <= Len(p)
      <4>1. i \in 1..(Len(p) + Len(f)) /\ i \in 1..(Len(p) + Len(g))
        BY <1>4, <1>5, <1>9, <2>1, <3>1
      <4> QED
        BY <1>8, <1>9, <3>1, <4>1, Zenon
    <3>2. CASE ~(i <= Len(p))
      <4>1. i - Len(p) \in 1..k /\ i \in 1..(Len(p) + Len(f)) /\ i \in 1..(Len(p) + Len(g))
        BY <1>4, <1>5, <1>9, <2>1, <3>2
      <4> QED
        BY <1>5, <1>8, <1>9, <3>2, <4>1
    <3> QED
      BY <3>1, <3>2
  <2> QED
    BY <1>4, <1>5, <1>8, <1>9, <2>1, <2>2
<1>11. Flows(lines, n, "gone", part)
  BY <1>1, <1>2, <1>6, <1>8, <1>9, <1>10, FlowsCut
<1> QED
  BY <1>1, <1>3, <1>7, <1>11 DEF Caught

\* Concatenation of streams is associative.
LEMMA StreamsAssociate ==
  ASSUME NEW x \in Seq(Atoms), NEW y \in Seq(Atoms), NEW z \in Seq(Atoms)
  PROVE  (x \o y) \o z = x \o (y \o z)
  BY ConcatAssociative

\* Handling the first line of the buffer moves it from what is to come to what was
\* handled; a blank line only goes away.
LEMMA CaughtLine ==
  ASSUME NEW lines \in Seq(Lines), NEW h \in Seq(Commands), NEW state, NEW p \in Seq(Atoms),
         NEW f \in Seq(Atoms), HasLine(p), Caught(lines, h, state, p \o f)
  PROVE  Caught(lines, IF LineText(p).op = "BLANK" THEN h ELSE Append(h, LineText(p)), state,
                SubSeq(p, LineEnd(p) + 1, Len(p)) \o f)
<1>1. PICK n \in Nat : Got(lines, h, n) /\ Flows(lines, n, state, p \o f)
  BY DEF Caught
<1>2. n \in 0..Len(lines) /\ Len(lines) \in Nat
  BY <1>1 DEF Got
<1>3. /\ n + 1 <= Len(lines) /\ LineText(p) = lines[n + 1]
      /\ Flows(lines, n + 1, state, SubSeq(p, LineEnd(p) + 1, Len(p)) \o f)
  BY <1>1, <1>2, FirstLineIsNext
<1>4. lines[n + 1] \in Commands
  <2>1. n + 1 \in 1..Len(lines)
    BY <1>2, <1>3
  <2> QED
    BY <2>1 DEF Commands
<1>5. Got(lines, IF LineText(p).op = "BLANK" THEN h ELSE Append(h, LineText(p)), n + 1)
  BY <1>1, <1>2, <1>3, <1>4, GotBlank, GotLine
<1>6. n + 1 \in Nat
  OBVIOUS
<1> QED
  BY <1>3, <1>5, <1>6 DEF Caught

\* Before the first connection.
LEMMA FramingStarts == Init => FramingInv
<1> SUFFICES ASSUME Init PROVE FramingInv
  OBVIOUS
<1>1. /\ sent = [c \in Conns |-> <<>>] /\ handled = [c \in Conns |-> <<>>]
      /\ inflight = [c \in Conns |-> <<>>] /\ fd = [s \in Slots |-> NoConn]
  BY DEF Init
<1>2. Got(<<>>, <<>>, 0)
  BY SpokenStep DEF Got
<1>3. ASSUME NEW state PROVE Flows(<<>>, 0, state, <<>>)
  BY DEF Flows
<1>4. 0 \in Nat
  OBVIOUS
<1> QED
  BY <1>1, <1>2, <1>3, <1>4 DEF FramingInv, Caught

\* Only the fields of one connection, or of none, change.
LEMMA FramingUntouched ==
  ASSUME FramingInv, UNCHANGED <<fd, pending, sock, peer, inflight, sent, handled>>
  PROVE  FramingInv'
BY DEF FramingInv

\* The slots in use hold connections, and their buffers atoms.
LEMMA SlotFacts ==
  ASSUME ServerInv
  PROVE  /\ \A s \in Slots : pending[s] \in Seq(Atoms)
         /\ \A s \in Slots : fd[s] # NoConn => fd[s] \in Conns
         /\ \A c \in Conns : inflight[c] \in Seq(Atoms) /\ sent[c] \in Seq(Lines)
                               /\ handled[c] \in Seq(Commands)
BY DEF ServerInv, TypeOK

\* Clients keep the framing invariant: a line is added at the far end of a
\* stream, a client that leaves cuts one.
LEMMA EnvironmentFrames ==
  ASSUME ServerInv, FramingInv, Environment
  PROVE  FramingInv'
<1> SUFFICES ASSUME NEW c \in Conns,
                    \/ Connect(c)
                    \/ \E line \in Lines : SendLine(c, line)
                    \/ PeerLeaves(c)
                    \/ StopsReading(c) \/ ReadsAgain(c)
             PROVE  FramingInv'
  BY DEF Environment
<1>1. CASE Connect(c)
  <2>1. \A d \in Conns : sock'[d] \in {"new", "waiting"} => sock[d] \in {"new", "waiting"}
    BY <1>1 DEF Connect, ServerInv, TypeOK
  <2>2. UNCHANGED <<fd, pending, peer, inflight, sent, handled>>
    BY <1>1 DEF Connect
  <2> QED
    BY <2>1, <2>2 DEF FramingInv
<1>2. ASSUME NEW line \in Lines, SendLine(c, line) PROVE FramingInv'
  <2>1. PICK two : two = << <<line, "head">>, <<line, "tail">> >>
    OBVIOUS
  <2>2. /\ sent' = [sent EXCEPT ![c] = Append(sent[c], line)]
        /\ inflight' = [inflight EXCEPT ![c] = inflight[c] \o two]
        /\ peer[c] = "up" /\ UNCHANGED <<fd, pending, sock, peer, handled>>
    BY <1>2, <2>1 DEF SendLine
  <2>3. /\ sent'[c] = Append(sent[c], line) /\ inflight'[c] = inflight[c] \o two
        /\ \A d \in Conns : d # c => sent'[d] = sent[d] /\ inflight'[d] = inflight[d]
    BY <2>2 DEF ServerInv, TypeOK
  <2>4. two \in Seq(Atoms)
    BY <2>1 DEF Atoms, Commands
  <2>5. ASSUME NEW d \in Conns PROVE \E n \in Nat : Got(sent'[d], handled'[d], n)
    <3>1. PICK n \in Nat : Got(sent[d], handled[d], n)
      BY DEF FramingInv
    <3>2. sent[d] \in Seq(Lines)
      BY SlotFacts
    <3>3. CASE d = c
      BY <2>2, <2>3, <3>1, <3>2, <3>3, GotWithMore
    <3>4. CASE d # c
      BY <2>2, <2>3, <3>1, <3>4
    <3> QED
      BY <3>3, <3>4
  <2>6. ASSUME NEW d \in Conns, sock'[d] \in {"new", "waiting"}
        PROVE  Caught(sent'[d], handled'[d], peer'[d], inflight'[d])
    <3>1. Caught(sent[d], handled[d], peer[d], inflight[d])
      BY <2>2, <2>6 DEF FramingInv
    <3>2. CASE d = c
      <4>1. sent[c] \in Seq(Lines) /\ inflight[c] \in Seq(Atoms)
        BY SlotFacts
      <4>2. Caught(sent[c], handled[c], "up", inflight[c])
        BY <2>2, <3>1, <3>2
      <4>3. Caught(Append(sent[c], line), handled[c], "up", inflight[c] \o two)
        BY <2>1, <4>1, <4>2, CaughtWithMore
      <4> QED
        BY <2>2, <2>3, <3>2, <4>3
    <3>3. CASE d # c
      BY <2>2, <2>3, <3>1, <3>3
    <3> QED
      BY <3>2, <3>3
  <2>7. ASSUME NEW s \in Slots, fd'[s] # NoConn
        PROVE  Caught(sent'[fd'[s]], handled'[fd'[s]], peer'[fd'[s]],
                      pending'[s] \o inflight'[fd'[s]])
    <3>1. PICK d \in Conns : d = fd[s] /\ fd'[s] = d
      BY <2>2, <2>7, SlotFacts
    <3>2. Caught(sent[d], handled[d], peer[d], pending[s] \o inflight[d])
      BY <2>2, <2>7, <3>1 DEF FramingInv
    <3>3. CASE d = c
      <4>1. /\ sent[c] \in Seq(Lines) /\ inflight[c] \in Seq(Atoms)
            /\ pending[s] \in Seq(Atoms)
        BY SlotFacts
      <4>2. pending[s] \o inflight[c] \in Seq(Atoms)
        BY <4>1, ConcatProperties
      <4>3. Caught(sent[c], handled[c], "up", pending[s] \o inflight[c])
        BY <2>2, <3>2, <3>3
      <4>4. Caught(Append(sent[c], line), handled[c], "up", (pending[s] \o inflight[c]) \o two)
        BY <2>1, <4>1, <4>2, <4>3, CaughtWithMore
      <4>5. (pending[s] \o inflight[c]) \o two = pending[s] \o (inflight[c] \o two)
        BY <2>4, <4>1, StreamsAssociate
      <4> QED
        BY <2>2, <2>3, <3>1, <3>3, <4>4, <4>5
    <3>4. CASE d # c
      BY <2>2, <2>3, <3>1, <3>2, <3>4
    <3> QED
      BY <3>3, <3>4
  <2> QED
    BY <2>5, <2>6, <2>7 DEF FramingInv
<1>3. CASE PeerLeaves(c)
  <2>1. PICK k \in 0..Len(inflight[c]) :
          inflight' = [inflight EXCEPT ![c] = SubSeq(@, 1, k)]
    BY <1>3 DEF PeerLeaves
  <2>2. peer' = [peer EXCEPT ![c] = "gone"] /\ UNCHANGED <<fd, pending, sock, sent, handled>>
    BY <1>3 DEF PeerLeaves
  <2>3. /\ peer'[c] = "gone" /\ inflight'[c] = SubSeq(inflight[c], 1, k)
        /\ \A d \in Conns : d # c => peer'[d] = peer[d] /\ inflight'[d] = inflight[d]
    BY <2>1, <2>2 DEF ServerInv, TypeOK
  <2>4. ASSUME NEW d \in Conns, sock'[d] \in {"new", "waiting"}
        PROVE  Caught(sent'[d], handled'[d], peer'[d], inflight'[d])
    <3>1. Caught(sent[d], handled[d], peer[d], inflight[d])
      BY <2>2, <2>4 DEF FramingInv
    <3>2. CASE d = c
      <4>1. sent[c] \in Seq(Lines) /\ inflight[c] \in Seq(Atoms) /\ <<>> \in Seq(Atoms)
        BY SlotFacts
      <4>2. <<>> \o inflight[c] = inflight[c]
        BY <4>1, ConcatEmptySeq
      <4>3. Caught(sent[c], handled[c], "gone", <<>> \o SubSeq(inflight[c], 1, k))
        BY <3>1, <3>2, <4>1, <4>2, CaughtCut
      <4>4. SubSeq(inflight[c], 1, k) \in Seq(Atoms)
        <5>1. \A i \in 1..k : inflight[c][i] \in Atoms
          BY <4>1
        <5> QED
          BY <5>1, SubSeqProperties
      <4>5. <<>> \o SubSeq(inflight[c], 1, k) = SubSeq(inflight[c], 1, k)
        BY <4>4, ConcatEmptySeq
      <4> QED
        BY <2>2, <2>3, <3>2, <4>3, <4>5
    <3>3. CASE d # c
      BY <2>2, <2>3, <3>1, <3>3
    <3> QED
      BY <3>2, <3>3
  <2>5. ASSUME NEW s \in Slots, fd'[s] # NoConn
        PROVE  Caught(sent'[fd'[s]], handled'[fd'[s]], peer'[fd'[s]],
                      pending'[s] \o inflight'[fd'[s]])
    <3>1. PICK d \in Conns : d = fd[s] /\ fd'[s] = d
      BY <2>2, <2>5, SlotFacts
    <3>2. Caught(sent[d], handled[d], peer[d], pending[s] \o inflight[d])
      BY <2>2, <2>5, <3>1 DEF FramingInv
    <3>3. CASE d = c
      <4>1. /\ sent[c] \in Seq(Lines) /\ inflight[c] \in Seq(Atoms)
            /\ pending[s] \in Seq(Atoms)
        BY SlotFacts
      <4>2. Caught(sent[c], handled[c], "gone", pending[s] \o SubSeq(inflight[c], 1, k))
        BY <3>2, <3>3, <4>1, CaughtCut
      <4> QED
        BY <2>2, <2>3, <3>1, <3>3, <4>2
    <3>4. CASE d # c
      BY <2>2, <2>3, <3>1, <3>2, <3>4
    <3> QED
      BY <3>3, <3>4
  <2> QED
    BY <2>2, <2>4, <2>5 DEF FramingInv
<1>4. CASE StopsReading(c) \/ ReadsAgain(c)
  <2>1. UNCHANGED <<fd, pending, sock, peer, inflight, sent, handled>>
    BY <1>4 DEF StopsReading, ReadsAgain
  <2> QED
    BY <2>1, FramingUntouched
<1> QED
  BY <1>1, <1>2, <1>3, <1>4

\* accept() keeps the framing invariant: the slot starts with an empty buffer
\* (1191), so its stream is what is under way on the new socket alone.
LEMMA AcceptFrames ==
  ASSUME ServerInv, FramingInv, Accept \/ Drop \/ AcceptFails
  PROVE  FramingInv'
<1> DEFINE c == Head(backlog)
<1>1. backlog # <<>> /\ backlog \in Seq(Conns)
  BY DEF Accept, Drop, AcceptFails, ServerInv, LoopInv, TypeOK
<1>2. c \in Conns /\ sock[c] = "waiting"
  <2>1. c = backlog[1] /\ c \in Conns /\ 1 \in 1..Len(backlog)
    BY <1>1, HeadTailProperties, EmptySeq
  <2> QED
    BY <2>1 DEF ServerInv, QueueInv
<1>3. UNCHANGED <<peer, inflight, sent, handled>>
  BY DEF Accept, Drop, AcceptFails
<1>4. CASE Accept
  <2> DEFINE s == First(FreeSlots)
  <2>1. s \in Slots
    BY <1>4, FirstIsIn DEF Accept, FreeSlots
  <2>2. /\ sock' = [sock EXCEPT ![c] = "open"]
        /\ fd' = [fd EXCEPT ![s] = c]
        /\ pending' = [pending EXCEPT ![s] = <<>>]
    BY <1>4 DEF Accept
  <2> HIDE DEF c, s
  <2>3. \A d \in Conns : sock'[d] \in {"new", "waiting"} => sock[d] \in {"new", "waiting"}
    BY <1>2, <2>2 DEF ServerInv, TypeOK
  <2>4. /\ fd'[s] = c /\ pending'[s] = <<>>
        /\ \A t \in Slots : t # s => fd'[t] = fd[t] /\ pending'[t] = pending[t]
    BY <2>1, <2>2 DEF ServerInv, TypeOK
  <2>5. Caught(sent[c], handled[c], peer[c], <<>> \o inflight[c])
    <3>1. <<>> \o inflight[c] = inflight[c]
      BY <1>2, SlotFacts, ConcatEmptySeq
    <3> QED
      BY <1>2, <3>1 DEF FramingInv
  <2>6. ASSUME NEW t \in Slots, fd'[t] # NoConn
        PROVE  Caught(sent[fd'[t]], handled[fd'[t]], peer[fd'[t]],
                      pending'[t] \o inflight[fd'[t]])
    <3>1. CASE t = s
      BY <2>4, <2>5, <3>1
    <3>2. CASE t # s
      BY <2>4, <2>6, <3>2 DEF FramingInv
    <3> QED
      BY <3>1, <3>2
  <2> QED
    BY <1>3, <2>3, <2>6 DEF FramingInv
<1>5. CASE Drop \/ AcceptFails
  <2>1. sock' = [sock EXCEPT ![c] = "closed"] /\ UNCHANGED <<fd, pending>>
    BY <1>5 DEF Drop, AcceptFails
  <2> HIDE DEF c
  <2>2. \A d \in Conns : sock'[d] \in {"new", "waiting"} => sock[d] \in {"new", "waiting"}
    BY <1>2, <2>1 DEF ServerInv, TypeOK
  <2> QED
    BY <1>3, <2>1, <2>2 DEF FramingInv
<1> QED
  BY <1>4, <1>5

\* recv() keeps the framing invariant: it moves bytes from the socket to the end
\* of the buffer (1216); closing the socket (1211) empties the slot.
LEMMA ServeFrames ==
  ASSUME ServerInv, FramingInv, Receive \/ Disconnect
  PROVE  FramingInv'
<1> DEFINE s == First(todo)
           c == fd[s]
<1>1. s \in Slots /\ c \in Conns /\ c # NoConn
  <2>1. todo \in SUBSET Slots /\ todo # {} /\ \A t \in todo : fd[t] # NoConn
    BY DEF Receive, Disconnect, ServerInv, TypeOK, LoopInv
  <2>2. s \in todo
    BY <2>1, FirstIsIn
  <2> QED
    BY <2>1, <2>2, SlotFacts
<1>2. \A t \in Slots : t # s /\ fd[t] # NoConn => fd[t] # c
  BY <1>1 DEF ServerInv, OneSlotPerSocket
<1>3. sock[c] = "open"
  BY <1>1 DEF ServerInv, OneSlotPerSocket
<1>4. CASE Receive
  <2>1. PICK k \in 1..Len(inflight[c]) :
          /\ pending' = [pending EXCEPT ![s] = @ \o SubSeq(inflight[c], 1, k)]
          /\ inflight' = [inflight EXCEPT ![c] = SubSeq(@, k + 1, Len(@))]
    BY <1>4 DEF Receive
  <2>2. UNCHANGED <<fd, sock, peer, sent, handled>>
    BY <1>4 DEF Receive
  <2> HIDE DEF s
  <2>3. PICK f \in Seq(Atoms) : f = inflight[c]
    BY <1>1, SlotFacts
  <2>4. PICK p \in Seq(Atoms) : p = pending[s]
    BY <1>1, SlotFacts
  <2>5. /\ pending'[s] = p \o SubSeq(f, 1, k) /\ inflight'[c] = SubSeq(f, k + 1, Len(f))
        /\ \A t \in Slots : t # s => pending'[t] = pending[t]
        /\ \A d \in Conns : d # c => inflight'[d] = inflight[d]
    BY <1>1, <2>1, <2>3, <2>4 DEF ServerInv, TypeOK
  <2>6. pending'[s] \o inflight'[c] = p \o f
    <3>1. Len(f) \in Nat /\ k \in 1..Len(f)
      BY <2>1, <2>3
    <3>2. /\ 1 \in 1..(Len(f) + 1) /\ k \in (1 - 1)..Len(f) /\ Len(f) \in k..Len(f)
      BY <3>1
    <3>3. SubSeq(f, 1, k) \o SubSeq(f, k + 1, Len(f)) = SubSeq(f, 1, Len(f))
      BY <3>2, ConcatAdjacentSubSeq
    <3>4. SubSeq(f, 1, Len(f)) = f
      BY SubSeqFull
    <3>5. SubSeq(f, 1, k) \in Seq(Atoms) /\ SubSeq(f, k + 1, Len(f)) \in Seq(Atoms)
      <4>1. \A i \in 1..k : f[i] \in Atoms
        BY <3>1
      <4>2. \A i \in (k + 1)..Len(f) : f[i] \in Atoms
        BY <3>1
      <4> QED
        BY <3>1, <4>1, <4>2, SubSeqProperties
    <3>6. (p \o SubSeq(f, 1, k)) \o SubSeq(f, k + 1, Len(f))
            = p \o (SubSeq(f, 1, k) \o SubSeq(f, k + 1, Len(f)))
      BY <2>5, <3>5, StreamsAssociate
    <3> QED
      BY <2>5, <3>3, <3>4, <3>6
  <2> HIDE DEF c
  <2>7. \A d \in Conns : sock[d] \in {"new", "waiting"} => inflight'[d] = inflight[d]
    BY <1>3, <2>5
  <2>8. ASSUME NEW t \in Slots, fd[t] # NoConn
        PROVE  pending'[t] \o inflight'[fd[t]] = pending[t] \o inflight[fd[t]]
    <3>1. CASE t = s
      BY <2>3, <2>4, <2>6, <3>1 DEF c
    <3>2. CASE t # s
      <4>1. fd[t] \in Conns /\ fd[t] # c
        BY <1>2, <2>8, <3>2, SlotFacts
      <4> QED
        BY <2>5, <3>2, <4>1
    <3> QED
      BY <3>1, <3>2
  <2> QED
    BY <2>2, <2>7, <2>8 DEF FramingInv
<1>5. CASE Disconnect
  <2>1. /\ sock' = [sock EXCEPT ![c] = "closed"]
        /\ fd' = [fd EXCEPT ![s] = NoConn]
        /\ UNCHANGED <<pending, peer, inflight, sent, handled>>
    BY <1>5 DEF Disconnect
  <2> HIDE DEF s, c
  <2>2. \A d \in Conns : sock'[d] \in {"new", "waiting"} => sock[d] \in {"new", "waiting"}
    BY <1>1, <2>1 DEF ServerInv, TypeOK
  <2>3. \A t \in Slots : fd'[t] # NoConn => fd'[t] = fd[t]
    BY <1>1, <2>1 DEF ServerInv, TypeOK
  <2> QED
    BY <2>1, <2>2, <2>3 DEF FramingInv
<1> QED
  BY <1>4, <1>5

\* A line is handled or, if it is empty, skipped.
LEMMA LineFrames ==
  ASSUME ServerInv, FramingInv, pc = "lines", HasLine(pending[cur]), Eat,
         UNCHANGED <<fd, sock, peer, inflight, sent>>,
         handled' = IF LineText(pending[cur]).op = "BLANK" THEN handled
                    ELSE [handled EXCEPT ![fd[cur]] = Append(@, LineText(pending[cur]))]
  PROVE  FramingInv'
<1>1. PICK c \in Conns : c = fd[cur] /\ c # NoConn
  BY SlotFacts DEF ServerInv, LoopInv, TypeOK
<1>2. cur \in Slots
  BY DEF ServerInv, TypeOK
<1>3. PICK p \in Seq(Atoms) : p = pending[cur]
  BY <1>2, SlotFacts
<1>4. /\ pending'[cur] = SubSeq(p, LineEnd(p) + 1, Len(p))
      /\ \A t \in Slots : t # cur => pending'[t] = pending[t]
  BY <1>2, <1>3 DEF Eat, ServerInv, TypeOK
<1>5. PICK h : h = IF LineText(p).op = "BLANK" THEN handled[c]
                   ELSE Append(handled[c], LineText(p))
  OBVIOUS
<1>6. handled'[c] = h /\ \A d \in Conns : d # c => handled'[d] = handled[d]
  <2>1. CASE LineText(p).op = "BLANK"
    BY <1>3, <1>5, <2>1
  <2>2. CASE LineText(p).op # "BLANK"
    <3>1. handled' = [handled EXCEPT ![c] = Append(handled[c], LineText(p))]
      BY <1>1, <1>3, <2>2
    <3> QED
      BY <1>5, <2>2, <3>1 DEF ServerInv, TypeOK
  <2> QED
    BY <2>1, <2>2
<1>7. Caught(sent[c], h, peer[c], pending'[cur] \o inflight[c])
  <2>1. Caught(sent[c], handled[c], peer[c], p \o inflight[c])
    BY <1>1, <1>2, <1>3 DEF FramingInv
  <2>2. sent[c] \in Seq(Lines) /\ handled[c] \in Seq(Commands) /\ inflight[c] \in Seq(Atoms)
    BY SlotFacts
  <2> QED
    BY <1>3, <1>4, <1>5, <2>1, <2>2, CaughtLine
<1>8. sock[c] = "open"
  BY <1>1, <1>2 DEF ServerInv, OneSlotPerSocket
<1>9. \A t \in Slots : t # cur /\ fd[t] # NoConn => fd[t] # c
  BY <1>1, <1>2 DEF ServerInv, OneSlotPerSocket
<1>10. ASSUME NEW d \in Conns PROVE \E n \in Nat : Got(sent[d], handled'[d], n)
  <2>1. CASE d = c
    BY <1>6, <1>7, <2>1 DEF Caught
  <2>2. CASE d # c
    BY <1>6, <2>2 DEF FramingInv
  <2> QED
    BY <2>1, <2>2
<1>11. ASSUME NEW t \in Slots, fd[t] # NoConn
       PROVE  Caught(sent[fd[t]], handled'[fd[t]], peer[fd[t]], pending'[t] \o inflight[fd[t]])
  <2>1. CASE t = cur
    BY <1>1, <1>6, <1>7, <2>1
  <2>2. CASE t # cur
    <3>1. fd[t] \in Conns /\ fd[t] # c
      BY <1>9, <1>11, <2>2, SlotFacts
    <3> QED
      BY <1>4, <1>6, <1>11, <2>2, <3>1 DEF FramingInv
  <2> QED
    BY <2>1, <2>2
<1>12. ASSUME NEW d \in Conns, sock[d] \in {"new", "waiting"}
       PROVE  Caught(sent[d], handled'[d], peer[d], inflight[d])
  <2>1. d # c
    BY <1>8, <1>12
  <2> QED
    BY <1>6, <1>12, <2>1 DEF FramingInv
<1> QED
  BY <1>10, <1>11, <1>12 DEF FramingInv

\* No action loses, repeats or mixes up what a connection sent.
THEOREM FramingInvariant == Spec => []FramingInv
<1>1. ServerInv /\ FramingInv /\ [Next]_vars => FramingInv'
  <2> SUFFICES ASSUME ServerInv, FramingInv, [Next]_vars PROVE FramingInv'
    OBVIOUS
  <2>1. CASE Environment
    BY <2>1, EnvironmentFrames
  <2>2. CASE Accept \/ Drop \/ AcceptFails
    BY <2>2, AcceptFrames
  <2>3. CASE Receive \/ Disconnect
    BY <2>3, ServeFrames
  <2>4. CASE SkipBlank
    <3>1. /\ pc = "lines" /\ HasLine(pending[cur]) /\ Eat
          /\ LineText(pending[cur]).op = "BLANK"
          /\ UNCHANGED <<fd, sock, peer, inflight, sent, handled>>
      BY <2>4 DEF SkipBlank
    <3> QED
      BY <3>1, LineFrames
  <2>5. CASE handle_nut_command_
    <3>1. PICK line \in Commands : Handle(line)
      BY <2>5 DEF handle_nut_command_, Username, Password, Logout, Fsd, Instcmd, Status, Other
    <3>2. /\ pc = "lines" /\ HasLine(pending[cur]) /\ Eat
          /\ line = LineText(pending[cur]) /\ line.op # "BLANK"
          /\ handled' = [handled EXCEPT ![fd[cur]] = Append(@, line)]
          /\ UNCHANGED <<fd, sock, peer, inflight, sent>>
      BY <3>1 DEF Handle
    <3> QED
      BY <3>2, LineFrames
  <2>6. CASE (\E opened \in BOOLEAN : OpenListener(opened)) \/ Select \/ send_line_
             \/ NoMoreLines \/ UNCHANGED vars
    <3>1. UNCHANGED <<fd, pending, sock, peer, inflight, sent, handled>>
      BY <2>6 DEF OpenListener, Select, send_line_, NoMoreLines, vars
    <3> QED
      BY <3>1, FramingUntouched
  <2> QED
    BY <2>1, <2>2, <2>3, <2>4, <2>5, <2>6 DEF Next, ServerStep
<1> QED
  BY <1>1, FramingStarts, ServerInvariant, PTL DEF Spec

\* Framing for any number of connections and slots, any lines and any cuts of
\* recv(), before and after the peer has gone.
THEOREM LinesAreInOrder == Spec => []LinesInOrder
<1>1. ServerInv /\ FramingInv => LinesInOrder
  <2> SUFFICES ASSUME ServerInv, FramingInv, NEW c \in Conns
               PROVE  /\ Len(handled[c]) <= Spoken(sent[c], Len(sent[c]))
                      /\ \A i \in 1..Len(sent[c]) :
                           /\ sent[c][i].op # "BLANK"
                           /\ Spoken(sent[c], i) <= Len(handled[c])
                           => handled[c][Spoken(sent[c], i)] = sent[c][i]
    BY DEF LinesInOrder
  <2>1. PICK n \in Nat : Got(sent[c], handled[c], n)
    BY DEF FramingInv
  <2>2. sent[c] \in Seq(Lines)
    BY SlotFacts
  <2> QED
    BY <2>1, <2>2, GotIsInOrder
<1> QED
  BY <1>1, FramingInvariant, ServerInvariant, PTL

-----------------------------------------------------------------------------
(* The server implements NutService.                                       *)

\* The n-th line that is not empty is at some place.
LEMMA SpokenIsSomewhere ==
  ASSUME NEW lines \in Seq(Lines), NEW n \in Nat \ {0}, n <= Spoken(lines, Len(lines))
  PROVE  \E i \in 1..Len(lines) : lines[i].op # "BLANK" /\ Spoken(lines, i) = n
<1>1. Len(lines) \in Nat
  BY LenProperties
<1>2. PICK reach : reach = {i \in 0..Len(lines) : n <= Spoken(lines, i)}
  OBVIOUS
<1>3. reach \in SUBSET Nat /\ Len(lines) \in reach
  BY <1>1, <1>2
<1>4. PICK i \in reach : \A j \in reach : i <= j
  BY <1>3, LeastNatural
<1>5. i \in 0..Len(lines) /\ n <= Spoken(lines, i)
  BY <1>2
<1>6. Spoken(lines, 0) = 0
  BY SpokenStep
<1>7. i # 0
  BY <1>5, <1>6
<1>8. PICK j \in Nat : i = j + 1 /\ j \in 0..Len(lines)
  BY <1>1, <1>5, <1>7
<1>9. j \notin reach
  BY <1>4, <1>8
<1>10. Spoken(lines, j) \in Nat /\ Spoken(lines, j) < n
  <2>1. Spoken(lines, j) \in Nat
    BY SpokenStep
  <2> QED
    BY <1>2, <1>8, <1>9, <2>1
<1>11. Spoken(lines, i) = IF lines[i].op = "BLANK" THEN Spoken(lines, j) ELSE Spoken(lines, j) + 1
  BY <1>8, SpokenStep
<1>12. lines[i].op # "BLANK"
  BY <1>5, <1>10, <1>11
<1>13. Spoken(lines, i) = n
  BY <1>5, <1>10, <1>11, <1>12
<1> QED
  BY <1>1, <1>5, <1>7, <1>12, <1>13

\* The line that is handled is the next one that its connection has sent.
LEMMA TheNextLineIsTaken ==
  ASSUME ServerInv, LinesInOrder', NEW line \in Commands, Handle(line),
         NEW c \in Conns, c = fd[cur]
  PROVE  line \in Lines /\ IsSpoken(c, line, Len(handled[c]) + 1)
<1>1. PICK h \in Seq(Commands) : h = handled[c]
  BY SlotFacts
<1>2. PICK lines \in Seq(Lines) : lines = sent[c]
  BY SlotFacts
<1>3. sent'[c] = lines /\ handled'[c] = Append(h, line)
  <2>1. sent' = sent /\ handled' = [handled EXCEPT ![c] = Append(@, line)]
    BY DEF Handle, netVars
  <2>2. handled \in [Conns -> Seq(Commands)]
    BY DEF ServerInv, TypeOK
  <2> QED
    BY <1>1, <1>2, <2>1, <2>2
<1>4. PICK k \in Nat \ {0} : k = Len(h) + 1
  BY LenProperties
<1>5. Len(Append(h, line)) = k /\ Append(h, line)[k] = line
  BY <1>4, OneMore
<1>6. /\ k <= Spoken(lines, Len(lines))
      /\ \A i \in 1..Len(lines) :
           lines[i].op # "BLANK" /\ Spoken(lines, i) <= k
             => Append(h, line)[Spoken(lines, i)] = lines[i]
  <2>1. /\ Len(handled'[c]) <= Spoken(sent'[c], Len(sent'[c]))
        /\ \A i \in 1..Len(sent'[c]) :
             sent'[c][i].op # "BLANK" /\ Spoken(sent'[c], i) <= Len(handled'[c])
               => handled'[c][Spoken(sent'[c], i)] = sent'[c][i]
    BY Zenon DEF LinesInOrder
  <2>2. /\ Len(Append(h, line)) <= Spoken(lines, Len(lines))
        /\ \A i \in 1..Len(lines) :
             lines[i].op # "BLANK" /\ Spoken(lines, i) <= Len(Append(h, line))
               => Append(h, line)[Spoken(lines, i)] = lines[i]
    BY <1>3, <2>1, Zenon
  <2> QED
    BY <1>5, <2>2, Zenon
<1>7. PICK i \in 1..Len(lines) : lines[i].op # "BLANK" /\ Spoken(lines, i) = k
  BY <1>6, SpokenIsSomewhere
<1>8. line = lines[i]
  <2>1. k <= k
    BY <1>4
  <2>2. Append(h, line)[Spoken(lines, i)] = lines[i]
    BY <1>6, <1>7, <2>1
  <2> QED
    BY <1>5, <1>7, <2>2
<1>9. line \in Lines
  BY <1>8, ElementOfSeq
<1> QED
  BY <1>1, <1>2, <1>4, <1>7, <1>8, <1>9 DEF IsSpoken

\* What the lines of a connection entitle it to is what its flags say.
LEMMA FlagsEntitle ==
  ASSUME NEW h \in Seq(Commands), NEW line \in Commands, NEW s, Earned(s, h)
  PROVE  Entitled(Append(h, line), Len(h) + 1)
           <=> \/ line.op = "INSTCMD" /\ line.arg = "ups" /\ authenticated[s]
               \/ line.op = "FSD" /\ line.arg = "ups" /\ primary_authenticated[s]
<1>1. PICK g : g = Append(h, line)
  OBVIOUS
<1>2. g[Len(h) + 1] = line /\ (Len(h) + 1) - 1 = Len(h) /\ Len(h) \in 0..Len(h)
  BY <1>1, OneMore
<1>3. \A name, word : Granted(g, Len(h), name, word) <=> Granted(h, Len(h), name, word)
  BY <1>1, <1>2, GrantedBefore
<1>4. /\ UserGranted(g, Len(h)) <=> UserGranted(h, Len(h))
      /\ PrimaryGranted(g, Len(h)) <=> PrimaryGranted(h, Len(h))
  BY <1>3 DEF UserGranted, PrimaryGranted
<1> QED
  BY <1>1, <1>2, <1>4 DEF Entitled, Is, Earned

\* Handling a line is taking it: obeyed if entitled, answered if not.
LEMMA LineIsTaken ==
  ASSUME ServerInv, GrantInv, LinesInOrder', handle_nut_command_
  PROVE  ServiceNext
<1>1. PICK line \in Commands :
        \/ Username(line) \/ Password(line) \/ Logout(line)
        \/ Fsd(line) \/ Instcmd(line) \/ Status(line) \/ Other(line)
  BY DEF handle_nut_command_
<1>2. PICK s \in Slots : s = cur
  BY DEF ServerInv, TypeOK
<1>3. Handle(line)
  BY <1>1 DEF Username, Password, Logout, Fsd, Instcmd, Status, Other
<1>4. PICK c \in Conns : c = fd[s] /\ c # NoConn
  BY <1>2, <1>3, ConnsAssumption DEF Handle, ServerInv, LoopInv, TypeOK, OneSlotPerSocket
<1>5. PICK h \in Seq(Commands) : h = handled[c]
  BY SlotFacts
<1>6. Earned(s, h)
  BY <1>4, <1>5 DEF GrantInv
<1>7. PICK k : k = Len(h) + 1
  OBVIOUS
<1>8. /\ handled' = [handled EXCEPT ![c] = Append(@, line)]
      /\ UNCHANGED sent
      /\ handled'[c] = Append(h, line)
  BY <1>2, <1>3, <1>4, <1>5 DEF Handle, netVars, ServerInv, TypeOK
<1>9. line \in Lines /\ IsSpoken(c, line, k)
  BY <1>2, <1>3, <1>4, <1>5, <1>7, TheNextLineIsTaken
<1>10. Entitled(handled'[c], k)
         <=> \/ line.op = "INSTCMD" /\ line.arg = "ups" /\ authenticated[s]
             \/ line.op = "FSD" /\ line.arg = "ups" /\ primary_authenticated[s]
  BY <1>6, <1>7, <1>8, FlagsEntitle
<1>11. TakesEffect => effective' = [effective EXCEPT ![c] = @ \cup {k}]
  BY <1>2, <1>4, <1>5, <1>7 DEF TakesEffect, ThisLine
<1>12. IF Entitled(handled'[c], k) THEN Obey(c, k, line) ELSE Answer(line)
  <2>1. CASE Username(line) \/ Password(line) \/ Logout(line) \/ Other(line)
    <3>1. line.op \notin {"INSTCMD", "FSD", "STATUS"} /\ UNCHANGED <<fsd_latched_, effective>>
      BY <2>1 DEF Username, Password, Logout, Other, NoEffect
    <3> QED
      BY <1>10, <3>1 DEF Answer
  <2>2. CASE Status(line)
    <3>1. line.op = "STATUS" /\ UNCHANGED effective
      BY <2>2 DEF Status
    <3>2. fsd_latched_' \in {fsd_latched_, FALSE}
      <4>1. PICK on_line \in BOOLEAN : fsd_latched_' = (fsd_latched_ /\ ~on_line)
        BY <2>2 DEF Status
      <4>2. fsd_latched_ \in BOOLEAN
        BY DEF ServerInv, TypeOK
      <4> QED
        BY <4>1, <4>2
    <3> QED
      BY <1>10, <3>1, <3>2 DEF Answer
  <2>3. CASE Fsd(line) /\ primary_authenticated[s] /\ line.arg = "ups"
    <3>1. line.op = "FSD" /\ fsd_latched_' = TRUE /\ TakesEffect
      BY <1>2, <2>3, Zenon DEF Fsd
    <3>2. fsd_latched_' = (fsd_latched_ \/ line.op = "FSD")
      BY <3>1
    <3> QED
      BY <1>10, <1>11, <2>3, <3>1, <3>2 DEF Obey
  <2>4. CASE Fsd(line) /\ ~(primary_authenticated[s] /\ line.arg = "ups")
    <3>1. line.op = "FSD" /\ UNCHANGED <<fsd_latched_, effective>>
      BY <1>2, <2>4 DEF Fsd, NoEffect
    <3> QED
      BY <1>10, <2>4, <3>1 DEF Answer
  <2>5. CASE Instcmd(line) /\ authenticated[s] /\ line.arg = "ups"
    <3>1. line.op = "INSTCMD" /\ UNCHANGED fsd_latched_ /\ TakesEffect
      BY <1>2, <2>5, Zenon DEF Instcmd
    <3>2. fsd_latched_ \in BOOLEAN
      BY DEF ServerInv, TypeOK
    <3>3. fsd_latched_' = (fsd_latched_ \/ line.op = "FSD")
      BY <3>1, <3>2
    <3> QED
      BY <1>10, <1>11, <2>5, <3>1, <3>3 DEF Obey
  <2>6. CASE Instcmd(line) /\ ~(authenticated[s] /\ line.arg = "ups")
    <3>1. line.op = "INSTCMD" /\ UNCHANGED <<fsd_latched_, effective>>
      BY <1>2, <2>6 DEF Instcmd, NoEffect
    <3> QED
      BY <1>10, <2>6, <3>1 DEF Answer
  <2> QED
    BY <1>1, <2>1, <2>2, <2>3, <2>4, <2>5, <2>6
<1>13. TakeLine(c, line)
  BY <1>5, <1>7, <1>8, <1>9, <1>12 DEF TakeLine
<1> QED
  BY <1>9, <1>13 DEF ServiceNext

\* Sockets, slots, buffers and flags are an implementation of conversations:
\* a step of the server or of the network is one of NutService, or changes
\* nothing that a client can tell, for any number of slots and connections.
THEOREM ImplementsNutService == Spec => NutServiceSpec
<1>1. Init => ServiceInit
  BY DEF Init, ServiceInit
<1>2. ServerInv /\ GrantInv /\ LinesInOrder' /\ [Next]_vars => [ServiceNext]_serviceVars
  <2> SUFFICES ASSUME ServerInv, GrantInv, LinesInOrder', [Next]_vars
               PROVE  ServiceNext \/ UNCHANGED serviceVars
    OBVIOUS
  <2>1. CASE handle_nut_command_
    BY <2>1, LineIsTaken
  <2>2. ASSUME NEW c \in Conns, NEW line \in Lines, SendLine(c, line) PROVE ServiceNext
    <3>1. Say(c, line)
      BY <2>2 DEF SendLine, Say, histVars
    <3> QED
      BY <3>1 DEF ServiceNext
  <2>3. ASSUME NEW c \in Conns, Connect(c) \/ PeerLeaves(c) \/ StopsReading(c) \/ ReadsAgain(c)
        PROVE  UNCHANGED serviceVars
    BY <2>3 DEF Connect, PeerLeaves, StopsReading, ReadsAgain, histVars, serviceVars
  <2>4. CASE \/ \E opened \in BOOLEAN : OpenListener(opened)
             \/ Select \/ Accept \/ Drop \/ AcceptFails \/ Receive \/ Disconnect
             \/ SkipBlank \/ send_line_ \/ NoMoreLines \/ UNCHANGED vars
    BY <2>4 DEF OpenListener, Select, Accept, Drop, AcceptFails, Receive, Disconnect,
       SkipBlank, send_line_, NoMoreLines, vars, netVars, histVars, serviceVars
  <2> QED
    BY <2>1, <2>2, <2>3, <2>4 DEF Next, ServerStep, Environment
<1> QED
  BY <1>1, <1>2, ServerInvariant, GrantInvariant, LinesAreInOrder, PTL DEF Spec, NutServiceSpec
-----------------------------------------------------------------------------
(* What follows from NutService alone, and so holds of the server.         *)

ServiceInv ==
  /\ handled \in [Conns -> Seq(Lines)]
  /\ effective \in [Conns -> SUBSET Nat]
  /\ ObeyedIffEntitled

\* A line that is taken is obeyed as the lines before it entitle it, and
\* entitles no earlier one.
LEMMA TakenIsObeyed ==
  ASSUME ServiceInv, NEW c \in Conns, NEW line \in Lines, TakeLine(c, line)
  PROVE  ServiceInv'
<1>1. PICK h \in Seq(Lines) : h = handled[c]
  BY DEF ServiceInv
<1> DEFINE g == Append(h, line)
<1>2. /\ Len(h) \in Nat /\ Len(g) = Len(h) + 1 /\ g \in Seq(Lines)
      /\ \A i \in 1..Len(h) : g[i] = h[i]
  BY AppendProperties, LenProperties
<1>3. handled' = [handled EXCEPT ![c] = g]
  BY <1>1 DEF TakeLine
<1>4. effective' = IF Entitled(g, Len(h) + 1)
                     THEN [effective EXCEPT ![c] = @ \cup {Len(h) + 1}] ELSE effective
  BY <1>1, <1>3 DEF TakeLine, Obey, Answer, ServiceInv
<1>5. \A k \in 1..Len(h) : Entitled(g, k) <=> Entitled(h, k)
  <2> TAKE k \in 1..Len(h)
  <2>1. k - 1 \in Nat /\ \A i \in 1..(k - 1) : i \in 1..Len(h)
    BY <1>2
  <2>2. \A i \in 1..(k - 1) : g[i] = h[i]
    BY <1>2, <2>1
  <2>3. \A name, word : Granted(g, k - 1, name, word) <=> Granted(h, k - 1, name, word)
    BY <2>1, <2>2, SameLinesGrant
  <2> QED
    BY <1>2, <2>3 DEF Entitled, UserGranted, PrimaryGranted
<1> HIDE DEF g
<1>6. handled' \in [Conns -> Seq(Lines)] /\ effective' \in [Conns -> SUBSET Nat]
  BY <1>2, <1>3, <1>4 DEF ServiceInv
<1>7. ASSUME NEW d \in Conns
      PROVE  effective'[d] = {k \in 1..Len(handled'[d]) : Entitled(handled'[d], k)}
  <2>1. effective[d] = {k \in 1..Len(handled[d]) : Entitled(handled[d], k)}
    BY DEF ServiceInv, ObeyedIffEntitled
  <2>2. CASE d # c
    BY <1>3, <1>4, <2>1, <2>2 DEF ServiceInv
  <2>3. CASE d = c
    <3>1. handled'[c] = g
      BY <1>3 DEF ServiceInv
    <3>2. effective'[c] = IF Entitled(g, Len(h) + 1) THEN effective[c] \cup {Len(h) + 1}
                                                     ELSE effective[c]
      BY <1>4 DEF ServiceInv
    <3>3. effective[c] = {k \in 1..Len(h) : Entitled(g, k)}
      BY <1>1, <1>5, <2>1, <2>3
    <3>4. 1..Len(g) = 1..Len(h) \cup {Len(h) + 1}
      BY <1>2
    <3>5. effective'[c] = {k \in 1..Len(g) : Entitled(g, k)}
      BY <3>2, <3>3, <3>4
    <3> QED
      BY <2>3, <3>1, <3>5
  <2> QED
    BY <2>2, <2>3
<1> QED
  BY <1>6, <1>7 DEF ServiceInv, ObeyedIffEntitled

\* An FSD or an INSTCMD takes effect if and only if the lines its own
\* connection sent before it entitle it: so NutService says.
THEOREM ServiceObeysAsEntitled == NutServiceSpec => []ObeyedIffEntitled
<1>1. ServiceInit => ServiceInv
  <2> SUFFICES ASSUME ServiceInit PROVE ServiceInv
    OBVIOUS
  <2>1. ASSUME NEW c \in Conns
        PROVE  effective[c] = {k \in 1..Len(handled[c]) : Entitled(handled[c], k)}
    <3>1. effective[c] = {} /\ handled[c] = <<>>
      BY DEF ServiceInit
    <3>2. 1..Len(handled[c]) = {}
      BY <3>1
    <3> QED
      BY <3>1, <3>2
  <2>2. handled \in [Conns -> Seq(Lines)] /\ effective \in [Conns -> SUBSET Nat]
    BY DEF ServiceInit
  <2> QED
    BY <2>1, <2>2 DEF ServiceInv, ObeyedIffEntitled
<1>2. ServiceInv /\ [ServiceNext]_serviceVars => ServiceInv'
  <2> SUFFICES ASSUME ServiceInv, [ServiceNext]_serviceVars PROVE ServiceInv'
    OBVIOUS
  <2>1. ASSUME NEW c \in Conns, NEW line \in Lines, Say(c, line) PROVE ServiceInv'
    BY <2>1 DEF Say, ServiceInv, ObeyedIffEntitled
  <2>2. ASSUME NEW c \in Conns, NEW line \in Lines, TakeLine(c, line) PROVE ServiceInv'
    BY <2>2, TakenIsObeyed
  <2>3. CASE UNCHANGED serviceVars
    BY <2>3 DEF serviceVars, ServiceInv, ObeyedIffEntitled
  <2> QED
    BY <2>1, <2>2, <2>3 DEF ServiceNext
<1>3. ServiceInv => ObeyedIffEntitled
  BY DEF ServiceInv
<1> QED
  BY <1>1, <1>2, <1>3, PTL DEF NutServiceSpec

\* The server obeys so too, since it implements NutService.
THEOREM ObeyedAsEntitled == Spec => []ObeyedIffEntitled
BY ImplementsNutService, ServiceObeysAsEntitled, PTL
=============================================================================
