------------------------- MODULE PollReportsProofs -------------------------
(***************************************************************************)
(* What is proved about the lookup of the paths, the plan of requests, the *)
(* poll and LIST VAR, for every table and every report descriptor.         *)
(***************************************************************************)
EXTENDS PollReports, WellFoundedInduction, SequenceTheorems, FiniteSetTheorems, TLAPS

-----------------------------------------------------------------------------
(* Induction over the naturals, for sets.                                  *)

Below == {pair \in Nat \X Nat : pair[1] < pair[2]}

\* A set of naturals has a least element.
LEMMA LeastNatural ==
  ASSUME NEW S \in SUBSET Nat, S # {}
  PROVE  \E x \in S : \A y \in S : x <= y
<1>1. IsWellFoundedOn(Below, Nat)
  BY NatLessThanWellFounded, Zenon DEF OpToRel, Below
<1>2. PICK x \in S : \A y \in S : <<y, x>> \notin Below
  BY <1>1, WFMin
<1>3. \A y \in S : ~(y < x)
  BY <1>2 DEF Below
<1> QED
  BY <1>3

\* A set that has 0, and n with every n - 1, has everything up to N.
LEMMA UpTo ==
  ASSUME NEW N \in Nat, NEW P, 0 \in P, \A n \in 1..N : n - 1 \in P => n \in P
  PROVE  \A n \in 0..N : n \in P
<1> DEFINE Others == {n \in 0..N : n \notin P}
<1> SUFFICES ASSUME Others # {} PROVE FALSE
  OBVIOUS
<1>1. Others \in SUBSET Nat
  OBVIOUS
<1>2. PICK m \in Others : \A n \in Others : m <= n
  <2> HIDE DEF Others
  <2> QED
    BY <1>1, LeastNatural
<1>3. m \in 1..N /\ m - 1 \notin P
  BY <1>2
<1>4. m - 1 \in Others /\ ~(m <= m - 1)
  BY <1>3
<1> QED
  BY <1>2, <1>4

-----------------------------------------------------------------------------
(* Functions defined by recursion exist.                                   *)

IsCount(n, g, base, step) == g[0] = base /\ \A i \in 1..n : g[i] = step[<<i, g[i - 1]>>]

\* Counting up from 0, with a step that is a function.
LEMMA RecursionExists ==
  ASSUME NEW N \in Nat, NEW A, NEW base \in A, NEW step \in [(1..N) \X A -> A]
  PROVE  \E g \in [0..N -> A] : IsCount(N, g, base, step)
<1> DEFINE P == {n \in 0..N : \E g \in [0..n -> A] : IsCount(n, g, base, step)}
<1>1. 0 \in P
  <2>1. [i \in 0..0 |-> base] \in [0..0 -> A]
    OBVIOUS
  <2>2. IsCount(0, [i \in 0..0 |-> base], base, step)
    BY DEF IsCount
  <2>3. \E g \in [0..0 -> A] : IsCount(0, g, base, step)
    BY <2>1, <2>2
  <2> QED
    BY <2>3
<1>2. ASSUME NEW n \in 1..N, n - 1 \in P PROVE n \in P
  <2>1. PICK g \in [0..(n - 1) -> A] : IsCount(n - 1, g, base, step)
    BY <1>2
  <2>2. PICK h : h = [i \in 0..n |-> IF i = n THEN step[<<n, g[n - 1]>>] ELSE g[i]]
    OBVIOUS
  <2>3. step[<<n, g[n - 1]>>] \in A
    BY <2>1
  <2>4. h \in [0..n -> A]
    BY <2>1, <2>2, <2>3
  <2>5. h[n] = step[<<n, g[n - 1]>>] /\ \A i \in 0..(n - 1) : h[i] = g[i]
    BY <2>2
  <2>6. IsCount(n, h, base, step)
    <3>1. h[0] = base
      BY <2>1, <2>5 DEF IsCount
    <3>2. ASSUME NEW i \in 1..(n - 1) PROVE h[i] = step[<<i, h[i - 1]>>]
      <4>1. i \in 0..(n - 1) /\ i - 1 \in 0..(n - 1)
        OBVIOUS
      <4>2. h[i] = g[i] /\ h[i - 1] = g[i - 1]
        BY <2>5, <4>1
      <4> QED
        BY <2>1, <4>2 DEF IsCount
    <3>3. h[n - 1] = g[n - 1]
      BY <2>5
    <3>4. h[n] = step[<<n, h[n - 1]>>]
      BY <2>5, <3>3
    <3>5. \A i \in 1..n : i = n \/ i \in 1..(n - 1)
      OBVIOUS
    <3> QED
      BY <3>1, <3>2, <3>4, <3>5, Zenon DEF IsCount
  <2>7. \E f \in [0..n -> A] : IsCount(n, f, base, step)
    BY <2>4, <2>6
  <2> QED
    BY <2>7
<1>3. N \in P
  <2> HIDE DEF P
  <2>1. \A n \in 0..N : n \in P
    BY <1>1, <1>2, UpTo
  <2> QED
    BY <2>1
<1> QED
  BY <1>3

\* The largest of some numbers, as FoldLeft takes it.
Largest(s) == CHOOSE x \in s : \A y \in s : x >= y

\* CHOOSE finds the largest element of a set of indices.
LEMMA LargestIsIn ==
  ASSUME NEW n \in Nat, NEW s \in SUBSET (1..n), s # {}
  PROVE  Largest(s) \in s /\ \A y \in s : Largest(s) >= y
<1> DEFINE Gaps == {x \in 0..n : n - x \in s}
<1>1. PICK y \in s : y \in 1..n
  OBVIOUS
<1>2. Gaps \in SUBSET Nat /\ n - y \in Gaps
  BY <1>1
<1>3. PICK g \in Gaps : \A h \in Gaps : g <= h
  <2> HIDE DEF Gaps
  <2> QED
    BY <1>2, LeastNatural
<1>4. n - g \in s /\ g \in 0..n
  BY <1>3
<1>5. ASSUME NEW z \in s PROVE n - g >= z
  <2>1. z \in 1..n /\ n - z \in Gaps
    OBVIOUS
  <2>2. g <= n - z
    BY <1>3, <2>1
  <2> QED
    BY <1>4, <2>1, <2>2
<1> QED
  BY <1>4, <1>5 DEF Largest

\* The largest index of a set that holds the last one.
LEMMA LargestOfInterval ==
  ASSUME NEW n \in Nat, NEW s \in SUBSET (1..n), n \in s
  PROVE  Largest(s) = n
<1>1. Largest(s) \in s /\ Largest(s) >= n
  <2>1. s # {}
    OBVIOUS
  <2> QED
    BY <2>1, LargestIsIn
<1>2. Largest(s) \in 1..n
  BY <1>1
<1> QED
  BY <1>1, <1>2

\* The function FoldLeft is made of, for a step that is a function.
IsFold(n, it, base, seq, op) ==
  \A s \in SUBSET (1..n) :
    it[s] = IF s = {} THEN base ELSE op[<<it[s \ {Largest(s)}], seq[Largest(s)]>>]

\* A fold over a sequence of any length is a function on the sets of its indices.
LEMMA FoldExists ==
  ASSUME NEW N \in Nat, NEW A, NEW base \in A, NEW S, NEW seq \in [1..N -> S],
         NEW op \in [A \X S -> A]
  PROVE  \E it \in [SUBSET (1..N) -> A] : IsFold(N, it, base, seq, op)
<1> DEFINE P == {n \in 0..N : \E it \in [SUBSET (1..n) -> A] : IsFold(n, it, base, seq, op)}
<1>1. 0 \in P
  <2>1. PICK it : it = [s \in SUBSET (1..0) |-> base]
    OBVIOUS
  <2>2. it \in [SUBSET (1..0) -> A]
    BY <2>1
  <2>3. \A s \in SUBSET (1..0) : s = {}
    OBVIOUS
  <2>4. IsFold(0, it, base, seq, op)
    BY <2>1, <2>3 DEF IsFold
  <2>5. 0 \in 0..N
    OBVIOUS
  <2> QED
    BY <2>2, <2>4, <2>5, Zenon
<1>2. ASSUME NEW n \in 1..N, n - 1 \in P PROVE n \in P
  <2>1. PICK f \in [SUBSET (1..(n - 1)) -> A] : IsFold(n - 1, f, base, seq, op)
    BY <1>2
  <2>2. PICK it : it = [s \in SUBSET (1..n) |->
                          IF n \in s THEN op[<<f[s \ {n}], seq[n]>>] ELSE f[s]]
    OBVIOUS
  <2>3. ASSUME NEW s \in SUBSET (1..n), n \notin s
        PROVE  s \in SUBSET (1..(n - 1)) /\ it[s] = f[s]
    <3>1. \A x \in s : x \in 1..(n - 1)
      BY <2>3
    <3> QED
      BY <2>2, <2>3, <3>1
  <2>4. ASSUME NEW s \in SUBSET (1..n), n \in s
        PROVE  /\ Largest(s) = n /\ s \ {n} \in SUBSET (1..(n - 1))
               /\ it[s] = op[<<f[s \ {n}], seq[n]>>] /\ it[s \ {n}] = f[s \ {n}]
    <3>1. Largest(s) = n
      BY <2>4, LargestOfInterval
    <3>2. s \ {n} \in SUBSET (1..n) /\ n \notin s \ {n}
      OBVIOUS
    <3>3. s \ {n} \in SUBSET (1..(n - 1)) /\ it[s \ {n}] = f[s \ {n}]
      BY <2>3, <3>2
    <3>4. it[s] = op[<<f[s \ {n}], seq[n]>>]
      BY <2>2, <2>4
    <3> QED
      BY <3>1, <3>3, <3>4
  <2>5. it \in [SUBSET (1..n) -> A]
    <3>1. ASSUME NEW s \in SUBSET (1..n) PROVE it[s] \in A
      <4>1. CASE n \in s
        <5>1. f[s \ {n}] \in A /\ seq[n] \in S
          BY <2>4, <4>1
        <5>2. it[s] = op[<<f[s \ {n}], seq[n]>>]
          BY <2>4, <4>1
        <5> QED
          BY <5>1, <5>2
      <4>2. CASE n \notin s
        BY <2>3, <4>2
      <4> QED
        BY <4>1, <4>2
    <3> QED
      BY <2>2, <3>1
  <2>6. ASSUME NEW s \in SUBSET (1..n)
        PROVE  it[s] = IF s = {} THEN base
                       ELSE op[<<it[s \ {Largest(s)}], seq[Largest(s)]>>]
    <3>1. CASE n \in s
      BY <2>4, <3>1
    <3>2. CASE n \notin s
      <4>1. s \in SUBSET (1..(n - 1)) /\ it[s] = f[s]
        BY <2>3, <3>2
      <4>2. f[s] = IF s = {} THEN base ELSE op[<<f[s \ {Largest(s)}], seq[Largest(s)]>>]
        BY <2>1, <4>1 DEF IsFold
      <4>3. s \ {Largest(s)} \in SUBSET (1..n) /\ n \notin s \ {Largest(s)}
        BY <3>2
      <4>4. it[s \ {Largest(s)}] = f[s \ {Largest(s)}]
        BY <2>3, <4>3
      <4> QED
        BY <4>1, <4>2, <4>4
    <3> QED
      BY <3>1, <3>2
  <2>7. IsFold(n, it, base, seq, op)
    BY <2>6 DEF IsFold
  <2>8. \E g \in [SUBSET (1..n) -> A] : IsFold(n, g, base, seq, op)
    BY <2>5, <2>7
  <2> QED
    BY <2>8
<1>3. N \in P
  <2> HIDE DEF P
  <2>1. \A n \in 0..N : n \in P
    BY <1>1, <1>2, UpTo
  <2> QED
    BY <2>1
<1> QED
  BY <1>3

-----------------------------------------------------------------------------
(* Paths and objects.                                                      *)

\* A path is a sequence of usages, whatever tokens it is read from.
LEMMA PathIsSequence ==
  ASSUME NEW tokens, IsSequence(tokens)
  PROVE  string_to_path(tokens) \in Seq(Usages)
<1> DEFINE N == Len(tokens)
           Reads(path) == path = [n \in 0..N |->
                                    IF n = 0 THEN <<>>
                                    ELSE IF tokens[n] \in Usages THEN Append(path[n - 1], tokens[n])
                                    ELSE path[n - 1]]
<1>1. N \in Nat
  BY DEF IsSequence
<1>2. \E path : Reads(path)
  <2>1. PICK step : step = [ip \in (1..N) \X Seq(Usages) |->
                              IF tokens[ip[1]] \in Usages THEN Append(ip[2], tokens[ip[1]])
                              ELSE ip[2]]
    OBVIOUS
  <2>2. ASSUME NEW i \in 1..N, NEW path \in Seq(Usages)
        PROVE  /\ step[<<i, path>>] \in Seq(Usages)
               /\ step[<<i, path>>] = IF tokens[i] \in Usages THEN Append(path, tokens[i]) ELSE path
    BY <2>1, AppendProperties
  <2>3. step \in [(1..N) \X Seq(Usages) -> Seq(Usages)]
    BY <2>1, <2>2
  <2> HIDE DEF N
  <2>4. <<>> \in Seq(Usages)
    OBVIOUS
  <2>5. PICK g \in [0..N -> Seq(Usages)] : IsCount(N, g, <<>>, step)
    BY <1>1, <2>3, <2>4, RecursionExists
  <2>6. ASSUME NEW n \in 0..N
        PROVE  g[n] = IF n = 0 THEN <<>>
                      ELSE IF tokens[n] \in Usages THEN Append(g[n - 1], tokens[n])
                      ELSE g[n - 1]
    <3>1. CASE n = 0
      BY <2>5, <3>1 DEF IsCount
    <3>2. CASE n # 0
      <4>1. n \in 1..N /\ n - 1 \in 0..N
        BY <1>1, <3>2
      <4>2. g[n] = step[<<n, g[n - 1]>>] /\ g[n - 1] \in Seq(Usages)
        BY <2>5, <4>1 DEF IsCount
      <4> QED
        BY <2>2, <3>2, <4>1, <4>2
    <3> QED
      BY <3>1, <3>2
  <2>7. Reads(g)
    BY <2>5, <2>6
  <2> QED
    BY <2>7
<1>3. PICK h : h = CHOOSE path : Reads(path)
  OBVIOUS
<1>4. Reads(h)
  <2> HIDE DEF Reads
  <2> QED
    BY <1>2, <1>3
<1>5. \A n \in 0..N : h[n] \in Seq(Usages)
  <2> DEFINE P == {n \in 0..N : h[n] \in Seq(Usages)}
  <2>1. 0 \in P
    BY <1>1, <1>4
  <2>2. ASSUME NEW n \in 1..N, n - 1 \in P PROVE n \in P
    <3>0. h[n - 1] \in Seq(Usages) /\ n \in 0..N /\ n # 0
      BY <1>1, <2>2
    <3>1. /\ h[n - 1] \in Seq(Usages) /\ n \in 0..N
          /\ h[n] = IF tokens[n] \in Usages THEN Append(h[n - 1], tokens[n]) ELSE h[n - 1]
      <4> HIDE DEF N
      <4> QED
        BY <1>4, <3>0
    <3>2. h[n] \in Seq(Usages)
      BY <3>1, AppendProperties
    <3> QED
      BY <3>1, <3>2
  <2>3. \A n \in 0..N : n \in P
    <3> HIDE DEF P, N
    <3> QED
      BY <1>1, <2>1, <2>2, UpTo
  <2> QED
    BY <2>3
<1>6. string_to_path(tokens) = h[N]
  BY <1>3 DEF string_to_path
<1> QED
  BY <1>1, <1>5, <1>6

IsLayout(objects) == IsSequence(objects) /\ \A i \in DOMAIN objects : Declared(objects[i])

\* Whatever stale nodes an object is left with, they come after its own path.
LEMMA ParsedHasPaths ==
  ASSUME NEW objects, IsLayout(objects)
  PROVE  /\ Len(objects) \in Nat /\ DOMAIN Parsed(objects) = 1..Len(objects)
         /\ \A i \in 1..Len(objects) :
              LET item == Parsed(objects)[i]
              IN /\ item.path = objects[i].path /\ item.type = objects[i].type
                 /\ item.id = objects[i].id
                 /\ \A k \in 1..Len(objects[i].path) : item.node[k] = objects[i].path[k]
<1> DEFINE N == Len(objects)
           Leaves(nodes) ==
             nodes = [i \in 0..N |->
                        [k \in 1..Depth |->
                           IF i = 0 THEN NoNode
                           ELSE IF k <= Len(objects[i].path) THEN objects[i].path[k]
                           ELSE IF k <= Len(objects[i].before) THEN objects[i].before[k]
                           ELSE nodes[i - 1][k]]]
           Own     == {objects[i].path[k] : i \in 1..N, k \in 1..Depth}
           Before  == {objects[i].before[k] : i \in 1..N, k \in 1..Depth}
           Strings == {NoNode} \cup Own \cup Before
           A == [1..Depth -> Strings]
<1> HIDE DEF Own, Before
<1>1. N \in Nat /\ DOMAIN objects = 1..N
  BY DEF IsLayout, IsSequence
<1>2. \E nodes : Leaves(nodes)
  <2>1. PICK step : step = [im \in (1..N) \X A |->
                              [k \in 1..Depth |->
                                 IF k <= Len(objects[im[1]].path) THEN objects[im[1]].path[k]
                                 ELSE IF k <= Len(objects[im[1]].before)
                                   THEN objects[im[1]].before[k]
                                 ELSE im[2][k]]]
    OBVIOUS
  <2>2. ASSUME NEW i \in 1..N, NEW m \in A
        PROVE  /\ step[<<i, m>>] \in A
               /\ step[<<i, m>>] = [k \in 1..Depth |->
                                      IF k <= Len(objects[i].path) THEN objects[i].path[k]
                                      ELSE IF k <= Len(objects[i].before)
                                        THEN objects[i].before[k]
                                      ELSE m[k]]
    <3>1. step[<<i, m>>] = [k \in 1..Depth |->
                              IF k <= Len(objects[i].path) THEN objects[i].path[k]
                              ELSE IF k <= Len(objects[i].before) THEN objects[i].before[k]
                              ELSE m[k]]
      BY <2>1
    <3>2. \A k \in 1..Depth : /\ objects[i].path[k] \in Strings
                              /\ objects[i].before[k] \in Strings /\ m[k] \in Strings
      <4> SUFFICES ASSUME NEW k \in 1..Depth
                   PROVE  /\ objects[i].path[k] \in Strings
                          /\ objects[i].before[k] \in Strings /\ m[k] \in Strings
        OBVIOUS
      <4>1. objects[i].path[k] \in Own
        BY DEF Own
      <4>2. objects[i].before[k] \in Before
        BY DEF Before
      <4> QED
        BY <4>1, <4>2
    <3> HIDE DEF Strings
    <3> QED
      BY <3>1, <3>2
  <2>3. step \in [(1..N) \X A -> A]
    <3> HIDE DEF A, N
    <3>1. ASSUME NEW im \in (1..N) \X A PROVE step[im] \in A
      <4>1. im[1] \in 1..N /\ im[2] \in A /\ im = <<im[1], im[2]>>
        OBVIOUS
      <4> QED
        BY <2>2, <4>1
    <3>2. step = [im \in (1..N) \X A |-> step[im]]
      BY <2>1
    <3> QED
      BY <3>1, <3>2
  <2>4. PICK blank : blank = [k \in 1..Depth |-> NoNode]
    OBVIOUS
  <2>5. blank \in A
    BY <2>4
  <2>6. PICK g \in [0..N -> A] : IsCount(N, g, blank, step)
    <3> HIDE DEF N, A
    <3> QED
      BY <1>1, <2>3, <2>5, RecursionExists
  <2>7. ASSUME NEW i \in 0..N
        PROVE  g[i] = [k \in 1..Depth |->
                         IF i = 0 THEN NoNode
                         ELSE IF k <= Len(objects[i].path) THEN objects[i].path[k]
                         ELSE IF k <= Len(objects[i].before) THEN objects[i].before[k]
                         ELSE g[i - 1][k]]
    <3> HIDE DEF A
    <3>1. CASE i = 0
      BY <2>4, <2>6, <3>1 DEF IsCount
    <3>2. CASE i # 0
      <4>1. i \in 1..N /\ i - 1 \in 0..N
        BY <1>1, <3>2
      <4>2. g[i] = step[<<i, g[i - 1]>>] /\ g[i - 1] \in A
        BY <2>6, <4>1 DEF IsCount
      <4> QED
        BY <2>2, <3>2, <4>1, <4>2
    <3> QED
      BY <3>1, <3>2
  <2>8. Leaves(g)
    <3> HIDE DEF A
    <3> QED
      BY <2>6, <2>7
  <2> QED
    BY <2>8
<1>3. PICK h : h = CHOOSE nodes : Leaves(nodes)
  OBVIOUS
<1>4. Leaves(h)
  <2> HIDE DEF Leaves
  <2> QED
    BY <1>2, <1>3
<1>5. Parsed(objects) = [i \in DOMAIN objects |->
                           [path |-> objects[i].path, node |-> h[i],
                            type |-> objects[i].type, id |-> objects[i].id]]
  BY <1>3 DEF Parsed
<1>6. ASSUME NEW i \in 1..N, NEW k \in 1..Len(objects[i].path)
      PROVE  h[i][k] = objects[i].path[k]
  <2>1. Declared(objects[i])
    BY <1>1 DEF IsLayout
  <2>2. k \in 1..Depth /\ k <= Len(objects[i].path)
    BY <2>1, DepthAssumption DEF Declared, IsSequence
  <2>3. i \in 0..N /\ i # 0
    BY <1>1
  <2> QED
    BY <1>4, <2>2, <2>3
<1> QED
  BY <1>1, <1>5, <1>6

\* First takes a member of a set of indices, if there is one.
LEMMA FirstIsIn ==
  ASSUME NEW S \in SUBSET Nat, S # {}
  PROVE  First(S) \in S
<1>1. \E i \in S : \A j \in S : i <= j
  BY LeastNatural
<1> QED
  BY <1>1 DEF First

\* Under no ambiguity the nodes compared are those of the object's own path, and
\* all of them.
LEMMA SameNodesIsSamePath ==
  ASSUME NEW objects, IsLayout(objects), NEW path \in Seq(Usages),
         Unambiguous(Parsed(objects), path), NEW i \in 1..Len(objects)
  PROVE  SameNodes(Parsed(objects)[i], path) <=> Parsed(objects)[i].path = path
<1>1. PICK item : item = Parsed(objects)[i]
  OBVIOUS
<1>2. PICK own : own = objects[i].path
  OBVIOUS
<1>3. item.path = own /\ \A k \in 1..Len(own) : item.node[k] = own[k]
  BY <1>1, <1>2, ParsedHasPaths
<1>4. i \in DOMAIN Parsed(objects) /\ i \in DOMAIN objects
  BY ParsedHasPaths DEF IsLayout, IsSequence
<1>5. ~ProperPrefix(own, path) /\ ~ProperPrefix(path, own)
  BY <1>1, <1>3, <1>4 DEF Unambiguous
<1>6. own \in Seq(Range(own)) /\ Len(own) \in Nat /\ Len(path) \in Nat
  BY <1>2, <1>4 DEF IsLayout, Declared, IsSequence
<1>7. ASSUME SameNodes(item, path) PROVE own = path
  <2>1. \A k \in 1..Len(path) : item.node[k] = path[k]
    BY <1>7 DEF SameNodes
  <2>2. ~(Len(own) < Len(path))
    BY <1>3, <1>5, <1>6, <2>1 DEF ProperPrefix
  <2>3. ~(Len(path) < Len(own))
    BY <1>3, <1>5, <1>6, <2>1 DEF ProperPrefix
  <2>4. Len(own) = Len(path)
    BY <1>6, <2>2, <2>3
  <2>5. \A k \in 1..Len(own) : own[k] = path[k]
    BY <1>3, <2>1, <2>4
  <2> QED
    BY <1>6, <2>4, <2>5, SeqEqual
<1>8. ASSUME own = path PROVE SameNodes(item, path)
  BY <1>3, <1>8 DEF SameNodes
<1> QED
  BY <1>1, <1>3, <1>7, <1>8

\* The lookup of an unambiguous path finds what it is looked up for.
LEMMA LookupIsExactFor ==
  ASSUME NEW objects, IsLayout(objects), NEW tokens, IsSequence(tokens),
         Unambiguous(Parsed(objects), string_to_path(tokens))
  PROVE  nut_hid_find_object(Parsed(objects), tokens)
           = ExactObject(Parsed(objects), string_to_path(tokens))
<1>1. PICK path \in Seq(Usages) : path = string_to_path(tokens)
  BY PathIsSequence
<1>2. PICK its : its = Parsed(objects)
  OBVIOUS
<1>3. DOMAIN its = 1..Len(objects)
  BY <1>2, ParsedHasPaths
<1>4. \A i \in DOMAIN its : SameNodes(its[i], path) <=> its[i].path = path
  BY <1>1, <1>2, <1>3, SameNodesIsSamePath
<1>5. ASSUME NEW type PROVE FindObject_with_Path(its, path, type) = Named(its, path, type)
  <2>1. {i \in DOMAIN its : its[i].type = type /\ SameNodes(its[i], path)}
          = {i \in DOMAIN its : its[i].type = type /\ its[i].path = path}
    BY <1>4
  <2> QED
    BY <2>1 DEF FindObject_with_Path, Named
<1>6. CASE path = <<>>
  <2>1. \A i \in DOMAIN its : its[i].path # <<>>
    <3>1. \A i \in 1..Len(objects) : Declared(objects[i])
      BY DEF IsLayout, IsSequence
    <3> QED
      BY <1>2, <1>3, <3>1, ParsedHasPaths DEF Declared
  <2>2. ASSUME NEW type PROVE Named(its, path, type) = 0
    <3>1. {i \in DOMAIN its : its[i].type = type /\ its[i].path = path} = {}
      BY <1>6, <2>1
    <3> QED
      BY <3>1 DEF Named, First
  <2> QED
    BY <1>1, <1>2, <1>6, <2>2 DEF nut_hid_find_object, ExactObject
<1>7. CASE path # <<>>
  BY <1>1, <1>2, <1>5, <1>7 DEF nut_hid_find_object, ExactObject
<1> QED
  BY <1>6, <1>7

\* What a lookup finds is an object of the descriptor.
LEMMA LookupFindsObject ==
  ASSUME NEW objects, IsLayout(objects), NEW tokens
  PROVE  nut_hid_find_object(Parsed(objects), tokens) \in 0..Len(objects)
<1>1. PICK its : its = Parsed(objects)
  OBVIOUS
<1>2. DOMAIN its = 1..Len(objects) /\ Len(objects) \in Nat
  BY <1>1, ParsedHasPaths
<1>3. ASSUME NEW path, NEW type PROVE FindObject_with_Path(its, path, type) \in 0..Len(objects)
  <2>1. PICK found : found = {i \in DOMAIN its : its[i].type = type /\ SameNodes(its[i], path)}
    OBVIOUS
  <2>2. FindObject_with_Path(its, path, type) = First(found)
    BY <2>1 DEF FindObject_with_Path
  <2>3. found \in SUBSET Nat /\ found \in SUBSET (1..Len(objects))
    BY <1>2, <2>1
  <2>4. CASE found = {}
    <3>1. First(found) = 0
      BY <2>4, Zenon DEF First
    <3>2. 0 \in 0..Len(objects)
      BY <1>2
    <3> QED
      BY <2>2, <3>1, <3>2
  <2>5. CASE found # {}
    <3>1. First(found) \in found
      BY <2>3, <2>5, FirstIsIn
    <3>2. First(found) \in 1..Len(objects)
      BY <2>3, <3>1
    <3>3. 1..Len(objects) \subseteq 0..Len(objects)
      BY <1>2
    <3> QED
      BY <2>2, <3>2, <3>3, Zenon
  <2> QED
    BY <2>4, <2>5
<1>4. PICK path : path = string_to_path(tokens)
  OBVIOUS
<1>5. nut_hid_find_object(its, tokens)
        \in {0, FindObject_with_Path(its, path, "feature"),
            FindObject_with_Path(its, path, "input")}
  BY <1>4, Zenon DEF nut_hid_find_object
<1>6. 0 \in 0..Len(objects)
  BY <1>2
<1> QED
  BY <1>1, <1>3, <1>5, <1>6, Zenon

-----------------------------------------------------------------------------
(* LookupIsExact.                                                          *)

ItemsInv == \E layout \in Layouts : items = Parsed(layout)

ItemsStay == items' = items

\* What TablesAssumption says of every layout.
LEMMA LayoutsAreLayouts ==
  ASSUME NEW layout \in Layouts
  PROVE  IsLayout(layout)
BY TablesAssumption DEF IsLayout

\* Neither the poll nor a list touches the descriptor.
LEMMA NextKeepsItems == Next => ItemsStay
BY DEF Next, Poll, List, StartPoll, RequestFails, AnswerAny, Answer, UpdateVar, NextRequest,
       EndPoll, StartList, ListNext, ListLine, EndList, ListGoes, PollGoes, ItemsStay, listVars

\* The descriptor is that of a layout for good.
LEMMA ItemsInvariant == Spec => []ItemsInv
<1>1. Init => ItemsInv
  BY DEF Init, ItemsInv
<1>2. ItemsInv /\ [Next]_allVars => ItemsInv'
  BY NextKeepsItems DEF ItemsInv, ItemsStay, allVars
<1> QED
  BY <1>1, <1>2, PTL DEF Spec

\* The two-way lookup in the arrays with their stale nodes finds exactly the
\* object of an unambiguous path, whatever the descriptor and the tables.
THEOREM LookupFindsTheObject == Spec => []LookupIsExact
<1>1. ItemsInv => LookupIsExact
  <2> SUFFICES ASSUME ItemsInv, NEW entry \in Range(ReadMap) \cup Range(MoreMap),
                      Unambiguous(items, string_to_path(entry.path))
               PROVE  nut_hid_find_object(items, entry.path)
                        = ExactObject(items, string_to_path(entry.path))
    BY DEF LookupIsExact
  <2>1. PICK layout \in Layouts : items = Parsed(layout)
    BY DEF ItemsInv
  <2>2. IsSequence(entry.path)
    BY TablesAssumption
  <2> QED
    BY <2>1, <2>2, LayoutsAreLayouts, LookupIsExactFor
<1> QED
  BY <1>1, ItemsInvariant, PTL

-----------------------------------------------------------------------------
(* The table of variables and the plan of requests, as they are resolved.  *)

Entries   == Range(ReadMap) \cup Range(MoreMap)
TheNames  == {entry.name : entry \in Entries}
Unset(N)  == [name : TheNames, convert : Converts, item : 1..N, value : {0}, valid : {FALSE}]

\* The same, for a sequence: with what the step is applied to.
IsFoldOf(g, base, seq, op, A, S) ==
  /\ g \in [SUBSET DOMAIN seq -> A]
  /\ g[{}] = base
  /\ \A s \in SUBSET DOMAIN seq : s # {} =>
       /\ g[s \ {Largest(s)}] \in A /\ seq[Largest(s)] \in S
       /\ g[s] = op[<<g[s \ {Largest(s)}], seq[Largest(s)]>>]

\* A fold over a sequence, from the left, one element after the other.
LEMMA FoldOfSequence ==
  ASSUME NEW A, NEW base \in A, NEW S, NEW seq \in Seq(S), NEW op \in [A \X S -> A]
  PROVE  \E g : IsFoldOf(g, base, seq, op, A, S)
<1>1. Len(seq) \in Nat /\ DOMAIN seq = 1..Len(seq) /\ seq \in [1..Len(seq) -> S]
  OBVIOUS
<1>2. PICK g \in [SUBSET (1..Len(seq)) -> A] : IsFold(Len(seq), g, base, seq, op)
  BY <1>1, FoldExists
<1>3. g[{}] = base
  <2>1. {} \in SUBSET (1..Len(seq))
    OBVIOUS
  <2> QED
    BY <1>2, <2>1, Zenon DEF IsFold
<1>4. ASSUME NEW s \in SUBSET DOMAIN seq, s # {}
      PROVE  /\ g[s \ {Largest(s)}] \in A /\ seq[Largest(s)] \in S
             /\ g[s] = op[<<g[s \ {Largest(s)}], seq[Largest(s)]>>]
  <2>1. Largest(s) \in 1..Len(seq)
    BY <1>1, <1>4, LargestIsIn
  <2>2. g[s \ {Largest(s)}] \in A /\ seq[Largest(s)] \in S
    BY <1>1, <1>2, <2>1
  <2>3. g[s] = op[<<g[s \ {Largest(s)}], seq[Largest(s)]>>]
    BY <1>1, <1>2, <1>4, Zenon DEF IsFold
  <2> QED
    BY <2>2, <2>3
<1>5. g \in [SUBSET DOMAIN seq -> A]
  BY <1>1, <1>2
<1> QED
  BY <1>3, <1>4, <1>5, Zenon DEF IsFoldOf

\* The initial segments are the sets a fold goes through.
LEMMA Segments ==
  ASSUME NEW N \in Nat, NEW n \in 1..N
  PROVE  /\ 1..n \in SUBSET (1..N) /\ 1..n # {}
         /\ Largest(1..n) = n /\ (1..n) \ {n} = 1..(n - 1)
<1>1. PICK s : s = 1..n
  OBVIOUS
<1>2. n \in s /\ s \in SUBSET (1..n) /\ s \ {n} = 1..(n - 1)
  BY <1>1
<1>3. Largest(s) = n
  BY <1>2, LargestOfInterval
<1>4. \A x \in s : x \in 1..N
  BY <1>1
<1> QED
  BY <1>1, <1>2, <1>3, <1>4, Zenon

\* What the step keeps, the fold has.
LEMMA FoldIsIn ==
  ASSUME NEW S, NEW seq \in Seq(S), NEW A, NEW h, h[{}] \in A,
         \A s \in SUBSET DOMAIN seq :
           s # {} /\ seq[Largest(s)] \in S /\ h[s \ {Largest(s)}] \in A => h[s] \in A
  PROVE  h[DOMAIN seq] \in A
<1> DEFINE N == Len(seq)
           P == {n \in 0..N : h[1..n] \in A}
<1>1. N \in Nat /\ DOMAIN seq = 1..N /\ \A n \in 1..N : seq[n] \in S
  OBVIOUS
<1>2. 0 \in P
  <2>1. 0 \in 0..N /\ 1..0 = {}
    OBVIOUS
  <2> QED
    BY <2>1
<1>3. ASSUME NEW n \in 1..N, n - 1 \in P PROVE n \in P
  <2> HIDE DEF N
  <2>1. n \in 0..N
    BY <1>1
  <2>2. PICK s : s = 1..n
    OBVIOUS
  <2>3. s \in SUBSET DOMAIN seq /\ s # {} /\ Largest(s) = n /\ s \ {n} = 1..(n - 1)
    BY <1>1, <2>2, Segments
  <2>4. seq[Largest(s)] \in S /\ h[s \ {Largest(s)}] \in A
    BY <1>1, <1>3, <2>3
  <2>5. h[s] \in A
    BY <2>3, <2>4, Zenon
  <2> QED
    BY <2>1, <2>2, <2>5, Zenon
<1>4. \A n \in 0..N : n \in P
  <2> HIDE DEF P, N
  <2> QED
    BY <1>1, <1>2, <1>3, UpTo
<1>5. N \in 0..N
  BY <1>1
<1> QED
  BY <1>1, <1>4, <1>5, Zenon

\* An entry whose path is found becomes a variable of the object found, unset.
LEMMA EntryResolves ==
  ASSUME NEW objects, IsLayout(objects), NEW entry \in Entries,
         nut_hid_find_object(Parsed(objects), entry.path) # 0
  PROVE  Resolved(Parsed(objects), entry) \in Unset(Len(objects))
<1>1. nut_hid_find_object(Parsed(objects), entry.path) \in 1..Len(objects)
  <2>1. Len(objects) \in Nat
    BY ParsedHasPaths
  <2> QED
    BY <2>1, LookupFindsObject
<1>2. entry.name \in TheNames
  BY DEF TheNames
<1>3. entry.convert \in Converts
  BY TablesAssumption DEF Entries, Range, Converts
<1> QED
  BY <1>1, <1>2, <1>3 DEF Resolved, Unset

\* Either step of the fold keeps the table a table.
LEMMA TableGrows ==
  ASSUME NEW objects, IsLayout(objects), NEW entry \in Entries,
         NEW vs \in Seq(Unset(Len(objects)))
  PROVE  (IF nut_hid_find_object(Parsed(objects), entry.path) = 0
            THEN vs ELSE Append(vs, Resolved(Parsed(objects), entry)))
           \in Seq(Unset(Len(objects)))
<1>1. CASE nut_hid_find_object(Parsed(objects), entry.path) = 0
  BY <1>1
<1>2. CASE nut_hid_find_object(Parsed(objects), entry.path) # 0
  <2>1. Resolved(Parsed(objects), entry) \in Unset(Len(objects))
    BY <1>2, EntryResolves
  <2> QED
    BY <1>2, <2>1, AppendProperties
<1> QED
  BY <1>1, <1>2

\* Every variable of the table is of an entry that resolved, and is not valid.
LEMMA ResolveIsTable ==
  ASSUME NEW objects, IsLayout(objects)
  PROVE  Resolve(Parsed(objects)) \in Seq(Unset(Len(objects)))
<1> DEFINE its == Parsed(objects)
           A   == Seq(Unset(Len(objects)))
           Add(vs, entry) ==
             IF nut_hid_find_object(its, entry.path) = 0
               THEN vs ELSE Append(vs, Resolved(its, entry))
           AddFirst(vs, entry) ==
             IF \E i \in DOMAIN vs : vs[i].name = entry.name THEN vs ELSE Add(vs, entry)
           Folds(it, base, seq) ==
             it = [s \in SUBSET DOMAIN seq |->
                     IF s = {} THEN base ELSE Add(it[s \ {Largest(s)}], seq[Largest(s)])]
           FoldsFirst(it, base, seq) ==
             it = [s \in SUBSET DOMAIN seq |->
                     IF s = {} THEN base ELSE AddFirst(it[s \ {Largest(s)}], seq[Largest(s)])]
<1>1. ASSUME NEW vs \in A, NEW entry \in Entries PROVE Add(vs, entry) \in A
  BY <1>1, TableGrows
<1>2. ASSUME NEW vs \in A, NEW entry \in Entries PROVE AddFirst(vs, entry) \in A
  <2> HIDE DEF Add, A
  <2> QED
    BY <1>1
<1>3. <<>> \in A
  OBVIOUS
<1>4. PICK first : first = FoldLeft(AddFirst, <<>>, ReadMap)
  OBVIOUS
<1>5. Resolve(its) = FoldLeft(Add, first, MoreMap)
  BY <1>4 DEF Resolve
<1>6. FoldLeft(Add, first, MoreMap) = (CHOOSE it : Folds(it, first, MoreMap))[DOMAIN MoreMap]
  <2> HIDE DEF its
  <2> QED
    BY DEF FoldLeft, MapThenFoldSet, Max, Largest
<1>7. first = (CHOOSE it : FoldsFirst(it, <<>>, ReadMap))[DOMAIN ReadMap]
  <2> HIDE DEF its
  <2> QED
    BY <1>4 DEF FoldLeft, MapThenFoldSet, Max, Largest
<1>8. ASSUME NEW base \in A, NEW seq \in Seq(Entries)
      PROVE  (CHOOSE it : Folds(it, base, seq))[DOMAIN seq] \in A
  <2> HIDE DEF Add, A
  <2>1. PICK op : op = [p \in A \X Entries |-> Add(p[1], p[2])]
    OBVIOUS
  <2>2. op \in [A \X Entries -> A]
    BY <1>1, <2>1
  <2>3. PICK g : IsFoldOf(g, base, seq, op, A, Entries)
    BY <2>2, FoldOfSequence
  <2>4. Folds(g, base, seq)
    BY <2>1, <2>3 DEF IsFoldOf
  <2>5. PICK h : h = CHOOSE it : Folds(it, base, seq)
    OBVIOUS
  <2>6. Folds(h, base, seq)
    <3> HIDE DEF Folds
    <3> QED
      BY <2>4, <2>5
  <2>7. h[{}] = base
    BY <2>6
  <2>8. ASSUME NEW s \in SUBSET DOMAIN seq, s # {}, seq[Largest(s)] \in Entries,
               h[s \ {Largest(s)}] \in A
        PROVE  h[s] \in A
    <3>1. h[s] = Add(h[s \ {Largest(s)}], seq[Largest(s)])
      BY <2>6, <2>8, Zenon
    <3> QED
      BY <1>1, <2>8, <3>1
  <2>9. h[DOMAIN seq] \in A
    <3> HIDE DEF Folds
    <3> QED
      BY <2>7, <2>8, FoldIsIn
  <2> QED
    BY <2>5, <2>9
<1>9. ASSUME NEW base \in A, NEW seq \in Seq(Entries)
      PROVE  (CHOOSE it : FoldsFirst(it, base, seq))[DOMAIN seq] \in A
  <2> HIDE DEF AddFirst, A
  <2>1. PICK op : op = [p \in A \X Entries |-> AddFirst(p[1], p[2])]
    OBVIOUS
  <2>2. op \in [A \X Entries -> A]
    BY <1>2, <2>1
  <2>3. PICK g : IsFoldOf(g, base, seq, op, A, Entries)
    BY <2>2, FoldOfSequence
  <2>4. FoldsFirst(g, base, seq)
    BY <2>1, <2>3 DEF IsFoldOf
  <2>5. PICK h : h = CHOOSE it : FoldsFirst(it, base, seq)
    OBVIOUS
  <2>6. FoldsFirst(h, base, seq)
    <3> HIDE DEF FoldsFirst
    <3> QED
      BY <2>4, <2>5
  <2>7. h[{}] = base
    BY <2>6
  <2>8. ASSUME NEW s \in SUBSET DOMAIN seq, s # {}, seq[Largest(s)] \in Entries,
               h[s \ {Largest(s)}] \in A
        PROVE  h[s] \in A
    <3>1. h[s] = AddFirst(h[s \ {Largest(s)}], seq[Largest(s)])
      BY <2>6, <2>8, Zenon
    <3> QED
      BY <1>2, <2>8, <3>1
  <2>9. h[DOMAIN seq] \in A
    <3> HIDE DEF FoldsFirst
    <3> QED
      BY <2>7, <2>8, FoldIsIn
  <2> QED
    BY <2>5, <2>9
<1>10. ReadMap \in Seq(Entries) /\ MoreMap \in Seq(Entries)
  BY TablesAssumption DEF IsSequence, Entries
<1> HIDE DEF Folds, FoldsFirst, A
<1>11. first \in A
  BY <1>3, <1>7, <1>9, <1>10
<1>12. Resolve(its) \in A
  BY <1>5, <1>6, <1>8, <1>10, <1>11
<1> QED
  BY <1>12 DEF A

\* The requests there can be for a descriptor.
Requests(its) ==
  [id : {its[i].id : i \in DOMAIN its}, type : {its[i].type : i \in DOMAIN its}]

Added(plan, item) ==
  IF Planned(plan, item) THEN plan ELSE Append(plan, [id |-> item.id, type |-> item.type])

\* Planning a report adds it and drops none.
LEMMA AddedIsPlanned ==
  ASSUME NEW its, NEW i \in DOMAIN its, NEW plan \in Seq(Requests(its))
  PROVE  /\ Added(plan, its[i]) \in Seq(Requests(its))
         /\ Planned(Added(plan, its[i]), its[i])
         /\ \A item : Planned(plan, item) => Planned(Added(plan, its[i]), item)
<1>1. CASE Planned(plan, its[i])
  BY <1>1 DEF Added
<1>2. CASE ~Planned(plan, its[i])
  <2>1. PICK r : r = [id |-> its[i].id, type |-> its[i].type]
    OBVIOUS
  <2>2. r \in Requests(its) /\ Covers(r, its[i])
    BY <2>1 DEF Requests, Covers
  <2>3. PICK new : new = Append(plan, r)
    OBVIOUS
  <2>4. new \in Seq(Requests(its)) /\ Len(new) = Len(plan) + 1
    BY <2>2, <2>3, AppendProperties
  <2>5. new[Len(plan) + 1] = r /\ \A k \in 1..Len(plan) : new[k] = plan[k]
    BY <2>2, <2>3, AppendProperties
  <2>6. /\ Len(plan) + 1 \in DOMAIN new
        /\ DOMAIN plan = 1..Len(plan) /\ \A k \in DOMAIN plan : k \in DOMAIN new
    BY <2>4
  <2>7. Planned(new, its[i])
    BY <2>2, <2>5, <2>6 DEF Planned
  <2>8. \A item : Planned(plan, item) => Planned(new, item)
    BY <2>5, <2>6 DEF Planned
  <2>9. Added(plan, its[i]) = new
    BY <1>2, <2>1, <2>3 DEF Added
  <2> QED
    BY <2>4, <2>7, <2>8, <2>9
<1> QED
  BY <1>1, <1>2

\* The plan has a request for the report of every variable.
LEMMA PlanHasAll ==
  ASSUME NEW its, NEW V, NEW vs \in Seq(V), \A v \in V : v.item \in DOMAIN its
  PROVE  /\ Plan(its, vs) \in Seq(Requests(its))
         /\ \A k \in DOMAIN vs : Planned(Plan(its, vs), its[vs[k].item])
<1> DEFINE A == Seq(Requests(its))
           add_request(plan, v) ==
             IF Planned(plan, its[v.item]) THEN plan
             ELSE Append(plan, [id |-> its[v.item].id, type |-> its[v.item].type])
           Folds(it) ==
             it = [s \in SUBSET DOMAIN vs |->
                     IF s = {} THEN <<>>
                     ELSE add_request(it[s \ {Largest(s)}], vs[Largest(s)])]
           Has(plan, n) == /\ plan \in A
                           /\ \A k \in 1..n : Planned(plan, its[vs[k].item])
<1>1. Plan(its, vs) = (CHOOSE it : Folds(it))[DOMAIN vs]
  BY DEF Plan, FoldLeft, MapThenFoldSet, Max, Largest
<1>2. ASSUME NEW plan \in A, NEW v \in V
      PROVE  /\ add_request(plan, v) \in A
             /\ Planned(add_request(plan, v), its[v.item])
             /\ \A item : Planned(plan, item) => Planned(add_request(plan, v), item)
  <2>1. add_request(plan, v) = Added(plan, its[v.item])
    BY DEF Added
  <2> HIDE DEF add_request
  <2> QED
    BY <2>1, AddedIsPlanned
<1> HIDE DEF add_request, A
<1>3. Len(vs) \in Nat /\ DOMAIN vs = 1..Len(vs) /\ \A k \in 1..Len(vs) : vs[k] \in V
  OBVIOUS
<1>4. <<>> \in A
  BY DEF A
<1>5. PICK op : op = [p \in A \X V |-> add_request(p[1], p[2])]
  OBVIOUS
<1>6. op \in [A \X V -> A]
  BY <1>2, <1>5
<1>7. PICK g : IsFoldOf(g, <<>>, vs, op, A, V)
  BY <1>4, <1>6, FoldOfSequence
<1>8. Folds(g)
  BY <1>5, <1>7 DEF IsFoldOf
<1>9. PICK h : h = CHOOSE it : Folds(it)
  OBVIOUS
<1>10. Folds(h)
  <2> HIDE DEF Folds
  <2> QED
    BY <1>8, <1>9
<1>11. Has(h[{}], 0)
  BY <1>4, <1>10
<1>12. ASSUME NEW n \in 1..Len(vs), Has(h[1..(n - 1)], n - 1)
       PROVE  Has(h[1..n], n)
  <2>1. PICK s : s = 1..n
    OBVIOUS
  <2>2. s \in SUBSET DOMAIN vs /\ s # {} /\ Largest(s) = n /\ s \ {n} = 1..(n - 1)
    BY <1>3, <2>1, Segments
  <2>3. PICK before : before = h[1..(n - 1)]
    OBVIOUS
  <2>4. h[s] = add_request(h[s \ {Largest(s)}], vs[Largest(s)])
    BY <1>10, <2>2, Zenon
  <2>5. h[s] = add_request(before, vs[n])
    BY <2>2, <2>3, <2>4
  <2>6. before \in A /\ \A k \in 1..(n - 1) : Planned(before, its[vs[k].item])
    BY <1>12, <2>3
  <2>7. vs[n] \in V
    BY <1>3
  <2>8. h[s] \in A /\ Planned(h[s], its[vs[n].item])
    BY <1>2, <2>5, <2>6, <2>7
  <2>9. \A k \in 1..(n - 1) : Planned(h[s], its[vs[k].item])
    BY <1>2, <2>5, <2>6, <2>7
  <2>10. \A k \in 1..n : k = n \/ k \in 1..(n - 1)
    OBVIOUS
  <2>11. \A k \in 1..n : Planned(h[s], its[vs[k].item])
    BY <2>8, <2>9, <2>10, Zenon
  <2> QED
    BY <2>1, <2>8, <2>11, Zenon
<1> DEFINE P == {n \in 0..Len(vs) : Has(h[1..n], n)}
<1>13. 0 \in P
  <2>1. 0 \in 0..Len(vs) /\ 1..0 = {}
    BY <1>3
  <2> HIDE DEF Has
  <2> QED
    BY <1>11, <2>1
<1>14. ASSUME NEW n \in 1..Len(vs), n - 1 \in P PROVE n \in P
  <2>1. n \in 0..Len(vs)
    BY <1>3
  <2> HIDE DEF Has
  <2> QED
    BY <1>12, <1>14, <2>1
<1>15. \A n \in 0..Len(vs) : n \in P
  <2> HIDE DEF P
  <2> QED
    BY <1>3, <1>13, <1>14, UpTo
<1>16. Has(h[DOMAIN vs], Len(vs))
  <2>1. Len(vs) \in 0..Len(vs)
    BY <1>3
  <2> HIDE DEF Has
  <2> QED
    BY <1>3, <1>15, <2>1, Zenon
<1> QED
  BY <1>1, <1>3, <1>9, <1>16 DEF A

-----------------------------------------------------------------------------
(* The poll.                                                               *)

Bytes     == Values \cup {0} \cup {items[i].id : i \in DOMAIN items}
Variables == [name : TheNames, convert : Converts, item : DOMAIN items,
              value : Bytes, valid : BOOLEAN]

TableInv == vars_ \in Seq(Variables) /\ vi \in Nat \ {0}

PlanInv ==
  /\ report_requests_ \in Seq(Requests(items))
  /\ \A k \in DOMAIN vars_ : Planned(report_requests_, items[vars_[k].item])

WhereInv ==
  /\ ppc \in {"rest", "request", "update"} /\ req \in Nat \ {0}
  /\ ppc = "update" => req <= Len(report_requests_)

BufferInv ==
  /\ report_buffer \in [0..Len(items) -> Bytes]
  /\ told \in [DOMAIN items -> Values \cup {Untold, Dubious}]

\* While the variables are updated, every object of the report has been answered
\* for, and one that was told has its field at its byte of the buffer.
AnswerInBuffer ==
  ppc = "update" =>
    \A i \in DOMAIN items :
      Covers(Request, items[i]) =>
        told[i] # Untold /\ (told[i] >= 0 => report_buffer[Position(i)] = told[i])

Plain(v) == v.convert \in {"number", "internal"}

\* What a poll without a failure has served so far.
ServedSoFar ==
  clean /\ ppc # "rest" =>
    \A k \in DOMAIN vars_, r \in DOMAIN report_requests_ :
      /\ Plain(vars_[k]) /\ Covers(report_requests_[r], items[vars_[k].item])
      /\ r < req \/ (ppc = "update" /\ r = req /\ k < vi)
      => vars_[k].valid

PollTypes == ItemsInv /\ TableInv /\ PlanInv /\ WhereInv /\ BufferInv

\* The items are a sequence, as long as the layout.
LEMMA ParsedIsSequence ==
  ASSUME NEW objects, IsLayout(objects)
  PROVE  /\ Parsed(objects) \in Seq(Range(Parsed(objects)))
         /\ Len(Parsed(objects)) = Len(objects)
<1>1. Len(objects) \in Nat /\ DOMAIN Parsed(objects) = 1..Len(objects)
  BY ParsedHasPaths
<1>2. \E f : Parsed(objects) = [i \in DOMAIN objects |-> f[i]]
  <2>1. PICK nodes : Parsed(objects)
                       = [i \in DOMAIN objects |->
                            [path |-> objects[i].path, node |-> nodes[i],
                             type |-> objects[i].type, id |-> objects[i].id]]
    BY DEF Parsed
  <2> QED
    BY <2>1
<1>3. PICK its : its = Parsed(objects)
  OBVIOUS
<1>4. its = [i \in DOMAIN its |-> its[i]]
  BY <1>2, <1>3
<1>5. its \in [1..Len(objects) -> Range(its)]
  BY <1>1, <1>3, <1>4 DEF Range
<1> QED
  BY <1>1, <1>3, <1>5

\* The objects are a sequence.
LEMMA ItemsFacts ==
  ASSUME ItemsInv
  PROVE  Len(items) \in Nat /\ DOMAIN items = 1..Len(items)
<1>1. PICK layout \in Layouts : items = Parsed(layout)
  BY DEF ItemsInv
<1>2. IsLayout(layout)
  BY LayoutsAreLayouts
<1> QED
  BY <1>1, <1>2, ParsedHasPaths, ParsedIsSequence

\* The variables are a sequence, each of an object that exists.
LEMMA TableFacts ==
  ASSUME TableInv
  PROVE  /\ Len(vars_) \in Nat /\ DOMAIN vars_ = 1..Len(vars_)
         /\ \A k \in DOMAIN vars_ : vars_[k] \in Variables /\ vars_[k].item \in DOMAIN items
<1>1. vars_ \in Seq(Variables)
  BY DEF TableInv
<1>2. \A k \in DOMAIN vars_ : vars_[k] \in Variables
  BY <1>1
<1>3. \A v \in Variables : v.item \in DOMAIN items
  BY DEF Variables
<1> QED
  BY <1>1, <1>2, <1>3

\* Every object has its byte in the buffer.
LEMMA PositionInBuffer ==
  ASSUME ItemsInv, NEW i \in DOMAIN items
  PROVE  Position(i) \in 1..Len(items)
<1>1. Len(items) \in Nat /\ i \in 1..Len(items)
  BY ItemsFacts
<1>2. PICK T : T = {j \in 1..i : Covers(items[j], items[i])}
  OBVIOUS
<1>3. T \subseteq 1..i /\ i \in T
  BY <1>1, <1>2 DEF Covers
<1>4. IsFiniteSet(1..i) /\ Cardinality(1..i) = i
  BY <1>1, FS_Interval
<1>5. IsFiniteSet(T) /\ Cardinality(T) \in Nat /\ Cardinality(T) <= i
  BY <1>3, <1>4, FS_Subset, FS_CardinalityType
<1>6. Cardinality(T) # 0
  BY <1>3, <1>5, FS_EmptySet
<1>7. Position(i) = Cardinality(T)
  BY <1>2 DEF Position
<1> QED
  BY <1>1, <1>5, <1>6, <1>7

\* The fields of a report can be counted.
LEMMA FieldsIsNatural ==
  ASSUME ItemsInv, NEW request
  PROVE  Fields(request) \in Nat
<1>1. PICK T : T = {j \in DOMAIN items : Covers(request, items[j])}
  OBVIOUS
<1>2. IsFiniteSet(DOMAIN items)
  BY ItemsFacts, FS_Interval
<1>3. T \subseteq DOMAIN items
  BY <1>1
<1>4. IsFiniteSet(T) /\ Cardinality(T) \in Nat
  BY <1>2, <1>3, FS_Subset, FS_CardinalityType
<1> QED
  BY <1>1, <1>4 DEF Fields

\* What an answer leaves in the buffer: values and report IDs only, and each
\* field that is told at its byte.
LEMMA AnswerIsCopied ==
  ASSUME PollTypes, NEW type \in Types,
         NEW data \in [1..Fields(Sent(type)) -> Values], NEW withId \in BOOLEAN,
         NEW n \in 1..(Fields(Sent(type)) + 1), Answer(type, data, withId, n)
  PROVE  /\ report_buffer' \in [0..Len(items) -> Bytes]
         /\ \A i \in DOMAIN items :
              /\ Said(i, type, data, withId, n) \in Values \cup {Dubious}
              /\ Said(i, type, data, withId, n) # Dubious
                   => report_buffer'[Position(i)] = Said(i, type, data, withId, n)
<1> DEFINE N == Len(items)
           F == Fields(Sent(type))
<1>1. N \in Nat /\ DOMAIN items = 1..N /\ F \in Nat
  BY ItemsFacts, FieldsIsNatural DEF PollTypes
<1>2. PICK id \in Bytes : id = Request.id
  <2>1. Request \in Requests(items)
    BY DEF PollTypes, PlanInv, WhereInv, Answer, Asked, Request
  <2> QED
    BY <2>1 DEF Requests, Bytes
<1>3. PICK bytes : bytes = IF withId THEN <<id>> \o data ELSE data
  OBVIOUS
<1>4. PICK buf : buf = Copied(bytes, n)
  OBVIOUS
<1>5. /\ n <= Len(bytes) /\ report_buffer' = Fronted(buf, n, id)
      /\ report_buffer \in [0..N -> Bytes]
  BY <1>2, <1>3, <1>4 DEF Answer, PollTypes, BufferInv
<1>6. data \in Seq(Values) /\ Len(data) = F /\ \A p \in 1..F : data[p] \in Values
  BY <1>1
<1>7. /\ bytes \in Seq(Bytes)
      /\ Len(bytes) = IF withId THEN F + 1 ELSE F
      /\ \A k \in 1..Len(bytes) :
           bytes[k] = IF withId THEN IF k = 1 THEN id ELSE data[k - 1] ELSE data[k]
  <2>1. data \in Seq(Bytes)
    BY <1>6 DEF Bytes
  <2>2. CASE withId
    <3>1. PICK front : front = <<id>>
      OBVIOUS
    <3>2. front \in Seq(Bytes) /\ Len(front) = 1 /\ front[1] = id
      BY <1>2, <3>1
    <3>3. bytes = front \o data
      BY <1>3, <2>2, <3>1
    <3>4. /\ bytes \in Seq(Bytes) /\ Len(bytes) = 1 + Len(data)
          /\ \A k \in 1..(1 + Len(data)) :
               bytes[k] = IF k <= 1 THEN front[k] ELSE data[k - 1]
      <4> HIDE DEF F
      <4>1. /\ front \o data \in Seq(Bytes)
            /\ Len(front \o data) = Len(front) + Len(data)
            /\ \A k \in 1..(Len(front) + Len(data)) :
                 (front \o data)[k] = IF k <= Len(front) THEN front[k]
                                      ELSE data[k - Len(front)]
        BY <2>1, <3>2, ConcatProperties, Zenon
      <4> QED
        BY <3>2, <3>3, <4>1
    <3>5. Len(bytes) = F + 1
      BY <1>1, <1>6, <3>4
    <3>6. \A k \in 1..Len(bytes) : bytes[k] = IF k = 1 THEN id ELSE data[k - 1]
      BY <1>1, <1>6, <3>2, <3>4
    <3> QED
      BY <2>2, <3>4, <3>5, <3>6
  <2>3. CASE ~withId
    BY <1>1, <1>3, <1>6, <2>1, <2>3
  <2> QED
    BY <2>2, <2>3
<1>8. n \in Nat \ {0}
  BY <1>1
<1> HIDE DEF N, F
<1>9. buf = [k \in 0..N |-> IF k < n THEN bytes[k + 1] ELSE report_buffer[k]]
  BY <1>4, <1>5 DEF Copied
<1>10. ASSUME NEW k \in 0..N
       PROVE  /\ buf[k] \in Bytes
              /\ k < n => k + 1 \in 1..Len(bytes) /\ buf[k] = bytes[k + 1]
  BY <1>1, <1>5, <1>7, <1>8, <1>9
<1>11. buf \in [0..N -> Bytes]
  BY <1>9, <1>10
<1>12. 0 \in 0..N
  BY <1>1
<1>13. report_buffer' = IF buf[0] = id THEN buf
                        ELSE [k \in 0..N |->
                                IF k = 0 THEN id ELSE IF k <= n THEN buf[k - 1] ELSE buf[k]]
  BY <1>5, <1>11 DEF Fronted
<1>14. report_buffer' \in [0..N -> Bytes]
  BY <1>1, <1>2, <1>11, <1>13
<1>15. ASSUME NEW i \in DOMAIN items
       PROVE  /\ Said(i, type, data, withId, n) \in Values \cup {Dubious}
              /\ Said(i, type, data, withId, n) # Dubious
                   => report_buffer'[Position(i)] = Said(i, type, data, withId, n)
  <2>1. PICK p \in 1..N : p = Position(i)
    BY PositionInBuffer DEF N, PollTypes
  <2>2. Said(i, type, data, withId, n)
          = IF /\ type = Request.type
               /\ (withId /\ p < n) \/ (~withId /\ p <= n /\ data[1] # id)
              THEN data[p] ELSE Dubious
    BY <1>2, <2>1 DEF Said
  <2>3. p \in 0..N /\ p - 1 \in 0..N /\ p # 0
    BY <1>1, <2>1
  <2>4. CASE type = Request.type /\ withId /\ p < n
    <3>1. p + 1 \in 1..Len(bytes) /\ buf[p] = bytes[p + 1]
      BY <1>10, <2>3, <2>4
    <3>2. p \in 1..F /\ bytes[p + 1] = data[p]
      BY <1>1, <1>7, <2>3, <2>4, <3>1
    <3>3. data[p] \in Values
      BY <1>6, <3>2
    <3>4. buf[0] = id
      BY <1>7, <1>8, <1>10, <1>12, <2>4
    <3>5. report_buffer'[p] = data[p]
      BY <1>13, <3>1, <3>2, <3>4
    <3> QED
      BY <2>1, <2>2, <2>4, <3>3, <3>5
  <2>5. CASE type = Request.type /\ ~withId /\ p <= n /\ data[1] # id
    <3>1. p \in 1..Len(bytes) /\ buf[p - 1] = bytes[p]
      BY <1>10, <1>8, <2>3, <2>5
    <3>2. p \in 1..F /\ bytes[p] = data[p]
      BY <1>1, <1>7, <2>3, <2>5, <3>1
    <3>3. data[p] \in Values
      BY <1>6, <3>2
    <3>4. buf[0] # id
      <4>1. 0 + 1 \in 1..Len(bytes) /\ buf[0] = bytes[0 + 1]
        BY <1>10, <1>8, <1>12
      <4> QED
        BY <1>7, <2>5, <4>1
    <3>5. report_buffer'[p] = data[p]
      BY <1>13, <2>3, <2>5, <3>1, <3>2, <3>4
    <3> QED
      BY <2>1, <2>2, <2>5, <3>3, <3>5
  <2>6. CASE ~(/\ type = Request.type
               /\ (withId /\ p < n) \/ (~withId /\ p <= n /\ data[1] # id))
    BY <2>2, <2>6
  <2> QED
    BY <2>4, <2>5, <2>6
<1> QED
  BY <1>14, <1>15 DEF N

\* One turn of the loop over the variables touches the one it is at, and sets it
\* from its byte of the buffer if the report is its own and the value is taken.
LEMMA UpdateStep ==
  ASSUME PollTypes, UpdateVar
  PROVE  /\ vi \in DOMAIN vars_ /\ vars_' \in Seq(Variables) /\ Len(vars_') = Len(vars_)
         /\ \A k \in DOMAIN vars_ :
              /\ vars_'[k].name = vars_[k].name /\ vars_'[k].convert = vars_[k].convert
              /\ vars_'[k].item = vars_[k].item
              /\ vars_[k].valid => vars_'[k].valid
              /\ k # vi \/ ~Updates(vars_[vi]) => vars_'[k] = vars_[k]
         /\ vars_'[vi] # vars_[vi] =>
              /\ Updates(vars_[vi]) /\ vars_'[vi].valid
              /\ vars_'[vi].value = report_buffer[Position(vars_[vi].item)]
         /\ Updates(vars_[vi]) /\ (\/ vars_[vi].convert \in {"number", "internal"}
                                   \/ /\ vars_[vi].convert = "lookup"
                                      /\ report_buffer[Position(vars_[vi].item)] \in 1..MaxEntry)
              => /\ vars_'[vi].valid
                 /\ vars_'[vi].value = report_buffer[Position(vars_[vi].item)]
<1>1. /\ Len(vars_) \in Nat /\ DOMAIN vars_ = 1..Len(vars_)
      /\ \A k \in DOMAIN vars_ : vars_[k] \in Variables /\ vars_[k].item \in DOMAIN items
  BY TableFacts DEF PollTypes
<1>2. vi \in DOMAIN vars_
  BY <1>1 DEF UpdateVar, PollTypes, TableInv
<1>3. PICK v \in Variables : v = vars_[vi] /\ v.item \in DOMAIN items
  BY <1>1, <1>2
<1>4. PICK logical : logical = report_buffer[Position(v.item)]
  OBVIOUS
<1>5. logical \in Bytes
  <2>1. Position(v.item) \in 1..Len(items) /\ Len(items) \in Nat
    BY <1>3, PositionInBuffer, ItemsFacts DEF PollTypes
  <2>2. Position(v.item) \in 0..Len(items) /\ report_buffer \in [0..Len(items) -> Bytes]
    BY <2>1 DEF PollTypes, BufferInv
  <2> QED
    BY <1>4, <2>2
<1>6. PICK fetched \in BOOLEAN :
        vars_' = IF Updates(v) /\ Accepts(v.convert, logical, fetched)
                   THEN [vars_ EXCEPT ![vi].value = logical, ![vi].valid = TRUE] ELSE vars_
  BY <1>3, <1>4, Zenon DEF UpdateVar
<1>7. vars_ \in Seq(Variables)
  BY DEF PollTypes, TableInv
<1>8. CASE ~(Updates(v) /\ Accepts(v.convert, logical, fetched))
  <2>1. vars_' = vars_
    BY <1>6, <1>8, Zenon
  <2>2. ~(/\ Updates(v)
          /\ \/ v.convert \in {"number", "internal"}
             \/ v.convert = "lookup" /\ logical \in 1..MaxEntry)
    BY <1>8 DEF Accepts
  <2>3. \A k \in DOMAIN vars_ :
          /\ vars_'[k].name = vars_[k].name /\ vars_'[k].convert = vars_[k].convert
          /\ vars_'[k].item = vars_[k].item
          /\ vars_[k].valid => vars_'[k].valid
          /\ k # vi \/ ~Updates(vars_[vi]) => vars_'[k] = vars_[k]
    BY <2>1, Zenon
  <2>4. vars_' \in Seq(Variables) /\ Len(vars_') = Len(vars_)
    BY <1>7, <2>1
  <2>5. vars_'[vi] = vars_[vi]
    BY <2>1
  <2> QED
    BY <1>2, <1>3, <1>4, <2>2, <2>3, <2>4, <2>5, Zenon
<1>9. CASE Updates(v) /\ Accepts(v.convert, logical, fetched)
  <2>1. PICK w : w = [v EXCEPT !.value = logical, !.valid = TRUE]
    OBVIOUS
  <2>2. /\ w \in Variables /\ w.name = v.name /\ w.convert = v.convert /\ w.item = v.item
        /\ w.valid = TRUE /\ w.value = logical
    BY <1>5, <2>1 DEF Variables
  <2>3. vars_' = [vars_ EXCEPT ![vi] = w]
    BY <1>3, <1>6, <1>9, <2>1
  <2>4. vars_' \in Seq(Variables) /\ Len(vars_') = Len(vars_)
    BY <1>2, <1>7, <2>2, <2>3
  <2>5. vars_'[vi] = w /\ \A k \in DOMAIN vars_ : k # vi => vars_'[k] = vars_[k]
    BY <1>2, <2>3
  <2>6. ASSUME NEW k \in DOMAIN vars_
        PROVE  /\ vars_'[k].name = vars_[k].name /\ vars_'[k].convert = vars_[k].convert
               /\ vars_'[k].item = vars_[k].item
               /\ vars_[k].valid => vars_'[k].valid
               /\ k # vi \/ ~Updates(vars_[vi]) => vars_'[k] = vars_[k]
    <3>1. CASE k = vi
      BY <1>3, <1>9, <2>2, <2>5, <3>1, Zenon
    <3>2. CASE k # vi
      BY <2>5, <3>2, Zenon
    <3> QED
      BY <3>1, <3>2
  <2> QED
    BY <1>2, <1>3, <1>4, <2>2, <2>4, <2>5, <2>6, Zenon
<1> QED
  BY <1>8, <1>9

-----------------------------------------------------------------------------
(* The types, the plan and the buffer.                                     *)

\* The tables are typed when resolve_hid_paths_ has filled them.
LEMMA TypesAtStart == Init => PollTypes
<1> SUFFICES ASSUME Init PROVE PollTypes
  OBVIOUS
<1>1. PICK layout \in Layouts : items = Parsed(layout)
  BY DEF Init
<1>2. IsLayout(layout)
  BY LayoutsAreLayouts
<1>3. Len(layout) \in Nat /\ DOMAIN items = 1..Len(layout) /\ Len(items) = Len(layout)
  BY <1>1, <1>2, ParsedHasPaths, ParsedIsSequence
<1>4. ItemsInv
  BY <1>1 DEF ItemsInv
<1>5. PICK vs \in Seq(Unset(Len(layout))) : vs = vars_
  BY <1>1, <1>2, ResolveIsTable DEF Init
<1>6. ASSUME NEW v \in Unset(Len(layout)) PROVE v \in Variables
  <2>1. 0 \in Bytes /\ FALSE \in BOOLEAN
    BY DEF Bytes
  <2> QED
    BY <1>3, <2>1 DEF Unset, Variables
<1>7. vars_ \in Seq(Variables)
  <2>1. \A k \in 1..Len(vs) : vs[k] \in Variables
    BY <1>5, <1>6
  <2> HIDE DEF Variables, Unset
  <2> QED
    BY <1>5, <2>1
<1>8. vi \in Nat \ {0} /\ req \in Nat \ {0} /\ ppc = "rest"
  BY DEF Init
<1>9. TableInv
  BY <1>7, <1>8 DEF TableInv
<1>10. PlanInv
  <2>1. \A v \in Variables : v.item \in DOMAIN items
    BY DEF Variables
  <2>2. report_requests_ = Plan(items, vars_)
    BY DEF Init
  <2> QED
    BY <1>7, <2>1, <2>2, PlanHasAll DEF PlanInv
<1>11. WhereInv
  BY <1>8 DEF WhereInv
<1>12. BufferInv
  <2>1. report_buffer = [k \in 0..Len(items) |-> 0] /\ told = [i \in DOMAIN items |-> Untold]
    BY DEF Init, Zeros
  <2>2. 0 \in Bytes
    BY DEF Bytes
  <2> QED
    BY <2>1, <2>2 DEF BufferInv
<1> QED
  BY <1>4, <1>9, <1>10, <1>11, <1>12 DEF PollTypes

\* Every step of the poll and of a list keeps the types.
LEMMA TypesStay == PollTypes /\ [Next]_allVars => PollTypes'
<1> SUFFICES ASSUME PollTypes, [Next]_allVars PROVE PollTypes'
  OBVIOUS
<1>1. items' = items
  BY NextKeepsItems DEF ItemsStay, allVars
<1>2. ItemsInv'
  BY <1>1 DEF PollTypes, ItemsInv
<1>3. Bytes' = Bytes /\ Variables' = Variables /\ Requests(items)' = Requests(items)
  BY <1>1 DEF Bytes, Variables, Requests
<1>4. CASE vars_' = vars_ /\ report_requests_' = report_requests_
           /\ WhereInv' /\ BufferInv' /\ vi' \in Nat \ {0}
  BY <1>1, <1>2, <1>3, <1>4 DEF PollTypes, TableInv, PlanInv
<1>5. 0 \in Bytes
  BY DEF Bytes
<1>6. /\ Zeros' \in [0..Len(items) -> Bytes]
      /\ Zeros' = [k \in 0..Len(items) |-> 0]
  BY <1>1, <1>5 DEF Zeros
<1>7. CASE StartPoll
  <2>1. WhereInv'
    BY <1>7 DEF StartPoll, PollGoes, WhereInv
  <2>2. BufferInv'
    BY <1>1, <1>3, <1>5, <1>7 DEF StartPoll, PollTypes, BufferInv, Zeros
  <2> QED
    BY <1>4, <1>7, <2>1, <2>2 DEF StartPoll, PollTypes, TableInv
<1>8. CASE RequestFails
  <2>1. WhereInv'
    BY <1>8 DEF RequestFails, Asked, PollTypes, WhereInv
  <2>2. BufferInv'
    BY <1>1, <1>3, <1>8 DEF RequestFails, PollTypes, BufferInv
  <2> QED
    BY <1>4, <1>8, <2>1, <2>2 DEF RequestFails, PollTypes, TableInv
<1>9. CASE AnswerAny
  <2>0. PICK type \in Types : \E data \in [1..Fields(Sent(type)) -> Values],
             withId \in BOOLEAN, n \in 1..(Fields(Sent(type)) + 1) :
               Answer(type, data, withId, n)
    BY <1>9 DEF AnswerAny
  <2>1. PICK data \in [1..Fields(Sent(type)) -> Values], withId \in BOOLEAN,
             n \in 1..(Fields(Sent(type)) + 1) : Answer(type, data, withId, n)
    BY <2>0
  <2>2. WhereInv'
    BY <2>1 DEF Answer, Asked, PollTypes, WhereInv
  <2>3. BufferInv'
    <3>1. /\ report_buffer' \in [0..Len(items) -> Bytes]
          /\ \A i \in DOMAIN items : Said(i, type, data, withId, n) \in Values \cup {Dubious}
      BY <2>1, AnswerIsCopied
    <3>2. told' = [i \in DOMAIN items |->
                     IF Covers(Request, items[i]) THEN Said(i, type, data, withId, n) ELSE told[i]]
      BY <2>1 DEF Answer
    <3>3. told' \in [DOMAIN items -> Values \cup {Untold, Dubious}]
      BY <3>1, <3>2 DEF PollTypes, BufferInv
    <3> QED
      BY <1>1, <1>3, <3>1, <3>3 DEF BufferInv
  <2> QED
    BY <1>4, <2>1, <2>2, <2>3 DEF Answer
<1>10. CASE UpdateVar
  <2>1. /\ vars_' \in Seq(Variables) /\ Len(vars_') = Len(vars_)
        /\ \A k \in DOMAIN vars_ : vars_'[k].item = vars_[k].item
    BY <1>10, UpdateStep
  <2>2. DOMAIN vars_' = DOMAIN vars_
    BY <2>1, TableFacts DEF PollTypes, TableInv
  <2>3. TableInv'
    BY <1>3, <1>10, <2>1 DEF UpdateVar, PollTypes, TableInv
  <2>4. report_requests_' = report_requests_
    BY <1>10 DEF UpdateVar
  <2>5. PlanInv'
    BY <1>1, <1>3, <2>1, <2>2, <2>4 DEF PollTypes, PlanInv
  <2>6. WhereInv'
    BY <1>10 DEF UpdateVar, PollTypes, WhereInv
  <2>7. BufferInv'
    BY <1>1, <1>3, <1>10 DEF UpdateVar, PollTypes, BufferInv
  <2> QED
    BY <1>2, <2>3, <2>5, <2>6, <2>7 DEF PollTypes
<1>11. CASE NextRequest
  <2>1. WhereInv'
    BY <1>11 DEF NextRequest, PollGoes, PollTypes, WhereInv
  <2>2. BufferInv'
    BY <1>1, <1>3, <1>11 DEF NextRequest, PollTypes, BufferInv
  <2> QED
    BY <1>4, <1>11, <2>1, <2>2 DEF NextRequest
<1>12. CASE EndPoll
  <2>1. WhereInv'
    BY <1>12 DEF EndPoll, PollGoes, PollTypes, WhereInv
  <2>2. BufferInv'
    BY <1>1, <1>3, <1>5, <1>12 DEF EndPoll, PollTypes, BufferInv, Zeros
  <2> QED
    BY <1>4, <1>12, <2>1, <2>2 DEF EndPoll, PollTypes, TableInv
<1>13. CASE List \/ UNCHANGED allVars
  <2>1. UNCHANGED <<items, vars_, report_requests_, pollVars>>
    BY <1>13 DEF List, StartList, ListNext, ListLine, EndList, ListGoes, allVars
  <2>2. WhereInv'
    BY <2>1 DEF pollVars, PollTypes, WhereInv
  <2>3. BufferInv'
    BY <1>3, <2>1 DEF pollVars, PollTypes, BufferInv
  <2> QED
    BY <1>4, <2>1, <2>2, <2>3 DEF pollVars, PollTypes, TableInv
<1> QED
  BY <1>7, <1>8, <1>9, <1>10, <1>11, <1>12, <1>13 DEF Next, Poll

\* The table stays a table, the plan keeps covering it, and every poll is at a
\* request of the plan with a buffer as long as the descriptor.
THEOREM PollTypeInvariant == Spec => []PollTypes
BY TypesAtStart, TypesStay, PTL DEF Spec
-----------------------------------------------------------------------------
(* What is served.                                                         *)

PollInv == AnswerInBuffer /\ ServedSoFar /\ ServedIsGiven /\ CleanPollServesAll

\* The value that is due to a variable by what the device said of its object.
Due(v, said) ==
  /\ v.convert \in {"number", "internal"} /\ said >= 0 => v.valid /\ v.value = said
  /\ v.convert = "lookup" /\ said \in 1..MaxEntry => v.valid /\ v.value = said

Turned(k) == ppc = "update" => vi > k \/ ~Updates(vars_[k])

\* The property, an entry at a time.
LEMMA ValuesAreDue ==
  ServedIsGiven
    <=> \A k \in DOMAIN vars_ : Turned(k) => Due(vars_[k], told[vars_[k].item])
BY Zenon DEF ServedIsGiven, Turned, Due

\* Before the first poll nothing was told and nothing is valid.
LEMMA ServedAtStart == Init => PollInv
<1> SUFFICES ASSUME Init PROVE PollInv
  OBVIOUS
<1>1. ppc = "rest" /\ clean = FALSE /\ told = [i \in DOMAIN items |-> Untold]
  BY DEF Init
<1>2. PollTypes
  BY TypesAtStart
<1>3. ServedIsGiven
  <2> SUFFICES ASSUME NEW k \in DOMAIN vars_
               PROVE  Due(vars_[k], told[vars_[k].item])
    BY ValuesAreDue
  <2>1. vars_[k].item \in DOMAIN items
    BY <1>2, TableFacts DEF PollTypes
  <2>2. told[vars_[k].item] = Untold
    BY <1>1, <2>1
  <2> QED
    BY <2>2 DEF Due, Untold
<1> QED
  BY <1>1, <1>3 DEF PollInv, AnswerInBuffer, ServedSoFar, CleanPollServesAll

\* The buffer holds the answer of the request that is worked on until the next
\* one is made.
LEMMA BufferStep ==
  ASSUME PollTypes, AnswerInBuffer, [Next]_allVars
  PROVE  AnswerInBuffer'
<1>1. items' = items
  BY NextKeepsItems DEF ItemsStay, allVars
<1>2. \A i \in DOMAIN items : Position(i)' = Position(i)
  BY <1>1 DEF Position
<1>3. CASE StartPoll \/ RequestFails \/ NextRequest \/ EndPoll
  BY <1>3 DEF StartPoll, RequestFails, Asked, NextRequest, EndPoll, PollGoes, AnswerInBuffer
<1>4. CASE AnswerAny
  <2>0. PICK type \in Types : \E data \in [1..Fields(Sent(type)) -> Values],
             withId \in BOOLEAN, n \in 1..(Fields(Sent(type)) + 1) :
               Answer(type, data, withId, n)
    BY <1>4 DEF AnswerAny
  <2>1. PICK data \in [1..Fields(Sent(type)) -> Values], withId \in BOOLEAN,
             n \in 1..(Fields(Sent(type)) + 1) : Answer(type, data, withId, n)
    BY <2>0
  <2>2. Request' = Request
    BY <2>1 DEF Answer, Request
  <2>3. ASSUME NEW i \in DOMAIN items, Covers(Request, items[i])
        PROVE  told'[i] # Untold /\ (told'[i] >= 0 => report_buffer'[Position(i)] = told'[i])
    <3>1. told'[i] = Said(i, type, data, withId, n)
      BY <2>1, <2>3 DEF Answer
    <3>2. told'[i] \in Values \cup {Dubious}
      BY <2>1, <3>1, AnswerIsCopied
    <3>3. told'[i] # Dubious => report_buffer'[Position(i)] = told'[i]
      BY <2>1, <3>1, AnswerIsCopied
    <3> QED
      BY <3>2, <3>3, TablesAssumption DEF Dubious, Untold
  <2> QED
    BY <1>1, <1>2, <2>2, <2>3 DEF AnswerInBuffer
<1>5. CASE UpdateVar \/ List \/ UNCHANGED allVars
  <2>1. UNCHANGED <<items, report_requests_, ppc, req, report_buffer, told>>
    BY <1>5 DEF UpdateVar, List, StartList, ListNext, ListLine, EndList, ListGoes, allVars,
                pollVars
  <2>2. Request' = Request
    BY <2>1 DEF Request
  <2> QED
    BY <1>2, <2>1, <2>2 DEF AnswerInBuffer
<1> QED
  BY <1>3, <1>4, <1>5 DEF Next, Poll

\* A step keeps every value that is served the one last told for its object.
LEMMA ValuesStep ==
  ASSUME PollTypes, AnswerInBuffer, ServedIsGiven, [Next]_allVars
  PROVE  ServedIsGiven'
<1>1. items' = items
  BY NextKeepsItems DEF ItemsStay, allVars
<1>2. \A k \in DOMAIN vars_ : Turned(k) => Due(vars_[k], told[vars_[k].item])
  BY ValuesAreDue
<1>3. \A k \in DOMAIN vars_ : vars_[k].item \in DOMAIN items
  BY TableFacts DEF PollTypes
<1>4. ServedIsGiven'
        <=> \A k \in DOMAIN vars_' :
              Turned(k)' => Due(vars_'[k], told'[vars_'[k].item])
  BY Zenon DEF ServedIsGiven, Turned, Due
<1>5. CASE StartPoll \/ RequestFails \/ EndPoll
  <2>1. vars_' = vars_ /\ told' = told /\ ppc # "update"
    BY <1>5 DEF StartPoll, RequestFails, Asked, EndPoll, PollGoes
  <2> QED
    BY <1>2, <1>4, <2>1 DEF Turned
<1>6. CASE AnswerAny
  <2>0. PICK type \in Types : \E data \in [1..Fields(Sent(type)) -> Values],
             withId \in BOOLEAN, n \in 1..(Fields(Sent(type)) + 1) :
               Answer(type, data, withId, n)
    BY <1>6 DEF AnswerAny
  <2>1. PICK data \in [1..Fields(Sent(type)) -> Values], withId \in BOOLEAN,
             n \in 1..(Fields(Sent(type)) + 1) : Answer(type, data, withId, n)
    BY <2>0
  <2>2. /\ vars_' = vars_ /\ ppc # "update" /\ ppc' = "update" /\ vi' = 1
        /\ told' = [i \in DOMAIN items |->
                      IF Covers(Request, items[i]) THEN Said(i, type, data, withId, n) ELSE told[i]]
    BY <2>1 DEF Answer, Asked
  <2>3. Request' = Request
    BY <2>1 DEF Answer, Request
  <2>4. ASSUME NEW k \in DOMAIN vars_, Turned(k)'
        PROVE  Due(vars_[k], told'[vars_[k].item])
    <3>1. k \in Nat \ {0}
      BY TableFacts DEF PollTypes
    <3>2. ~Covers(Request, items[vars_[k].item])
      BY <1>1, <2>2, <2>3, <2>4, <3>1 DEF Turned, Updates
    <3>3. told'[vars_[k].item] = told[vars_[k].item]
      BY <1>3, <2>2, <3>2
    <3> QED
      BY <1>2, <2>2, <3>3 DEF Turned
  <2> QED
    BY <1>4, <2>2, <2>4
<1>7. CASE UpdateVar
  <2>1. PICK v : v = vars_[vi]
    OBVIOUS
  <2>2. /\ vi \in DOMAIN vars_ /\ vi \in Nat /\ DOMAIN vars_' = DOMAIN vars_
        /\ DOMAIN vars_ = 1..Len(vars_) /\ Len(vars_) \in Nat
    BY <1>7, UpdateStep, TableFacts DEF PollTypes, TableInv
  <2>3. /\ \A k \in DOMAIN vars_ :
             /\ vars_'[k].convert = vars_[k].convert /\ vars_'[k].item = vars_[k].item
             /\ k # vi \/ ~Updates(v) => vars_'[k] = vars_[k]
        /\ Updates(v) /\ (\/ v.convert \in {"number", "internal"}
                          \/ /\ v.convert = "lookup"
                             /\ report_buffer[Position(v.item)] \in 1..MaxEntry)
             => vars_'[vi].valid /\ vars_'[vi].value = report_buffer[Position(v.item)]
    BY <1>7, <2>1, UpdateStep
  <2>4. ppc = "update" /\ ppc' = "update" /\ vi' = vi + 1 /\ told' = told /\ Request' = Request
    BY <1>7 DEF UpdateVar, Request
  <2>5. \A k \in DOMAIN vars_ : vars_'[k].item = vars_[k].item
    BY <2>3
  <2>6. ASSUME NEW k \in DOMAIN vars_, Turned(k)', k # vi \/ ~Updates(v)
        PROVE  Due(vars_'[k], told'[vars_'[k].item])
    <3>1. vars_'[k] = vars_[k]
      BY <2>3, <2>6
    <3>2. vi + 1 > k \/ ~Covers(Request, items[vars_[k].item])
      BY <1>1, <2>4, <2>6, <3>1 DEF Turned, Updates
    <3>3. vi > k \/ ~Updates(vars_[k])
      <4>1. CASE k = vi
        BY <2>1, <2>6, <4>1
      <4>2. CASE k # vi
        BY <2>2, <3>2, <4>2 DEF Updates
      <4> QED
        BY <4>1, <4>2
    <3>4. Due(vars_[k], told[vars_[k].item])
      BY <1>2, <3>3 DEF Turned
    <3> QED
      BY <2>4, <3>1, <3>4
  <2>7. ASSUME Updates(v)
        PROVE  Due(vars_'[vi], told'[vars_'[vi].item])
    <3>1. PICK said : said = told[v.item]
      OBVIOUS
    <3>2. vars_'[vi].item = v.item /\ vars_'[vi].convert = v.convert
      BY <2>1, <2>2, <2>3
    <3>3. said >= 0 => report_buffer[Position(v.item)] = said
      BY <1>3, <2>1, <2>2, <2>4, <2>7, <3>1 DEF AnswerInBuffer, Updates
    <3>4. said \in 1..MaxEntry => said >= 0
      OBVIOUS
    <3>5. v.convert \in {"number", "internal"} /\ said >= 0
            => vars_'[vi].valid /\ vars_'[vi].value = said
      BY <2>3, <2>7, <3>3
    <3>6. v.convert = "lookup" /\ said \in 1..MaxEntry
            => vars_'[vi].valid /\ vars_'[vi].value = said
      BY <2>3, <2>7, <3>3, <3>4
    <3> QED
      BY <2>4, <3>1, <3>2, <3>5, <3>6 DEF Due
  <2> QED
    BY <1>4, <2>2, <2>6, <2>7
<1>8. CASE NextRequest
  <2>1. vars_' = vars_ /\ told' = told /\ vi > Len(vars_) /\ vi \in Nat
    BY <1>8 DEF NextRequest, PollTypes, TableInv
  <2>2. \A k \in DOMAIN vars_ : vi > k
    BY <2>1, TableFacts DEF PollTypes
  <2> QED
    BY <1>2, <1>4, <2>1, <2>2 DEF Turned
<1>9. CASE List \/ UNCHANGED allVars
  <2>1. UNCHANGED <<items, vars_, report_requests_, ppc, req, vi, told>>
    BY <1>9 DEF List, StartList, ListNext, ListLine, EndList, ListGoes, allVars, pollVars
  <2>2. \A k \in DOMAIN vars_ : Turned(k)' = Turned(k)
    BY <2>1 DEF Turned, Updates, Request
  <2> QED
    BY <1>2, <1>4, <2>1, <2>2
<1> QED
  BY <1>5, <1>6, <1>7, <1>8, <1>9 DEF Next, Poll

\* A step keeps what a poll without a failure has served so far: the requests
\* before this one, and of this one the variables before vi.
LEMMA ServedStep ==
  ASSUME PollTypes, ServedSoFar, [Next]_allVars
  PROVE  ServedSoFar'
<1>1. items' = items
  BY NextKeepsItems DEF ItemsStay, allVars
<1>2. req \in Nat \ {0} /\ vi \in Nat \ {0}
  BY DEF PollTypes, WhereInv, TableInv
<1>3. /\ Len(vars_) \in Nat /\ DOMAIN vars_ = 1..Len(vars_)
      /\ \A r \in DOMAIN report_requests_ : r \in Nat \ {0}
  BY TableFacts DEF PollTypes, PlanInv
<1>4. report_requests_' = report_requests_
  BY DEF Next, Poll, List, StartPoll, RequestFails, AnswerAny, Answer, UpdateVar, NextRequest,
         EndPoll, StartList, ListNext, ListLine, EndList, ListGoes, allVars
<1>5. CASE RequestFails \/ EndPoll
  BY <1>5 DEF RequestFails, EndPoll, PollGoes, ServedSoFar
<1>6. CASE StartPoll
  <2>1. req' = 1 /\ ppc' = "request"
    BY <1>6 DEF StartPoll, PollGoes
  <2>2. \A r \in DOMAIN report_requests_ : ~(r < 1)
    BY <1>3
  <2> QED
    BY <1>4, <2>1, <2>2 DEF ServedSoFar
<1>7. CASE AnswerAny
  <2>1. ppc = "request" /\ UNCHANGED <<vars_, req, clean>> /\ vi' = 1
    BY <1>7 DEF AnswerAny, Answer, Asked
  <2>2. \A k \in DOMAIN vars_ : ~(k < 1)
    BY <1>3
  <2> QED
    BY <1>1, <1>4, <2>1, <2>2 DEF ServedSoFar
<1>8. CASE UpdateVar
  <2>1. /\ vi \in DOMAIN vars_ /\ DOMAIN vars_' = DOMAIN vars_
        /\ \A k \in DOMAIN vars_ :
             /\ vars_'[k].convert = vars_[k].convert /\ vars_'[k].item = vars_[k].item
             /\ vars_[k].valid => vars_'[k].valid
        /\ Updates(vars_[vi]) /\ vars_[vi].convert \in {"number", "internal"}
             => vars_'[vi].valid
    <3>1. vars_' \in Seq(Variables) /\ Len(vars_') = Len(vars_)
      BY <1>8, UpdateStep
    <3>2. DOMAIN vars_' = DOMAIN vars_
      BY <1>3, <3>1
    <3> QED
      BY <1>8, <3>2, UpdateStep
  <2>2. ppc = "update" /\ UNCHANGED <<ppc, req, clean>> /\ vi' = vi + 1
    BY <1>8 DEF UpdateVar
  <2> SUFFICES ASSUME clean, NEW k \in DOMAIN vars_, NEW r \in DOMAIN report_requests_,
                      Plain(vars_[k]), Covers(report_requests_[r], items[vars_[k].item]),
                      r < req \/ (r = req /\ k < vi + 1)
               PROVE  vars_'[k].valid
    BY <1>1, <1>4, <2>1, <2>2 DEF ServedSoFar, Plain
  <2>3. CASE r < req \/ (r = req /\ k < vi)
    BY <2>1, <2>2, <2>3 DEF ServedSoFar
  <2>4. CASE r = req /\ k = vi
    BY <2>1, <2>4 DEF Updates, Request, Plain
  <2>5. k < vi + 1 => k < vi \/ k = vi
    BY <1>2, <1>3
  <2> QED
    BY <2>3, <2>4, <2>5, Zenon
<1>9. CASE NextRequest
  <2>1. /\ ppc = "update" /\ ppc' = "request" /\ vi > Len(vars_)
        /\ req' = req + 1 /\ UNCHANGED <<vars_, clean>>
    BY <1>9 DEF NextRequest, PollGoes
  <2>2. \A k \in DOMAIN vars_ : k < vi
    BY <1>2, <1>3, <2>1
  <2>3. \A r \in DOMAIN report_requests_ : r < req + 1 => r < req \/ r = req
    BY <1>2, <1>3
  <2> QED
    BY <1>1, <1>4, <2>1, <2>2, <2>3 DEF ServedSoFar
<1>10. CASE List \/ UNCHANGED allVars
  <2>1. UNCHANGED <<vars_, ppc, req, vi, clean>>
    BY <1>10 DEF List, StartList, ListNext, ListLine, EndList, ListGoes, allVars, pollVars
  <2> QED
    BY <1>1, <1>4, <2>1 DEF ServedSoFar
<1> QED
  BY <1>5, <1>6, <1>7, <1>8, <1>9, <1>10 DEF Next, Poll

\* A poll that ends without a failure has gone through all requests, so that all
\* variables are served.
LEMMA CleanStep ==
  ASSUME PollTypes, ServedSoFar, CleanPollServesAll, [Next]_allVars
  PROVE  CleanPollServesAll'
<1>1. CASE StartPoll \/ RequestFails \/ AnswerAny \/ UpdateVar \/ NextRequest
  BY <1>1 DEF StartPoll, RequestFails, AnswerAny, Answer, Asked, UpdateVar, NextRequest,
              PollGoes, CleanPollServesAll
<1>2. CASE EndPoll
  <2>1. ppc = "request" /\ req > Len(report_requests_) /\ UNCHANGED <<vars_, clean>>
    BY <1>2 DEF EndPoll, PollGoes
  <2> SUFFICES ASSUME clean, NEW k \in DOMAIN vars_, Plain(vars_[k]) PROVE vars_[k].valid
    BY <2>1 DEF CleanPollServesAll, Plain
  <2>2. PICK r \in DOMAIN report_requests_ : Covers(report_requests_[r], items[vars_[k].item])
    BY DEF PollTypes, PlanInv, Planned
  <2>3. r < req
    BY <2>1 DEF PollTypes, PlanInv, WhereInv
  <2> QED
    BY <2>1, <2>2, <2>3 DEF ServedSoFar
<1>3. CASE List \/ UNCHANGED allVars
  <2>1. UNCHANGED <<vars_, ppc, clean>>
    BY <1>3 DEF List, StartList, ListNext, ListLine, EndList, ListGoes, allVars, pollVars
  <2> QED
    BY <2>1 DEF CleanPollServesAll
<1> QED
  BY <1>1, <1>2, <1>3 DEF Next, Poll

\* The plan, the buffer and the table agree at every step of a poll.
THEOREM PollInvariant == Spec => []PollInv
<1>1. Init => PollInv
  BY ServedAtStart
<1>2. PollTypes /\ PollInv /\ [Next]_allVars => PollInv'
  BY BufferStep, ValuesStep, ServedStep, CleanStep DEF PollInv
<1> QED
  BY <1>1, <1>2, PollTypeInvariant, PTL DEF Spec

\* A variable changes in its own turn only, and then to its byte of the buffer.
LEMMA OnlyGivenIsTaken ==
  ASSUME PollTypes, AnswerInBuffer, [Next]_allVars
  PROVE  GivenIsTaken
<1>1. CASE UpdateVar
  <2> SUFFICES ASSUME NEW k \in DOMAIN vars_, vars_'[k] # vars_[k]
               PROVE  vars_'[k].valid /\ told[vars_[k].item] \in {vars_'[k].value, Dubious}
    BY DEF GivenIsTaken
  <2>1. /\ k = vi /\ Updates(vars_[vi]) /\ vars_'[k].valid
        /\ vars_'[k].value = report_buffer[Position(vars_[k].item)]
    BY <1>1, UpdateStep
  <2>2. PICK i \in DOMAIN items : i = vars_[k].item
    BY TableFacts DEF PollTypes
  <2>3. told[i] # Untold /\ (told[i] >= 0 => report_buffer[Position(i)] = told[i])
    BY <1>1, <2>1, <2>2 DEF AnswerInBuffer, UpdateVar, Updates
  <2>4. told[i] \in Values \cup {Dubious}
    BY <2>3 DEF PollTypes, BufferInv
  <2>5. CASE told[i] = Dubious
    BY <2>1, <2>2, <2>5
  <2>6. CASE told[i] \in Values
    <3>1. \A value \in Values : value \in 0..255
      BY TablesAssumption
    <3>2. told[i] >= 0
      BY <2>6, <3>1
    <3> QED
      BY <2>1, <2>2, <2>3, <3>2
  <2> QED
    BY <2>4, <2>5, <2>6
<1>2. CASE ~UpdateVar
  <2>1. vars_' = vars_
    BY <1>2 DEF Next, Poll, List, StartPoll, RequestFails, AnswerAny, Answer, NextRequest,
                EndPoll, StartList, ListNext, ListLine, EndList, ListGoes, allVars
  <2> QED
    BY <2>1 DEF GivenIsTaken
<1> QED
  BY <1>1, <1>2

\* No other report that went through the buffer, no short answer, no answer
\* without its ID or of the other type and no failure makes the server serve a
\* number, or an entry of a lookup table, that is not what the device last said
\* this object is, where its answer is whole and, for a lookup, in the table; and
\* every change of a variable is to what the device has just said, or to a byte
\* of an answer that does not tell which fields it carries.
THEOREM ServedIsTheDevices == Spec => ValuesAreTheDevices
<1>1. PollTypes /\ PollInv /\ [Next]_allVars => [GivenIsTaken]_allVars
  BY OnlyGivenIsTaken DEF PollInv
<1>2. PollInv => ServedIsGiven
  BY DEF PollInv
<1> QED
  BY <1>1, <1>2, PollInvariant, PollTypeInvariant, PTL DEF Spec, ValuesAreTheDevices

\* A poll without a failure serves every plain variable of the tables.
THEOREM CleanPollIsComplete == Spec => []CleanPollServesAll
BY PollInvariant, PTL DEF PollInv

-----------------------------------------------------------------------------
(* LIST VAR.                                                               *)

\* The loop of LIST VAR is at a variable it found served.
ListInv ==
  /\ li \in Nat \ {0}
  /\ spc = "get" => li \in DOMAIN vars_ /\ Listed(vars_[li])
  /\ ListedVarsAreFound

\* A step keeps the state of a list: what was valid when it was checked stays
\* valid, since nothing takes validity away.
LEMMA ListStays ==
  ASSUME PollTypes, ListInv, [Next]_allVars
  PROVE  ListInv'
<1>1. CASE UpdateVar
  <2>1. spc' = spc /\ li' = li /\ line' = line
    BY <1>1 DEF UpdateVar, listVars
  <2>2. /\ DOMAIN vars_' = DOMAIN vars_
        /\ \A k \in DOMAIN vars_ : vars_'[k].convert = vars_[k].convert
                                     /\ (vars_[k].valid => vars_'[k].valid)
    <3>1. vars_' \in Seq(Variables) /\ Len(vars_') = Len(vars_)
      BY <1>1, UpdateStep
    <3>2. DOMAIN vars_' = DOMAIN vars_
      BY <3>1, TableFacts DEF PollTypes
    <3> QED
      BY <1>1, <3>2, UpdateStep
  <2> QED
    BY <2>1, <2>2 DEF ListInv, Listed, ListedVarsAreFound
<1>2. CASE StartPoll \/ RequestFails \/ AnswerAny \/ NextRequest \/ EndPoll
           \/ UNCHANGED allVars
  <2>1. UNCHANGED <<vars_, spc, li, line>>
    BY <1>2 DEF StartPoll, RequestFails, AnswerAny, Answer, NextRequest, EndPoll, allVars,
                listVars
  <2> QED
    BY <2>1 DEF ListInv, ListedVarsAreFound
<1>3. CASE StartList \/ EndList
  BY <1>3 DEF StartList, EndList, ListGoes, ListInv, ListedVarsAreFound
<1>4. CASE ListNext
  <2>1. vars_' = vars_ /\ line' = line /\ li <= Len(vars_)
    BY <1>4 DEF ListNext, ListGoes
  <2>2. spc' = "get" => li' = li /\ Listed(vars_[li])
    BY <1>4 DEF ListNext, ListGoes
  <2>3. li \in Nat \ {0} /\ li \in DOMAIN vars_
    BY <2>1, TableFacts DEF PollTypes, ListInv
  <2>4. li' \in Nat \ {0}
    BY <1>4, <2>3 DEF ListNext, ListGoes
  <2> QED
    BY <2>1, <2>2, <2>3, <2>4 DEF ListInv, ListedVarsAreFound
<1>5. CASE ListLine
  <2>1. spc = "get" /\ spc' = "check"
    BY <1>5 DEF ListLine, ListGoes
  <2>2. PICK found : found = {i \in DOMAIN vars_ : vars_[i].name = vars_[li].name
                                                     /\ Listed(vars_[i])}
    OBVIOUS
  <2>3. li \in found
    BY <2>1, <2>2 DEF ListInv
  <2>4. found \in SUBSET Nat /\ 0 \notin found
    BY <2>2, TableFacts DEF PollTypes
  <2>5. First(found) # 0
    BY <2>3, <2>4, FirstIsIn
  <2>6. line' = "VAR"
    BY <1>5, <2>2, <2>5 DEF ListLine, find_var_
  <2>7. li' \in Nat \ {0}
    BY <1>5 DEF ListLine, ListInv
  <2> QED
    BY <2>1, <2>6, <2>7 DEF ListInv, ListedVarsAreFound
<1> QED
  BY <1>1, <1>2, <1>3, <1>4, <1>5 DEF Next, Poll, List

\* The inductive invariant of LIST VAR.
THEOREM ListInvariant == Spec => []ListInv
<1>1. Init => ListInv
  BY DEF Init, ListInv, ListedVarsAreFound
<1>2. PollTypes /\ ListInv /\ [Next]_allVars => ListInv'
  BY ListStays
<1> QED
  BY <1>1, <1>2, PollTypeInvariant, PTL DEF Spec

\* Whatever the poll does to the table between the check of a variable and its
\* second lookup by name, LIST VAR finds what it lists.
THEOREM ListFindsItsVariables == Spec => []ListedVarsAreFound
BY ListInvariant, PTL DEF ListInv
=============================================================================
