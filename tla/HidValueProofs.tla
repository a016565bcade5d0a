--------------------------- MODULE HidValueProofs ---------------------------
(***************************************************************************)
(* What is proved about reading and writing a field, for bytes of any      *)
(* number of bits, every item and every size of a field.                   *)
(***************************************************************************)
EXTENDS HidValue, WellFoundedInduction, TLAPS

-----------------------------------------------------------------------------
(* Induction over the naturals, for sets.                                  *)

Below == {pair \in Nat \X Nat : pair[1] < pair[2]}

\* A set of naturals has a least element.
LEMMA LeastNatural ==
  ASSUME NEW S \in SUBSET Nat, S # {}
  PROVE  \E x \in S : \A y \in S : x <= y
<1>1. IsWellFoundedOn(Below, Nat)
  BY NatLessThanWellFounded, Zenon DEF OpToRel, Below
<1>2. PICK x \in S : \A y \in S : <<y, x>> \notin Below
  BY <1>1, WFMin
<1>3. \A y \in S : ~(y < x)
  BY <1>2 DEF Below
<1> QED
  BY <1>3

\* A set that has 0, and n with every n - 1, has everything up to N.
LEMMA UpTo ==
  ASSUME NEW N \in Nat, NEW P, 0 \in P, \A n \in 1..N : n - 1 \in P => n \in P
  PROVE  \A n \in 0..N : n \in P
<1> DEFINE Others == {n \in 0..N : n \notin P}
<1> SUFFICES ASSUME Others # {} PROVE FALSE
  OBVIOUS
<1>1. Others \in SUBSET Nat
  OBVIOUS
<1>2. PICK m \in Others : \A n \in Others : m <= n
  <2> HIDE DEF Others
  <2> QED
    BY <1>1, LeastNatural
<1>3. m \in 1..N /\ m - 1 \notin P
  BY <1>2
<1>4. m - 1 \in Others /\ ~(m <= m - 1)
  BY <1>3
<1> QED
  BY <1>2, <1>4

-----------------------------------------------------------------------------
(* Functions defined by recursion exist.                                   *)

IsCount(n, g, base, step) == g[0] = base /\ \A i \in 1..n : g[i] = step[<<i, g[i - 1]>>]

\* Counting up from 0, with a step that is a function.
LEMMA RecursionExists ==
  ASSUME NEW N \in Nat, NEW A, NEW base \in A, NEW step \in [(1..N) \X A -> A]
  PROVE  \E g \in [0..N -> A] : IsCount(N, g, base, step)
<1> DEFINE P == {n \in 0..N : \E g \in [0..n -> A] : IsCount(n, g, base, step)}
<1>1. 0 \in P
  <2>1. [i \in 0..0 |-> base] \in [0..0 -> A]
    OBVIOUS
  <2>2. IsCount(0, [i \in 0..0 |-> base], base, step)
    BY DEF IsCount
  <2>3. \E g \in [0..0 -> A] : IsCount(0, g, base, step)
    BY <2>1, <2>2
  <2> QED
    BY <2>3
<1>2. ASSUME NEW n \in 1..N, n - 1 \in P PROVE n \in P
  <2>1. PICK g \in [0..(n - 1) -> A] : IsCount(n - 1, g, base, step)
    BY <1>2
  <2>2. PICK h : h = [i \in 0..n |-> IF i = n THEN step[<<n, g[n - 1]>>] ELSE g[i]]
    OBVIOUS
  <2>3. step[<<n, g[n - 1]>>] \in A
    BY <2>1
  <2>4. h \in [0..n -> A]
    BY <2>1, <2>2, <2>3
  <2>5. h[n] = step[<<n, g[n - 1]>>] /\ \A i \in 0..(n - 1) : h[i] = g[i]
    BY <2>2
  <2>6. IsCount(n, h, base, step)
    <3>1. h[0] = base
      BY <2>1, <2>5 DEF IsCount
    <3>2. ASSUME NEW i \in 1..(n - 1) PROVE h[i] = step[<<i, h[i - 1]>>]
      <4>1. i \in 0..(n - 1) /\ i - 1 \in 0..(n - 1)
        OBVIOUS
      <4>2. h[i] = g[i] /\ h[i - 1] = g[i - 1]
        BY <2>5, <4>1
      <4> QED
        BY <2>1, <4>2 DEF IsCount
    <3>3. h[n - 1] = g[n - 1]
      BY <2>5
    <3>4. h[n] = step[<<n, h[n - 1]>>]
      BY <2>5, <3>3
    <3>5. \A i \in 1..n : i = n \/ i \in 1..(n - 1)
      OBVIOUS
    <3> QED
      BY <3>1, <3>2, <3>4, <3>5, Zenon DEF IsCount
  <2>7. \E f \in [0..n -> A] : IsCount(n, f, base, step)
    BY <2>4, <2>6
  <2> QED
    BY <2>7
<1>3. N \in P
  <2> HIDE DEF P
  <2>1. \A n \in 0..N : n \in P
    BY <1>1, <1>2, UpTo
  <2> QED
    BY <2>1
<1> QED
  BY <1>3

-----------------------------------------------------------------------------
(* Powers of two.                                                          *)

Doubles(f) == f = [n \in 0..LongBits |-> IF n = 0 THEN 1 ELSE 2 * f[n - 1]]

\* 1L << n is 1 for no shift and doubles with each.
LEMMA PowerDoubles ==
  /\ LongBits \in Nat /\ LongBits >= 4
  /\ Power \in [0..LongBits -> Nat]
  /\ Power[0] = 1
  /\ \A n \in 1..LongBits : Power[n] = 2 * Power[n - 1]
<1>1. LongBits \in Nat /\ LongBits >= 4
  BY ValueAssumption DEF LongBits
<1> HIDE DEF LongBits
<1>2. PICK step : step = [ix \in (1..LongBits) \X Nat |-> 2 * ix[2]]
  OBVIOUS
<1>3. \A i \in 1..LongBits, x \in Nat : step[<<i, x>>] = 2 * x
  BY <1>2
<1>4. step \in [(1..LongBits) \X Nat -> Nat]
  BY <1>2
<1>5. PICK g \in [0..LongBits -> Nat] : IsCount(LongBits, g, 1, step)
  BY <1>1, <1>4, RecursionExists
<1>6. \A n \in 1..LongBits : n - 1 \in 0..LongBits /\ g[n - 1] \in Nat
  BY <1>1, <1>5
<1>7. g[0] = 1 /\ \A n \in 1..LongBits : g[n] = 2 * g[n - 1]
  BY <1>3, <1>5, <1>6 DEF IsCount
<1>8. \A n \in 0..LongBits : n = 0 \/ n \in 1..LongBits
  BY <1>1
<1>9. \A n \in 0..LongBits : g[n] = IF n = 0 THEN 1 ELSE 2 * g[n - 1]
  BY <1>1, <1>7, <1>8
<1>10. Doubles(g)
  BY <1>5, <1>9 DEF Doubles
<1>11. Power = CHOOSE f : Doubles(f)
  BY DEF Power, Doubles
<1>12. Doubles(Power)
  BY <1>10, <1>11
<1>13. 0 \in 0..LongBits /\ \A n \in 1..LongBits : n \in 0..LongBits /\ n # 0
  BY <1>1
<1>14. Power[0] = 1 /\ \A n \in 1..LongBits : Power[n] = 2 * Power[n - 1]
  BY <1>12, <1>13 DEF Doubles
<1>15. \A n \in 0..LongBits : Power[n] \in Nat
  <2> DEFINE P == {n \in 0..LongBits : Power[n] \in Nat}
  <2>1. 0 \in P
    BY <1>13, <1>14
  <2>2. ASSUME NEW n \in 1..LongBits, n - 1 \in P PROVE n \in P
    BY <1>13, <1>14, <2>2
  <2> HIDE DEF P
  <2>3. \A n \in 0..LongBits : n \in P
    BY <1>1, <2>1, <2>2, UpTo
  <2> QED
    BY <2>3 DEF P
<1> QED
  BY <1>1, <1>12, <1>14, <1>15 DEF Doubles

\* A power is positive, and a larger one is a multiple of a smaller one.
LEMMA PowerDivides ==
  ASSUME NEW n \in 0..LongBits, NEW m \in 0..n
  PROVE  /\ Power[m] \in Nat /\ Power[m] >= 1
         /\ \E d \in Nat : d >= 1 /\ Power[n] = Power[m] * d
<1> DEFINE N == LongBits
<1>0. N \in Nat
  BY PowerDoubles
<1>1. \A k \in 0..N : Power[k] \in Nat /\ Power[k] >= 1
  <2> DEFINE P == {k \in 0..N : Power[k] \in Nat /\ Power[k] >= 1}
  <2>1. 0 \in P
    BY PowerDoubles
  <2>2. ASSUME NEW k \in 1..N, k - 1 \in P PROVE k \in P
    <3>1. Power[k] = 2 * Power[k - 1]
      BY PowerDoubles
    <3>2. Power[k - 1] \in Nat /\ Power[k - 1] >= 1
      BY <2>2
    <3>3. Power[k] \in Nat /\ Power[k] >= 1
      BY <3>1, <3>2
    <3>4. k \in 0..N
      BY <1>0
    <3> QED
      BY <3>3, <3>4
  <2> HIDE DEF P, N
  <2>3. \A k \in 0..N : k \in P
    BY <1>0, <2>1, <2>2, UpTo
  <2> QED
    BY <2>3 DEF P
<1>2. m \in 0..N
  BY <1>0
<1>3. PICK S : S = {k \in 0..N : k < m \/ \E d \in Nat : d >= 1 /\ Power[k] = Power[m] * d}
  OBVIOUS
<1>4. 0 \in S
  <2>1. CASE m = 0
    <3>1. Power[0] = Power[m] * 1
      BY <1>1, <1>2, <2>1
    <3> QED
      BY <1>0, <1>3, <3>1
  <2>2. CASE m # 0
    BY <1>0, <1>3, <2>2
  <2> QED
    BY <2>1, <2>2
<1>5. ASSUME NEW k \in 1..N, k - 1 \in S PROVE k \in S
  <2>1. CASE k < m
    BY <1>0, <1>3, <2>1
  <2>2. CASE k = m
    <3>1. Power[k] = Power[m] * 1
      BY <1>1, <1>2, <2>2
    <3> QED
      BY <1>0, <1>3, <3>1
  <2>3. CASE k > m
    <3>1. PICK d \in Nat : d >= 1 /\ Power[k - 1] = Power[m] * d
      BY <1>3, <1>5, <2>3
    <3>2. Power[k] = 2 * Power[k - 1]
      BY PowerDoubles
    <3>3. Power[k] = Power[m] * (2 * d) /\ 2 * d \in Nat /\ 2 * d >= 1
      BY <1>1, <1>2, <3>1, <3>2
    <3> QED
      BY <1>0, <1>3, <3>3
  <2> QED
    BY <2>1, <2>2, <2>3
<1>6. \A k \in 0..N : k \in S
  <2> HIDE DEF N
  <2> QED
    BY <1>0, <1>4, <1>5, UpTo
<1>7. n \in S /\ ~(n < m)
  BY <1>6
<1> QED
  BY <1>1, <1>2, <1>3, <1>7

\* A power is less than the larger ones, and at most half of each.
LEMMA PowerGrows ==
  ASSUME NEW n \in 0..LongBits, NEW m \in 0..n
  PROVE  /\ Power[m] \in Nat /\ Power[m] >= 1
         /\ Power[n] \in Nat /\ Power[m] <= Power[n]
         /\ m < n => 2 * Power[m] <= Power[n]
<1>0. LongBits \in Nat
  BY PowerDoubles
<1>1. PICK d \in Nat : d >= 1 /\ Power[n] = Power[m] * d
  BY PowerDivides
<1>2. Power[m] \in Nat /\ Power[m] >= 1
  BY PowerDivides
<1>3. Power[m] <= Power[n] /\ Power[n] \in Nat
  BY <1>1, <1>2
<1>4. ASSUME m < n PROVE 2 * Power[m] <= Power[n]
  <2>1. n \in 1..LongBits /\ n - 1 \in 0..LongBits /\ m \in 0..(n - 1)
    BY <1>0, <1>4
  <2>2. PICK e \in Nat : e >= 1 /\ Power[n - 1] = Power[m] * e
    BY <2>1, PowerDivides
  <2>3. Power[m] <= Power[n - 1] /\ Power[n - 1] \in Nat
    BY <1>2, <2>2
  <2>4. Power[n] = 2 * Power[n - 1]
    BY <2>1, PowerDoubles
  <2> QED
    BY <1>2, <2>3, <2>4
<1> QED
  BY <1>2, <1>3, <1>4

-----------------------------------------------------------------------------
(* The number that a set of bits stands for.                               *)

Adds(bits, f) ==
  f = [n \in 0..LongBits |->
         IF n = 0 THEN 0 ELSE f[n - 1] + IF n - 1 \in bits THEN Power[n - 1] ELSE 0]

\* The loop of GetValue starts at 0 and adds the weight of each set bit.
LEMMA SumsAdd ==
  ASSUME NEW bits
  PROVE  /\ Sums(bits) \in [0..LongBits -> Nat]
         /\ Sums(bits)[0] = 0
         /\ \A n \in 1..LongBits :
              Sums(bits)[n] = Sums(bits)[n - 1] + IF n - 1 \in bits THEN Power[n - 1] ELSE 0
<1>1. LongBits \in Nat /\ \A n \in 0..LongBits : Power[n] \in Nat
  BY PowerDoubles
<1>2. \A n \in 1..LongBits : n - 1 \in 0..LongBits /\ n \in 0..LongBits /\ n # 0
  BY <1>1
<1>3. PICK weight : weight = [n \in 1..LongBits |-> IF n - 1 \in bits THEN Power[n - 1] ELSE 0]
  OBVIOUS
<1>4. \A n \in 1..LongBits :
        weight[n] \in Nat /\ weight[n] = IF n - 1 \in bits THEN Power[n - 1] ELSE 0
  BY <1>1, <1>2, <1>3
<1>5. PICK step : step = [ix \in (1..LongBits) \X Nat |-> ix[2] + weight[ix[1]]]
  OBVIOUS
<1>6. \A i \in 1..LongBits, x \in Nat : step[<<i, x>>] = x + weight[i]
  BY <1>5
<1>7. step \in [(1..LongBits) \X Nat -> Nat]
  BY <1>4, <1>5
<1>8. PICK g \in [0..LongBits -> Nat] : IsCount(LongBits, g, 0, step)
  BY <1>1, <1>7, RecursionExists
<1>9. g[0] = 0 /\ \A n \in 1..LongBits : g[n] = g[n - 1] + weight[n]
  BY <1>2, <1>6, <1>8 DEF IsCount
<1>10. \A n \in 0..LongBits : n = 0 \/ n \in 1..LongBits
  BY <1>1
<1>11. \A n \in 0..LongBits :
         g[n] = IF n = 0 THEN 0 ELSE g[n - 1] + IF n - 1 \in bits THEN Power[n - 1] ELSE 0
  <2>1. TAKE n \in 0..LongBits
  <2>2. CASE n = 0
    BY <1>9, <2>2
  <2>3. CASE n # 0
    <3>1. n \in 1..LongBits
      BY <1>10, <2>3
    <3> QED
      BY <1>4, <1>9, <2>3, <3>1
  <2> QED
    BY <2>2, <2>3
<1>12. Adds(bits, g)
  BY <1>8, <1>11 DEF Adds
<1>13. PICK h : h = CHOOSE f : Adds(bits, f)
  OBVIOUS
<1>14. Adds(bits, h)
  BY <1>12, <1>13
<1>15. Sums(bits) = h
  BY <1>13 DEF Sums, Adds
<1>16. 0 \in 0..LongBits
  BY <1>1
<1>17. h[0] = 0
  BY <1>14, <1>16 DEF Adds
<1>18. ASSUME NEW n \in 1..LongBits
       PROVE  h[n] = h[n - 1] + weight[n]
  <2>1. n \in 0..LongBits /\ n # 0
    BY <1>2
  <2>2. h[n] = h[n - 1] + IF n - 1 \in bits THEN Power[n - 1] ELSE 0
    BY <1>14, <2>1 DEF Adds
  <2> QED
    BY <1>4, <2>2
<1>19. \A n \in 0..LongBits : h[n] \in Nat
  <2> DEFINE P == {n \in 0..LongBits : h[n] \in Nat}
  <2>1. 0 \in P
    BY <1>16, <1>17
  <2>2. ASSUME NEW n \in 1..LongBits, n - 1 \in P PROVE n \in P
    <3>1. h[n] = h[n - 1] + weight[n] /\ h[n - 1] \in Nat /\ weight[n] \in Nat
      BY <1>4, <1>18, <2>2
    <3> QED
      BY <1>2, <3>1
  <2> HIDE DEF P
  <2>3. \A n \in 0..LongBits : n \in P
    BY <1>1, <2>1, <2>2, UpTo
  <2> QED
    BY <2>3 DEF P
<1>20. h \in [0..LongBits -> Nat]
  BY <1>14, <1>19 DEF Adds
<1> QED
  BY <1>4, <1>15, <1>17, <1>18, <1>20

\* The bits below the n-th make a number of n bits.
LEMMA SumsBound ==
  ASSUME NEW bits, NEW n \in 0..LongBits
  PROVE  Sums(bits)[n] \in 0..(Power[n] - 1)
<1> DEFINE N == LongBits
           V == Sums(bits)
           P == {k \in 0..N : V[k] < Power[k]}
<1>1. N \in Nat /\ Power[0] = 1 /\ Power \in [0..N -> Nat]
  BY PowerDoubles
<1>2. V \in [0..N -> Nat] /\ V[0] = 0
  BY SumsAdd
<1>3. 0 \in P
  BY <1>1, <1>2
<1>4. ASSUME NEW k \in 1..N, k - 1 \in P PROVE k \in P
  <2>1. k - 1 \in 0..N /\ k \in 0..N
    BY <1>1
  <2>2. V[k - 1] \in Nat /\ V[k] \in Nat /\ Power[k - 1] \in Nat /\ V[k - 1] < Power[k - 1]
    BY <1>1, <1>2, <1>4, <2>1
  <2>3. V[k] = V[k - 1] + IF k - 1 \in bits THEN Power[k - 1] ELSE 0
    BY SumsAdd
  <2>4. V[k] <= V[k - 1] + Power[k - 1]
    <3> HIDE DEF V
    <3> QED
      BY <2>2, <2>3
  <2>5. Power[k] = 2 * Power[k - 1]
    BY PowerDoubles
  <2>6. V[k] < Power[k]
    <3> HIDE DEF V
    <3> QED
      BY <2>2, <2>4, <2>5
  <2> QED
    BY <2>1, <2>6
<1>5. \A k \in 0..N : k \in P
  <2> HIDE DEF P, N
  <2> QED
    BY <1>1, <1>3, <1>4, UpTo
<1>6. V[n] < Power[n] /\ V[n] \in Nat /\ Power[n] \in Nat
  BY <1>1, <1>2, <1>5
<1> QED
  BY <1>6

\* The sum over the bits below the n-th depends on nothing else.
LEMMA SumsAgree ==
  ASSUME NEW these, NEW those, NEW n \in 0..LongBits,
         \A w \in 0..(n - 1) : w \in these <=> w \in those
  PROVE  Sums(these)[n] = Sums(those)[n]
<1>1. PICK V, W : V = Sums(these) /\ W = Sums(those)
  OBVIOUS
<1> DEFINE P == {k \in 0..n : V[k] = W[k]}
<1>2. LongBits \in Nat /\ n \in Nat
  BY PowerDoubles
<1>3. 0 \in P
  BY <1>1, <1>2, SumsAdd
<1>4. ASSUME NEW k \in 1..n, k - 1 \in P PROVE k \in P
  <2>1. k \in 1..LongBits /\ k - 1 \in 0..(n - 1)
    BY <1>2
  <2>2. /\ V[k] = V[k - 1] + IF k - 1 \in these THEN Power[k - 1] ELSE 0
        /\ W[k] = W[k - 1] + IF k - 1 \in those THEN Power[k - 1] ELSE 0
    BY <1>1, <2>1, SumsAdd
  <2>3. k - 1 \in these <=> k - 1 \in those
    BY <2>1
  <2>4. V[k] = W[k]
    BY <1>4, <2>2, <2>3
  <2> QED
    BY <1>2, <2>4
<1>5. \A k \in 0..n : k \in P
  <2> HIDE DEF P
  <2> QED
    BY <1>2, <1>3, <1>4, UpTo
<1> QED
  BY <1>1, <1>2, <1>5

\* A number is the number of its low bits and a multiple of their power.
LEMMA SumsSplit ==
  ASSUME NEW bits, NEW n \in 0..LongBits, NEW m \in 0..n
  PROVE  \E q \in Nat : Sums(bits)[n] = Sums(bits)[m] + Power[m] * q
<1>1. PICK V : V = Sums(bits)
  OBVIOUS
<1>2. LongBits \in Nat /\ n \in Nat /\ m \in 0..LongBits
  BY PowerDoubles
<1>3. V[m] \in Nat /\ Power[m] \in Nat
  <2>1. V \in [0..LongBits -> Nat] /\ Power \in [0..LongBits -> Nat]
    BY <1>1, SumsAdd, PowerDoubles, Zenon
  <2> QED
    BY <1>2, <2>1
<1>4. PICK S : S = {k \in 0..n : k < m \/ \E q \in Nat : V[k] = V[m] + Power[m] * q}
  OBVIOUS
<1>5. V[m] = V[m] + Power[m] * 0
  BY <1>3
<1>6. 0 \in S
  BY <1>2, <1>4, <1>5
<1>7. ASSUME NEW k \in 1..n, k - 1 \in S PROVE k \in S
  <2>0. k \in 1..LongBits /\ k \in 0..n /\ k - 1 \in 0..LongBits
    BY <1>2
  <2>1. CASE k <= m
    BY <1>2, <1>4, <1>5, <2>0, <2>1
  <2>2. CASE k > m
    <3>1. PICK q \in Nat : V[k - 1] = V[m] + Power[m] * q
      BY <1>4, <1>7, <2>2
    <3>2. m \in 0..(k - 1)
      BY <2>2
    <3>3. PICK d \in Nat : Power[k - 1] = Power[m] * d
      BY <2>0, <3>2, PowerDivides
    <3>4. V[k] = V[k - 1] + IF k - 1 \in bits THEN Power[k - 1] ELSE 0
      BY <1>1, <2>0, SumsAdd
    <3>5. CASE k - 1 \in bits
      <4>1. V[k] = V[m] + Power[m] * (q + d) /\ q + d \in Nat
        BY <1>3, <3>1, <3>3, <3>4, <3>5
      <4> QED
        BY <1>4, <2>0, <4>1
    <3>6. CASE k - 1 \notin bits
      <4>1. V[k] = V[m] + Power[m] * q
        BY <1>3, <3>1, <3>4, <3>6
      <4> QED
        BY <1>4, <2>0, <4>1
    <3> QED
      BY <3>5, <3>6
  <2> QED
    BY <2>1, <2>2
<1>8. \A k \in 0..n : k \in S
  BY <1>2, <1>6, <1>7, UpTo
<1>9. n \in S /\ ~(n < m)
  BY <1>2, <1>8
<1> QED
  BY <1>1, <1>4, <1>9

\* The bits of a long, as SetValue tests them, make its low bits again.
LEMMA BitsMakeNumber ==
  ASSUME NEW v \in Int, NEW n \in 0..LongBits
  PROVE  \E q \in Int : v = Sums(BitsOf(v))[n] + Power[n] * q
<1>1. PICK V : V = Sums(BitsOf(v))
  OBVIOUS
<1>2. LongBits \in Nat /\ \A k \in 0..LongBits : Power[k] \in Nat /\ V[k] \in Nat
  <2>1. V \in [0..LongBits -> Nat]
    BY <1>1, SumsAdd
  <2> QED
    BY <2>1, PowerDoubles
<1>3. PICK S : S = {k \in 0..LongBits : v = V[k] + Power[k] * (v \div Power[k])}
  OBVIOUS
<1>4. 0 \in S
  <2>1. Power[0] = 1 /\ V[0] = 0
    BY <1>1, PowerDoubles, SumsAdd
  <2>2. v \div 1 = v
    OBVIOUS
  <2> QED
    BY <1>2, <1>3, <2>1, <2>2
<1>5. ASSUME NEW k \in 1..LongBits, k - 1 \in S PROVE k \in S
  <2>1. PICK p \in Nat : p = Power[k - 1] /\ p >= 1
    BY <1>2, PowerGrows
  <2>2. PICK a \in Nat : a = V[k - 1]
    BY <1>2
  <2>3. PICK d \in Int : d = v \div p
    BY <2>1
  <2>4. v = a + p * d
    BY <1>3, <1>5, <2>1, <2>2, <2>3
  <2>5. k - 1 \in BitsOf(v) <=> d % 2 = 1
    BY <1>2, <2>1, <2>3 DEF BitsOf
  <2>6. V[k] = a + IF k - 1 \in BitsOf(v) THEN p ELSE 0
    BY <1>1, <2>1, <2>2, SumsAdd
  <2>7. Power[k] = 2 * p
    BY <2>1, PowerDoubles
  <2>8. v \div (2 * p) = d \div 2
    BY <2>1, <2>3
  <2>9. d = 2 * (d \div 2) + (d % 2) /\ d % 2 \in {0, 1} /\ d \div 2 \in Int
    OBVIOUS
  <2>10. V[k] = a + p * (d % 2)
    <3>1. CASE d % 2 = 1
      BY <2>1, <2>5, <2>6, <3>1
    <3>2. CASE d % 2 = 0
      BY <2>1, <2>2, <2>5, <2>6, <3>2
    <3> QED
      BY <2>9, <3>1, <3>2
  <2>11. v = (a + p * (d % 2)) + (2 * p) * (d \div 2)
    <3>1. PICK e \in Int, b \in {0, 1} : e = d \div 2 /\ b = d % 2
      BY <2>9
    <3>2. d = 2 * e + b
      BY <2>9, <3>1
    <3>3. a + p * (2 * e + b) = (a + p * b) + (2 * p) * e
      BY <2>1, <2>2, <3>1
    <3> QED
      BY <2>4, <3>1, <3>2, <3>3
  <2>12. v = V[k] + Power[k] * (v \div Power[k])
    BY <2>7, <2>8, <2>10, <2>11
  <2> QED
    BY <1>2, <1>3, <2>12
<1>6. \A k \in 0..LongBits : k \in S
  BY <1>2, <1>4, <1>5, UpTo
<1>7. v = V[n] + Power[n] * (v \div Power[n]) /\ Power[n] >= 1 /\ Power[n] \in Nat
  BY <1>2, <1>3, <1>6, PowerGrows
<1>8. v \div Power[n] \in Int
  BY <1>7
<1> QED
  BY <1>1, <1>7, <1>8

\* A set without bits from the n-th on stands for the sum of the bits below.
LEMMA NumberOfLow ==
  ASSUME NEW bits, NEW n \in 0..LongBits
  PROVE  Number(bits \cap (0..(n - 1))) = Sums(bits)[n]
<1>1. PICK low : low = bits \cap (0..(n - 1))
  OBVIOUS
<1>2. PICK V : V = Sums(low)
  OBVIOUS
<1>3. LongBits \in Nat /\ n \in Nat
  BY PowerDoubles
<1>4. V[n] = Sums(bits)[n]
  <2>1. \A w \in 0..(n - 1) : w \in low <=> w \in bits
    BY <1>1
  <2> QED
    BY <1>2, <2>1, SumsAgree
<1>5. PICK S : S = {k \in 0..LongBits : k < n \/ V[k] = V[n]}
  OBVIOUS
<1>6. 0 \in S
  BY <1>3, <1>5
<1>7. ASSUME NEW k \in 1..LongBits, k - 1 \in S PROVE k \in S
  <2>1. CASE k <= n
    BY <1>3, <1>5, <2>1
  <2>2. CASE k > n
    <3>1. k - 1 \notin low
      BY <1>1, <1>3, <2>2
    <3>2. V[k] = V[k - 1] + 0
      BY <1>2, <3>1, SumsAdd
    <3>3. V[k - 1] \in Nat
      BY <1>2, <1>3, SumsAdd
    <3>4. V[k - 1] = V[n]
      BY <1>3, <1>5, <1>7, <2>2
    <3>5. V[k] = V[n]
      BY <3>2, <3>3, <3>4
    <3> QED
      BY <1>3, <1>5, <3>5
  <2> QED
    BY <1>3, <2>1, <2>2
<1>8. \A k \in 0..LongBits : k \in S
  BY <1>3, <1>6, <1>7, UpTo
<1>9. V[LongBits] = V[n]
  BY <1>3, <1>5, <1>8
<1> QED
  BY <1>1, <1>2, <1>4, <1>9 DEF Number

\* hibit counts the bits of a magnitude that fits a long: it finds the leftmost.
LEMMA HibitIsLeftmost ==
  ASSUME NEW x \in 0..(Power[LongBits - 1] - 1)
  PROVE  /\ hibit(x) \in 0..(LongBits - 1)
         /\ x < Power[hibit(x)]
         /\ hibit(x) > 0 => Power[hibit(x) - 1] <= x
<1>1. LongBits \in Nat /\ LongBits >= 4 /\ Power[0] = 1
  BY PowerDoubles
<1>2. \A k \in 0..LongBits : Power[k] \in Nat
  BY PowerDoubles
<1>3. CASE x = 0
  BY <1>1, <1>3 DEF hibit
<1>4. CASE x # 0
  <2>1. PICK above : above = {k \in 0..(LongBits - 1) : x < Power[k]}
    OBVIOUS
  <2>2. LongBits - 1 \in above /\ above \in SUBSET Nat
    BY <1>1, <1>2, <2>1
  <2>3. PICK k \in above : \A j \in above : k <= j
    BY <2>2, LeastNatural
  <2>4. k # 0
    BY <1>1, <1>4, <2>1
  <2>5. k \in 1..(LongBits - 1) /\ k - 1 \in 0..(LongBits - 1) /\ k - 1 \notin above
    BY <1>1, <2>1, <2>3, <2>4
  <2>6. Power[k - 1] <= x /\ x < Power[k]
    BY <1>1, <1>2, <2>1, <2>5
  <2>7. \E j \in 1..LongBits : Power[j - 1] <= x /\ x < Power[j]
    BY <1>1, <2>5, <2>6
  <2>8. PICK h : h = CHOOSE j \in 1..LongBits : Power[j - 1] <= x /\ x < Power[j]
    OBVIOUS
  <2>9. h \in 1..LongBits /\ Power[h - 1] <= x /\ x < Power[h]
    BY <2>7, <2>8
  <2>10. h # LongBits
    BY <1>1, <1>2, <2>9
  <2>11. hibit(x) = h
    BY <1>4, <2>8 DEF hibit
  <2> QED
    BY <1>1, <2>9, <2>10, <2>11
<1> QED
  BY <1>3, <1>4

-----------------------------------------------------------------------------
(* The inductive invariant.                                                *)

\* The maximum is what its item and the minimum make it, as long as no newer
\* minimum has come.
MaxFromItem ==
  maxItem # NoItem =>
    LogMax = IF FormatValue(maxItem[1], maxItem[2]) < LogMin
               THEN Signed(maxItem[1], LongBits)
               ELSE FormatValue(maxItem[1], maxItem[2])

\* The field that a command has written holds the low bits of its value.
FieldWritten ==
  sent # NotSent => Buf = BitsOf(sent) \cap Field

ValueInv == TypeOK /\ MaxFromItem /\ FieldWritten

\* The data of an item, and the sign of its width, fit a long.
LEMMA ItemFitsLong ==
  ASSUME NEW e \in Encodings
  PROVE  FormatValue(e[1], e[2]) \in Longs /\ Signed(e[1], LongBits) \in Longs
<1>1. LongBits \in Nat /\ LongBits >= 4 /\ ByteBits \in Nat /\ ByteBits >= 1
  BY PowerDoubles, ValueAssumption
<1>2. PICK B \in Nat : B = ByteBits /\ B >= 1 /\ LongBits = 4 * B
  BY <1>1 DEF LongBits
<1>3. e[2] \in {0, 1, 2, 4} /\ e[1] \in 0..(Power[e[2] * B] - 1)
  BY <1>2, ValueAssumption
<1>4. e[2] * B \in 0..LongBits
  BY <1>2, <1>3
<1>5. e[1] \in Nat /\ e[1] < Power[LongBits]
  <2>1. Power[e[2] * B] <= Power[LongBits] /\ Power[LongBits] \in Nat /\ Power[e[2] * B] \in Nat
    BY <1>1, <1>4, PowerGrows
  <2> QED
    BY <1>3, <2>1
<1>6. ASSUME NEW bits \in 1..LongBits, e[1] < Power[bits]
      PROVE  Signed(e[1], bits) \in Longs
  <2>1. /\ Power[bits - 1] \in Nat /\ Power[LongBits - 1] \in Nat
        /\ Power[bits - 1] <= Power[LongBits - 1]
    BY <1>1, PowerGrows
  <2>2. Power[bits] = 2 * Power[bits - 1]
    BY PowerDoubles
  <2> QED
    BY <1>5, <1>6, <2>1, <2>2 DEF Signed, Longs
<1>7. Signed(e[1], LongBits) \in Longs
  BY <1>1, <1>5, <1>6
<1>8. CASE e[2] = 0
  <2>1. e[1] = 0
    <3>1. e[2] * B = 0
      BY <1>2, <1>8
    <3>2. e[1] \in 0..(1 - 1)
      BY <1>3, <3>1, PowerDoubles
    <3> QED
      BY <3>2
  <2>2. Power[LongBits - 1] \in Nat /\ Power[LongBits - 1] >= 1
    BY <1>1, PowerGrows
  <2>3. 0 \in Longs
    BY <2>2 DEF Longs
  <2> QED
    BY <1>7, <1>8, <2>1, <2>3 DEF FormatValue
<1>9. CASE e[2] # 0
  <2>1. PICK bits : bits = e[2] * B
    OBVIOUS
  <2>2. bits \in 1..LongBits /\ e[1] < Power[bits]
    <3>1. bits \in 1..LongBits
      BY <1>2, <1>3, <1>9, <2>1
    <3>2. Power[bits] \in Nat
      BY <1>4, <2>1, PowerDoubles
    <3> QED
      BY <1>3, <2>1, <3>1, <3>2
  <2>3. Signed(e[1], bits) \in Longs
    BY <1>6, <2>2
  <2> QED
    BY <1>2, <1>7, <1>9, <2>1, <2>3 DEF FormatValue
<1> QED
  BY <1>8, <1>9

\* The limits are longs, the bits of the field are bits of the field, a
\* maximum is that of its item, and a field written by SetValue holds what was
\* written: for every item and every order of them.
THEOREM ValueInvariant == Spec => []ValueInv
<1>1. Init => ValueInv
  <2> SUFFICES ASSUME Init PROVE ValueInv
    OBVIOUS
  <2>1. LongBits \in Nat /\ LongBits >= 4
    BY PowerDoubles
  <2>2. Power[LongBits - 1] \in Nat /\ Power[LongBits - 1] >= 1
    BY <2>1, PowerGrows
  <2>3. 0 \in Longs
    BY <2>2 DEF Longs
  <2> QED
    BY <2>3 DEF Init, ValueInv, TypeOK, MaxFromItem, FieldWritten
<1>2. ValueInv /\ [Next]_vars => ValueInv'
  <2> SUFFICES ASSUME ValueInv, [Next]_vars PROVE ValueInv'
    OBVIOUS
  <2>1. ASSUME NEW e \in Encodings, ItemLogMin(e) PROVE ValueInv'
    <3>1. FormatValue(e[1], e[2]) \in Longs
      BY ItemFitsLong
    <3>2. TypeOK'
      BY <2>1, <3>1 DEF ValueInv, TypeOK, ItemLogMin
    <3>3. MaxFromItem'
      BY <2>1 DEF MaxFromItem, ItemLogMin
    <3>4. FieldWritten'
      BY <2>1 DEF FieldWritten, ItemLogMin
    <3> QED
      BY <3>2, <3>3, <3>4 DEF ValueInv
  <2>2. ASSUME NEW e \in Encodings, ItemLogMax(e) PROVE ValueInv'
    <3>1. FormatValue(e[1], e[2]) \in Longs /\ Signed(e[1], LongBits) \in Longs
      BY ItemFitsLong
    <3>2. LogMax' = IF FormatValue(e[1], e[2]) < LogMin THEN Signed(e[1], LongBits)
                    ELSE FormatValue(e[1], e[2])
      BY <2>2 DEF ItemLogMax
    <3>3. LogMax' \in Longs
      BY <3>1, <3>2
    <3>4. TypeOK'
      BY <2>2, <3>3 DEF ValueInv, TypeOK, ItemLogMax
    <3>5. MaxFromItem'
      BY <2>2, <3>2 DEF MaxFromItem, ItemLogMax
    <3>6. FieldWritten'
      BY <2>2 DEF FieldWritten, ItemLogMax
    <3> QED
      BY <3>4, <3>5, <3>6 DEF ValueInv
  <2>3. ASSUME NEW bits \in SUBSET Field, Report(bits) PROVE ValueInv'
    <3>1. TypeOK'
      BY <2>3 DEF ValueInv, TypeOK, Report, limits, Field
    <3>2. MaxFromItem'
      BY <2>3 DEF ValueInv, MaxFromItem, Report, limits
    <3>3. FieldWritten'
      BY <2>3 DEF FieldWritten, Report
    <3> QED
      BY <3>1, <3>2, <3>3 DEF ValueInv
  <2>4. ASSUME NEW value \in Commanded, SetValue(value) PROVE ValueInv'
    <3>1. value \in Longs
      BY ValueAssumption
    <3>2. TypeOK'
      BY <2>4, <3>1 DEF ValueInv, TypeOK, SetValue, limits, Field
    <3>3. MaxFromItem'
      BY <2>4 DEF ValueInv, MaxFromItem, SetValue, limits
    <3>4. FieldWritten'
      BY <2>4 DEF FieldWritten, SetValue, limits, Field
    <3> QED
      BY <3>2, <3>3, <3>4 DEF ValueInv
  <2>5. CASE UNCHANGED vars
    BY <2>5 DEF ValueInv, TypeOK, MaxFromItem, FieldWritten, Field, vars
  <2> QED
    BY <2>1, <2>2, <2>3, <2>4, <2>5 DEF Next
<1> QED
  BY <1>1, <1>2, PTL DEF Spec

-----------------------------------------------------------------------------
(* Reading a field.                                                        *)

\* The bits that GetValue looks at, the sign bit included if there is one.
MaskBits == IF LogMin < 0 THEN SignBit + 1 ELSE SignBit

\* The bits before the sign bit tell the magnitude of both limits, and the
\* leftmost of them is needed for one.
LEMMA SignBitIsEnough ==
  ASSUME TypeOK, LogMin <= LogMax
  PROVE  /\ SignBit \in 0..(LongBits - 1)
         /\ Power[SignBit] \in Nat
         /\ LogMin >= -Power[SignBit] /\ LogMax < Power[SignBit]
         /\ SignBit > 0 => LogMin < -Power[SignBit - 1] \/ LogMax >= Power[SignBit - 1]
<1>1. LongBits \in Nat /\ LongBits >= 4
  BY PowerDoubles
<1>2. PICK P \in Nat : P = Power[LongBits - 1] /\ P >= 1
  BY <1>1, PowerGrows
<1>3. /\ LogMin \in Int /\ LogMax \in Int
      /\ -P <= LogMin /\ LogMin < P /\ -P <= LogMax /\ LogMax < P
  BY <1>2 DEF TypeOK, Longs
<1>4. PICK m : m = Larger(Magnitude(LogMax), Magnitude(LogMin))
  OBVIOUS
<1>5. /\ m \in 0..(P - 1)
      /\ LogMax <= m /\ -(LogMin + 1) <= m
      /\ m = LogMax \/ m = -(LogMin + 1)
  BY <1>2, <1>3, <1>4 DEF Larger, Magnitude
<1>6. PICK h : h = hibit(m)
  OBVIOUS
<1>7. SignBit = h
  BY <1>4, <1>6 DEF SignBit
<1>8. /\ h \in 0..(LongBits - 1)
      /\ m < Power[h]
      /\ h > 0 => Power[h - 1] <= m
  BY <1>2, <1>5, <1>6, HibitIsLeftmost
<1>9. Power[h] \in Nat /\ (h > 0 => Power[h - 1] \in Nat)
  BY <1>1, <1>8, PowerDoubles
<1>10. LogMin >= -Power[h] /\ LogMax < Power[h]
  BY <1>3, <1>5, <1>8, <1>9
<1>11. h > 0 => LogMin < -Power[h - 1] \/ LogMax >= Power[h - 1]
  BY <1>3, <1>5, <1>8, <1>9
<1> QED
  BY <1>7, <1>8, <1>9, <1>10, <1>11

\* A field that has room for its limits has all the bits of the mask.
LEMMA RoomForMask ==
  ASSUME TypeOK, LogMin <= LogMax, Roomy
  PROVE  MaskBits \in 0..Size /\ Size \in 1..LongBits
<1>1. LongBits \in Nat /\ Size \in 1..LongBits
  BY PowerDoubles, ValueAssumption DEF TypeOK
<1>2. PICK h : h = SignBit
  OBVIOUS
<1>3. /\ h \in 0..(LongBits - 1)
      /\ h > 0 => LogMin < -Power[h - 1] \/ LogMax >= Power[h - 1]
  BY <1>2, SignBitIsEnough
<1>4. LogMin \in Int /\ LogMax \in Int
  <2>1. Power[LongBits - 1] \in Nat
    BY <1>1, PowerDoubles
  <2> QED
    BY <2>1 DEF TypeOK, Longs
<1>5. CASE LogMin >= 0
  <2>1. LogMax < Power[Size]
    BY <1>5 DEF Roomy
  <2>2. SUFFICES ASSUME h > Size PROVE FALSE
    BY <1>1, <1>2, <1>3, <1>4, <1>5 DEF MaskBits
  <2>3. Power[Size] <= Power[h - 1] /\ Power[Size] \in Nat /\ Power[h - 1] \in Nat
    BY <1>1, <1>3, <2>2, PowerGrows
  <2> QED
    BY <1>1, <1>3, <1>4, <1>5, <2>1, <2>2, <2>3
<1>6. CASE LogMin < 0
  <2>1. -Power[Size - 1] <= LogMin /\ LogMax < Power[Size - 1]
    BY <1>4, <1>6 DEF Roomy
  <2>2. SUFFICES ASSUME h + 1 > Size PROVE FALSE
    BY <1>1, <1>2, <1>3, <1>6 DEF MaskBits
  <2>3. CASE h > 0
    <3>1. Power[Size - 1] <= Power[h - 1] /\ Power[Size - 1] \in Nat /\ Power[h - 1] \in Nat
      BY <1>1, <1>3, <2>2, <2>3, PowerGrows
    <3> QED
      BY <1>1, <1>3, <1>4, <2>1, <2>3, <3>1
  <2> QED
    BY <1>1, <1>3, <2>2, <2>3
<1> QED
  BY <1>4, <1>5, <1>6

\* GetValue finds the one number within the limits that agrees with the field
\* in the bits of the mask.
LEMMA ReadsTheOneInRange ==
  ASSUME TypeOK, LogMin <= LogMax, NEW r \in LogMin..LogMax, NEW q \in Int,
         r = Sums(Buf)[MaskBits] + Power[MaskBits] * q
  PROVE  GetValue = r
<1>1. LongBits \in Nat /\ LongBits >= 4
  BY PowerDoubles
<1>2. PICK h : h = SignBit
  OBVIOUS
<1>3. h \in 0..(LongBits - 1) /\ LogMin >= -Power[h] /\ LogMax < Power[h]
  BY <1>2, SignBitIsEnough
<1>4. LogMin \in Int /\ LogMax \in Int /\ r \in Int /\ LogMin <= r /\ r <= LogMax
  <2>1. Power[LongBits - 1] \in Nat
    BY <1>1, PowerDoubles
  <2> QED
    BY <2>1 DEF TypeOK, Longs
<1>5. PICK p \in Nat : p = Power[h] /\ p >= 1
  BY <1>1, <1>3, PowerGrows
<1>6. PICK V : V = Sums(Buf)
  OBVIOUS
<1>7. V[h] \in 0..(p - 1)
  BY <1>1, <1>3, <1>5, <1>6, SumsBound
<1>8. Clamp(r) = r
  BY <1>4 DEF Clamp
<1>9. CASE LogMin >= 0
  <2>1. MaskBits = h /\ Mask = 0..(h - 1)
    BY <1>2, <1>4, <1>9 DEF MaskBits, Mask
  <2>2. Number(Buf \cap Mask) = V[h]
    <3>1. h \in 0..LongBits
      BY <1>1, <1>3
    <3>2. Number(Buf \cap (0..(h - 1))) = Sums(Buf)[h]
      BY <3>1, NumberOfLow, Zenon
    <3> QED
      BY <1>6, <2>1, <3>2, Zenon
  <2>3. r = V[h] + p * q
    BY <1>5, <1>6, <2>1
  <2>4. 0 <= r /\ r < p
    BY <1>3, <1>4, <1>5, <1>9
  <2>5. q = 0
    BY <1>5, <1>7, <2>3, <2>4
  <2>6. r = V[h]
    BY <1>5, <1>7, <2>3, <2>5
  <2>7. Extended(Buf \cap Mask) = r
    BY <1>4, <1>9, <2>2, <2>6 DEF Extended
  <2> QED
    BY <1>8, <2>7 DEF GetValue
<1>10. CASE LogMin < 0
  <2>1. MaskBits = h + 1 /\ Mask = 0..((h + 1) - 1) /\ h \in Mask
    BY <1>1, <1>2, <1>3, <1>10 DEF MaskBits, Mask
  <2>2. h + 1 \in 1..LongBits /\ (h + 1) - 1 = h
    BY <1>1, <1>3
  <2>3. Power[h + 1] = 2 * p
    BY <1>5, <2>2, PowerDoubles
  <2>4. V[h + 1] = V[h] + IF h \in Buf THEN p ELSE 0
    BY <1>5, <1>6, <2>2, SumsAdd
  <2>5. Number(Buf \cap Mask) = V[h + 1]
    <3>1. h + 1 \in 0..LongBits
      BY <1>1, <1>3
    <3>2. Number(Buf \cap (0..((h + 1) - 1))) = Sums(Buf)[h + 1]
      BY <3>1, NumberOfLow, Zenon
    <3> QED
      BY <1>6, <2>1, <3>2, Zenon
  <2>6. r = V[h + 1] + (2 * p) * q
    BY <1>6, <2>1, <2>3
  <2>7. -p <= r /\ r < p
    BY <1>3, <1>4, <1>5
  <2>8. Extended(Buf \cap Mask) = IF h \in Buf THEN V[h + 1] - 2 * p ELSE V[h + 1]
    BY <1>2, <1>10, <2>1, <2>3, <2>5 DEF Extended
  <2>9. CASE h \in Buf
    <3>1. r = (V[h] + p) + (2 * p) * q
      BY <1>5, <1>7, <2>4, <2>6, <2>9
    <3>2. q = -1
      BY <1>5, <1>7, <2>7, <3>1
    <3>3. Extended(Buf \cap Mask) = r
      BY <1>5, <1>7, <2>4, <2>8, <2>9, <3>1, <3>2
    <3> QED
      BY <1>8, <3>3 DEF GetValue
  <2>10. CASE h \notin Buf
    <3>1. r = V[h] + (2 * p) * q
      BY <1>5, <1>7, <2>4, <2>6, <2>10
    <3>2. q = 0
      BY <1>5, <1>7, <2>7, <3>1
    <3>3. Extended(Buf \cap Mask) = r
      BY <1>5, <1>7, <2>4, <2>8, <2>10, <3>1, <3>2
    <3> QED
      BY <1>8, <3>3 DEF GetValue
  <2> QED
    BY <2>9, <2>10
<1> QED
  BY <1>4, <1>9, <1>10

-----------------------------------------------------------------------------
(* The properties.                                                         *)

\* A value within the limits of a field that has room for them is read as it is,
\* for all such limits and sizes.
THEOREM InRangeValueIsKept == Spec => []InRangeIsKept
<1>1. ValueInv => InRangeIsKept
  <2> SUFFICES ASSUME ValueInv, LogMin <= LogMax, Roomy, HidReading \in LogMin..LogMax
               PROVE  GetValue = HidReading
    BY DEF InRangeIsKept
  <2>1. PICK k : k = MaskBits
    OBVIOUS
  <2>2. k \in 0..Size /\ Size \in 1..LongBits /\ LongBits \in Nat
    BY <2>1, RoomForMask, PowerDoubles DEF ValueInv
  <2>3. PICK V : V = Sums(Buf)
    OBVIOUS
  <2>4. Number(Buf) = V[Size]
    <3>1. Buf \cap (0..(Size - 1)) = Buf
      BY DEF ValueInv, TypeOK, Field
    <3>2. Size \in 0..LongBits
      BY <2>2
    <3>3. Number(Buf \cap (0..(Size - 1))) = Sums(Buf)[Size]
      BY <3>2, NumberOfLow, Zenon
    <3> QED
      BY <2>3, <3>1, <3>3, Zenon
  <2>5. PICK q \in Nat : V[Size] = V[k] + Power[k] * q
    BY <2>2, <2>3, SumsSplit
  <2>6. PICK d \in Nat : Power[Size] = Power[k] * d
    BY <2>2, PowerDivides
  <2>7. V[k] \in Nat /\ Power[k] \in Nat
    <3>1. V \in [0..LongBits -> Nat] /\ Power \in [0..LongBits -> Nat]
      BY <2>3, SumsAdd, PowerDoubles, Zenon
    <3>2. k \in 0..LongBits
      BY <2>2
    <3> QED
      BY <3>1, <3>2
  <2>8. HidReading = V[Size] \/ HidReading = V[Size] - Power[Size]
    BY <2>4 DEF HidReading, Signed
  <2>9. \E m \in Int : HidReading = V[k] + Power[k] * m
    <3>1. CASE HidReading = V[Size]
      BY <2>5, <3>1
    <3>2. CASE HidReading = V[Size] - Power[Size]
      <4>1. HidReading = V[k] + Power[k] * (q - d) /\ q - d \in Int
        BY <2>5, <2>6, <2>7, <3>2
      <4> QED
        BY <4>1
    <3> QED
      BY <2>8, <3>1, <3>2
  <2> QED
    BY <2>1, <2>3, <2>9, ReadsTheOneInRange DEF ValueInv
<1> QED
  BY <1>1, ValueInvariant, PTL

\* What is read is within the limits.
LEMMA ReadingIsInRange ==
  ASSUME TypeOK, LogMin <= LogMax
  PROVE  GetValue \in LogMin..LogMax
<1>1. LongBits \in Nat /\ LongBits >= 4
  BY PowerDoubles
<1>2. LogMin \in Int /\ LogMax \in Int
  <2>1. Power[LongBits - 1] \in Nat
    BY <1>1, PowerDoubles
  <2> QED
    BY <2>1 DEF TypeOK, Longs
<1>3. PICK bits : bits = Buf \cap Mask
  OBVIOUS
<1>4. Number(bits) \in Nat
  <2>1. Sums(bits) \in [0..LongBits -> Nat]
    BY SumsAdd
  <2> QED
    BY <1>1, <2>1 DEF Number
<1>5. SignBit + 1 \in 0..LongBits /\ Power[SignBit + 1] \in Nat
  <2>1. SignBit \in 0..(LongBits - 1)
    BY SignBitIsEnough
  <2>2. SignBit + 1 \in 0..LongBits
    BY <1>1, <2>1
  <2> QED
    BY <2>2, PowerDoubles
<1>6. PICK v : v = Extended(bits)
  OBVIOUS
<1>7. v \in Int
  BY <1>4, <1>5, <1>6 DEF Extended
<1>8. GetValue = Clamp(v)
  BY <1>3, <1>6 DEF GetValue
<1> QED
  BY <1>2, <1>7, <1>8 DEF Clamp

\* Of all values that commands can have written, exactly those within the limits
\* are read back, for all limits that the field has room for.
THEOREM WrittenIsReadBack == Spec => []SetIsReadBack
<1>1. ValueInv => SetIsReadBack
  <2>0. ValueInv /\ LogMin <= LogMax /\ GetValue = sent => sent \in LogMin..LogMax
    BY ReadingIsInRange DEF ValueInv
  <2> SUFFICES ASSUME ValueInv, sent # NotSent, LogMin <= LogMax, Roomy,
                      sent \in LogMin..LogMax
               PROVE  GetValue = sent
    BY <2>0 DEF SetIsReadBack
  <2>1. sent \in LogMin..LogMax /\ Buf = BitsOf(sent) \cap Field
    BY DEF ValueInv, FieldWritten
  <2>2. sent \in Int
    <3>1. LongBits \in Nat /\ LongBits >= 4
      BY PowerDoubles
    <3>2. Power[LongBits - 1] \in Nat
      BY <3>1, PowerDoubles
    <3> QED
      BY <2>1, <3>2 DEF ValueInv, TypeOK, Longs
  <2>3. LogMin <= LogMax
    OBVIOUS
  <2>4. PICK k : k = MaskBits
    OBVIOUS
  <2>5. k \in 0..Size /\ Size \in 1..LongBits /\ LongBits \in Nat /\ k \in 0..LongBits
    BY <2>3, <2>4, RoomForMask, PowerDoubles DEF ValueInv
  <2>6. \A w \in 0..(k - 1) : w \in Buf <=> w \in BitsOf(sent)
    BY <2>1, <2>5 DEF Field
  <2>7. Sums(Buf)[k] = Sums(BitsOf(sent))[k]
    BY <2>5, <2>6, SumsAgree
  <2>8. PICK q \in Int : sent = Sums(BitsOf(sent))[k] + Power[k] * q
    BY <2>2, <2>5, BitsMakeNumber
  <2>9. sent = Sums(Buf)[k] + Power[k] * q
    BY <2>7, <2>8, Zenon
  <2> QED
    BY <2>1, <2>3, <2>4, <2>9, ReadsTheOneInRange DEF ValueInv
<1> QED
  BY <1>1, ValueInvariant, PTL

\* A maximum of less than four bytes whose sign bit the firmware has set by
\* mistake is the unsigned one after a minimum that is not negative, and gives
\* a range that is not empty after any that is not more than it; which range, of
\* a negative minimum, is not said, nor what a newer minimum does.
THEOREM MistakenMaximumIsRepaired == Spec => []RangeIsRepaired
<1>1. ValueInv => RangeIsRepaired
  <2> SUFFICES ASSUME ValueInv, maxItem # NoItem, maxItem[2] < 4, LogMin <= maxItem[1]
               PROVE  LogMin <= LogMax /\ (LogMin >= 0 => LogMax = maxItem[1])
    BY DEF RangeIsRepaired
  <2>1. PICK e \in Encodings : e = maxItem
    BY DEF ValueInv, TypeOK
  <2>2. LongBits \in Nat /\ LongBits >= 4 /\ ByteBits \in Nat /\ ByteBits >= 1
    BY PowerDoubles, ValueAssumption
  <2>3. PICK B \in Nat : B = ByteBits /\ B >= 1 /\ LongBits = 4 * B
    BY <2>2 DEF LongBits
  <2>4. e[2] \in {0, 1, 2} /\ e[1] \in 0..(Power[e[2] * B] - 1)
    BY <2>1, <2>3, ValueAssumption
  <2>5. e[2] * B \in 0..(LongBits - 1)
    BY <2>3, <2>4
  <2>6. Power[e[2] * B] <= Power[LongBits - 1] /\ Power[LongBits - 1] \in Nat
    BY <2>2, <2>5, PowerGrows
  <2>7. Power[e[2] * B] \in Nat
    <3>1. e[2] * B \in 0..LongBits
      BY <2>2, <2>5
    <3> QED
      BY <3>1, PowerDoubles
  <2>8. e[1] \in Nat /\ e[1] < Power[LongBits - 1]
    BY <2>4, <2>6, <2>7
  <2>9. Signed(e[1], LongBits) = e[1]
    BY <2>6, <2>8 DEF Signed
  <2>10. FormatValue(e[1], e[2]) \in Int /\ LogMin \in Int
    BY <2>6, ItemFitsLong DEF ValueInv, TypeOK, Longs
  <2>11. LogMax = IF FormatValue(e[1], e[2]) < LogMin THEN e[1] ELSE FormatValue(e[1], e[2])
    BY <2>1, <2>9 DEF ValueInv, MaxFromItem
  <2>12. FormatValue(e[1], e[2]) < 0 \/ FormatValue(e[1], e[2]) = e[1]
    <3>1. CASE e[2] = 0
      BY <3>1 DEF FormatValue
    <3>2. CASE e[2] # 0
      <4>1. FormatValue(e[1], e[2]) = Signed(e[1], e[2] * B)
        BY <2>3, <3>2 DEF FormatValue
      <4>2. Power[e[2] * B] \in Nat /\ e[1] \in Nat /\ e[1] < Power[e[2] * B]
        BY <2>4, <2>7
      <4>3. Signed(e[1], e[2] * B) = e[1] \/ Signed(e[1], e[2] * B) = e[1] - Power[e[2] * B]
        BY DEF Signed
      <4> QED
        BY <4>1, <4>2, <4>3
    <3> QED
      BY <3>1, <3>2
  <2> QED
    BY <2>1, <2>8, <2>10, <2>11, <2>12
<1> QED
  BY <1>1, ValueInvariant, PTL
=============================================================================
