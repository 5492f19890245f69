-------------------------- MODULE LogParserProofs --------------------------
(***************************************************************************)
(* What the loops of LogParser compute and what Calculate and Sort answer, *)
(* for every content of the rows and any width of an int.                  *)
(***************************************************************************)
EXTENDS LogParser, SequenceTheorems, FiniteSetTheorems, FunctionTheorems,
        WellFoundedInduction, TLAPS

(* Loops over 1..n *)

\* What holds at the start of a loop and is kept by each turn holds all along.
LEMMA Upward ==
  ASSUME NEW n \in Nat, NEW T, 0 \in T, \A k \in 1..n : k - 1 \in T => k \in T
  PROVE  \A k \in 0..n : k \in T
<1> DEFINE D == {k \in 0..n : k \notin T}
           R == {ss \in Nat \X Nat : ss[1] < ss[2]}
<1>1. IsWellFoundedOn(R, Nat)
  BY NatLessThanWellFounded DEF OpToRel
<1>2. SUFFICES ASSUME D # {} PROVE FALSE
  OBVIOUS
<1>3. D \subseteq Nat
  OBVIOUS
<1> HIDE DEF R
<1>4. PICK m \in D : \A k \in D : ~ (<<k, m>> \in R)
  BY <1>1, <1>2, <1>3, WFMin
<1>5. m \in 1..n /\ m - 1 \in 0..n /\ m - 1 < m
  OBVIOUS
<1>6. m - 1 \notin D
  BY <1>3, <1>4, <1>5 DEF R
<1> QED
  BY <1>5, <1>6

\* f[k] is what the first k turns of a loop made of b.
Loop(f, n, b, g) == f[0] = b /\ \A k \in 1..n : f[k] = g[<<k, f[k - 1]>>]

\* There is a function that a loop computes.
LEMMA Recursion ==
  ASSUME NEW n \in Nat, NEW V, NEW b \in V, NEW g \in [(1..n) \X V -> V]
  PROVE  \E f \in [0..n -> V] : Loop(f, n, b, g)
<1> DEFINE Computes(f, m) == /\ f \in [0..m -> V] /\ f[0] = b
                             /\ \A k \in 1..m : f[k] = g[<<k, f[k - 1]>>]
           T == {m \in 0..n : \E f : Computes(f, m)}
<1>1. 0 \in T
  <2>1. Computes([k \in 0..0 |-> b], 0)
    OBVIOUS
  <2> HIDE DEF Computes
  <2> QED
    BY <2>1
<1>2. ASSUME NEW m \in 1..n, m - 1 \in T
      PROVE  m \in T
  <2>1. PICK f : Computes(f, m - 1)
    BY <1>2
  <2> DEFINE h == [k \in 0..m |-> IF k < m THEN f[k] ELSE g[<<m, f[m - 1]>>]]
  <2>2. f[m - 1] \in V
    BY <2>1
  <2>3. g[<<m, f[m - 1]>>] \in V
    BY <2>2
  <2>4. h \in [0..m -> V]
    BY <2>1, <2>3
  <2>5. h[0] = b
    BY <2>1
  <2>6. ASSUME NEW k \in 1..m PROVE h[k] = g[<<k, h[k - 1]>>]
    <3>1. k - 1 \in 0..m /\ k - 1 < m /\ k \in 0..m
      OBVIOUS
    <3>2. h[k - 1] = f[k - 1]
      BY <3>1
    <3>3. CASE k = m
      <4>1. h[k] = g[<<m, f[m - 1]>>]
        BY <3>1, <3>3
      <4> QED
        BY <3>2, <3>3, <4>1
    <3>4. CASE k # m
      <4>1. k < m /\ k \in 1..(m - 1)
        BY <3>4
      <4>2. h[k] = f[k]
        BY <3>1, <4>1
      <4>3. f[k] = g[<<k, f[k - 1]>>]
        BY <2>1, <4>1
      <4> QED
        BY <3>2, <4>2, <4>3
    <3> QED
      BY <3>3, <3>4
  <2>7. Computes(h, m)
    BY <2>4, <2>5, <2>6
  <2>8. m \in 0..n
    OBVIOUS
  <2> HIDE DEF Computes
  <2> QED
    BY <2>7, <2>8
<1>3. n \in T
  <2> HIDE DEF T
  <2>1. \A k \in 0..n : k \in T
    BY <1>1, <1>2, Upward
  <2> QED
    BY <2>1
<1>4. PICK f : Computes(f, n)
  BY <1>3
<1>5. f \in [0..n -> V] /\ Loop(f, n, b, g)
  BY <1>4 DEF Loop
<1> QED
  BY <1>5

\* The loop that keeps the elements at the places ok.
Keeps(f, s, ok) ==
    /\ f[0] = <<>>
    /\ \A k \in 1..Len(s) : f[k] = IF k \in ok THEN Append(f[k - 1], s[k]) ELSE f[k - 1]
    /\ Those(s, ok) = f[Len(s)]

LEMMA KeepingLoop ==
  ASSUME NEW S, NEW s \in Seq(S), NEW ok
  PROVE  \E f \in [0..Len(s) -> Seq(S)] : Keeps(f, s, ok)
<1> DEFINE n == Len(s)
           P(f) == f = [k \in 0..n |-> IF k = 0 THEN <<>>
                                       ELSE IF k \in ok THEN Append(f[k - 1], s[k])
                                       ELSE f[k - 1]]
           g == [p \in (1..n) \X Seq(S) |-> IF p[1] \in ok THEN Append(p[2], s[p[1]]) ELSE p[2]]
<1>1. n \in Nat /\ \A k \in 1..n : s[k] \in S
  BY LenProperties, ElementOfSeq
<1>2. <<>> \in Seq(S)
  BY EmptySeq
<1>3. g \in [(1..n) \X Seq(S) -> Seq(S)]
  BY <1>1, AppendProperties
<1>4. Those(s, ok) = (CHOOSE f : P(f))[n]
  BY DEF Those
<1> HIDE DEF n
<1>5. PICK f \in [0..n -> Seq(S)] : f[0] = <<>> /\ \A k \in 1..n : f[k] = g[<<k, f[k - 1]>>]
  <2> DEFINE V == Seq(S)
             b == <<>>
  <2>1. n \in Nat
    BY <1>1
  <2>2. b \in V
    BY <1>2
  <2>3. g \in [(1..n) \X V -> V]
    BY <1>3
  <2> HIDE DEF V, g, b
  <2>4. \E f \in [0..n -> V] : Loop(f, n, b, g)
    BY <2>1, <2>2, <2>3, Recursion
  <2> QED
    BY <2>4 DEF V, b, Loop
<1>6. ASSUME NEW k \in 1..n
      PROVE  f[k] = IF k \in ok THEN Append(f[k - 1], s[k]) ELSE f[k - 1]
  <2>1. k - 1 \in 0..n /\ f[k - 1] \in Seq(S)
    BY <1>1, <1>5
  <2>2. <<k, f[k - 1]>> \in (1..n) \X Seq(S)
    BY <2>1
  <2>3. g[<<k, f[k - 1]>>] = IF k \in ok THEN Append(f[k - 1], s[k]) ELSE f[k - 1]
    BY <2>2
  <2> QED
    BY <1>5, <2>3
<1>7. P(f)
  <2>1. \A k \in 0..n : k = 0 \/ k \in 1..n
    BY <1>1
  <2> QED
    BY <1>5, <1>6, <2>1
<1> DEFINE h == CHOOSE x : P(x)
<1>8. P(h)
  <2> HIDE DEF P
  <2> QED
    BY <1>7
<1>9. h[0] = <<>> /\ \A k \in 1..n : h[k] = IF k \in ok THEN Append(h[k - 1], s[k]) ELSE h[k - 1]
  <2> HIDE DEF h
  <2>1. 0 \in 0..n /\ \A k \in 1..n : k \in 0..n /\ k # 0
    BY <1>1
  <2> QED
    BY <1>8, <2>1
<1> HIDE DEF h
<1>10. \A k \in 0..n : h[k] \in Seq(S)
  <2> DEFINE T == {k \in 0..n : h[k] \in Seq(S)}
  <2>1. 0 \in T
    <3>1. h[0] \in Seq(S)
      BY <1>2, <1>9
    <3> QED
      BY <1>1, <3>1
  <2>2. ASSUME NEW k \in 1..n, k - 1 \in T PROVE k \in T
    <3>1. h[k - 1] \in Seq(S) /\ s[k] \in S
      BY <1>1, <2>2
    <3>2. Append(h[k - 1], s[k]) \in Seq(S)
      BY <3>1, AppendProperties
    <3>3. h[k] = IF k \in ok THEN Append(h[k - 1], s[k]) ELSE h[k - 1]
      BY <1>9
    <3>4. h[k] \in Seq(S)
      BY <3>1, <3>2, <3>3
    <3> QED
      BY <1>1, <3>4
  <2> HIDE DEF T
  <2>3. \A k \in 0..n : k \in T
    BY <1>1, <2>1, <2>2, Upward
  <2> QED
    BY <2>3 DEF T
<1>11. h \in [0..n -> Seq(S)]
  <2>1. h = [k \in 0..n |-> h[k]]
    BY <1>8
  <2> QED
    BY <1>10, <2>1
<1>12. Those(s, ok) = h[n]
  BY <1>4 DEF h
<1> QED
  BY <1>9, <1>11, <1>12 DEF n, Keeps

\* The loop that adds up numbers.
LEMMA AddingLoop ==
  ASSUME NEW ns \in Seq(Int)
  PROVE  \E f \in [0..Len(ns) -> Int] :
            /\ f[0] = 0 /\ SumOf(ns) = f[Len(ns)]
            /\ \A k \in 1..Len(ns) : f[k] = f[k - 1] + ns[k]
<1> DEFINE n == Len(ns)
           P(f) == f = [k \in 0..n |-> IF k = 0 THEN 0 ELSE f[k - 1] + ns[k]]
           g == [p \in (1..n) \X Int |-> p[2] + ns[p[1]]]
           h == CHOOSE x : P(x)
<1>1. n \in Nat /\ \A k \in 1..n : ns[k] \in Int
  BY LenProperties, ElementOfSeq
<1>2. g \in [(1..n) \X Int -> Int]
  BY <1>1
<1>3. SumOf(ns) = h[n]
  BY DEF SumOf
<1> HIDE DEF n
<1>4. PICK f \in [0..n -> Int] : Loop(f, n, 0, g)
  <2>1. 0 \in Int
    OBVIOUS
  <2> HIDE DEF g
  <2> QED
    BY <1>1, <1>2, <2>1, Recursion
<1>5. ASSUME NEW k \in 1..n PROVE f[k] = f[k - 1] + ns[k]
  <2>1. f[k - 1] \in Int
    BY <1>1
  <2>2. g[<<k, f[k - 1]>>] = f[k - 1] + ns[k]
    BY <2>1
  <2> QED
    BY <1>4, <2>2 DEF Loop
<1>6. P(f)
  <2>1. f[0] = 0 /\ \A k \in 0..n : k = 0 \/ k \in 1..n
    BY <1>1, <1>4 DEF Loop
  <2> QED
    BY <1>5, <2>1
<1>7. P(h)
  <2> HIDE DEF P
  <2> QED
    BY <1>6
<1> HIDE DEF h
<1>8. h[0] = 0 /\ \A k \in 1..n : h[k] = h[k - 1] + ns[k]
  <2>1. 0 \in 0..n /\ \A k \in 1..n : k \in 0..n /\ k # 0
    BY <1>1
  <2> QED
    BY <1>7, <2>1
<1>9. \A k \in 0..n : h[k] \in Int
  <2> DEFINE T == {k \in 0..n : h[k] \in Int}
  <2>1. 0 \in T
    BY <1>1, <1>8
  <2>2. ASSUME NEW k \in 1..n, k - 1 \in T PROVE k \in T
    <3>1. h[k - 1] \in Int /\ ns[k] \in Int /\ h[k] = h[k - 1] + ns[k]
      BY <1>1, <1>8, <2>2
    <3> QED
      BY <1>1, <3>1
  <2> HIDE DEF T
  <2>3. \A k \in 0..n : k \in T
    BY <1>1, <2>1, <2>2, Upward
  <2> QED
    BY <2>3 DEF T
<1>10. h \in [0..n -> Int]
  <2>1. h = [k \in 0..n |-> h[k]]
    BY <1>7
  <2> QED
    BY <1>9, <2>1
<1> QED
  BY <1>3, <1>8, <1>10 DEF n

\* An int is what it is converted from, but for a multiple of the int's range.
LEMMA Converted ==
  ASSUME NEW a \in Int
  PROVE  /\ ToInt(a) \in -IntLimit..(IntLimit - 1)
         /\ \E q \in Int : a = ToInt(a) + q * (2 * IntLimit)
<1> DEFINE m == 2 * IntLimit
           r == (a + IntLimit) % m
           q == (a + IntLimit) \div m
<1>1. IntLimit \in Nat \ {0} /\ m \in Nat \ {0}
  BY IntAssumption DEF IntAssumption
<1>2. r \in 0..(m - 1) /\ q \in Int /\ a + IntLimit = q * m + r
  <2>1. a + IntLimit \in Int
    BY <1>1
  <2> HIDE DEF m
  <2> QED
    BY <1>1, <2>1
<1>3. ToInt(a) = r - IntLimit
  BY DEF ToInt
<1>4. q * m \in Int
  BY <1>1, <1>2
<1> HIDE DEF r, q
<1>5. ToInt(a) \in -IntLimit..(IntLimit - 1)
  BY <1>1, <1>2, <1>3
<1>6. a = ToInt(a) + q * m
  <2> HIDE DEF m
  <2> QED
    BY <1>1, <1>2, <1>3, <1>4
<1> QED
  BY <1>2, <1>5, <1>6

\* Two ints that differ by a multiple of the range are the same.
LEMMA SameInt ==
  ASSUME NEW a \in Int, NEW b \in Int, NEW q \in Int, a = b + q * (2 * IntLimit)
  PROVE  ToInt(a) = ToInt(b)
<1> DEFINE m == 2 * IntLimit
           x == ToInt(a)
           y == ToInt(b)
<1>1. IntLimit \in Nat \ {0} /\ m \in Nat \ {0}
  BY IntAssumption DEF IntAssumption
<1>2. PICK i \in Int : a = x + i * m
  BY Converted
<1>3. PICK j \in Int : b = y + j * m
  BY Converted
<1>4. x \in -IntLimit..(IntLimit - 1) /\ y \in -IntLimit..(IntLimit - 1)
  BY Converted
<1> HIDE DEF x, y
<1>5. x - y \in (1 - m)..(m - 1)
  BY <1>1, <1>4
<1> DEFINE d == q + j - i
<1>6. d \in Int /\ x - y = d * m
  <2>1. x + i * m = y + j * m + q * m
    BY <1>2, <1>3
  <2>2. i * m \in Int /\ j * m \in Int /\ q * m \in Int /\ x \in Int /\ y \in Int
    BY <1>1, <1>4
  <2>3. d * m = q * m + j * m - i * m
    <3> HIDE DEF m
    <3> QED
      BY <1>1
  <2> HIDE DEF m
  <2> QED
    BY <2>1, <2>2, <2>3
<1> HIDE DEF m, d
<1>7. d = 0
  <2>1. CASE d >= 1
    <3>1. d * m >= m
      BY <1>1, <1>6, <2>1
    <3> QED
      BY <1>1, <1>5, <1>6, <3>1
  <2>2. CASE d <= -1
    <3>1. d * m <= -m
      BY <1>1, <1>6, <2>2
    <3> QED
      BY <1>1, <1>5, <1>6, <3>1
  <2> QED
    BY <1>6, <2>1, <2>2
<1>8. x - y = 0
  BY <1>1, <1>6, <1>7
<1> QED
  BY <1>4, <1>8 DEF x, y

LEMMA IntIsItself ==
  ASSUME NEW a \in -IntLimit..(IntLimit - 1)
  PROVE  ToInt(a) = a
<1> DEFINE m == 2 * IntLimit
           x == ToInt(a)
<1>1. IntLimit \in Nat \ {0} /\ m \in Nat \ {0} /\ a \in Int
  BY IntAssumption DEF IntAssumption
<1>2. PICK i \in Int : a = x + i * m
  BY <1>1, Converted
<1>3. x \in -IntLimit..(IntLimit - 1)
  BY <1>1, Converted
<1> HIDE DEF x
<1>4. a - x \in (1 - m)..(m - 1) /\ a - x = i * m
  <2>1. i * m \in Int
    BY <1>1
  <2> QED
    BY <1>1, <1>2, <1>3, <2>1
<1> HIDE DEF m
<1>5. i = 0
  <2>1. CASE i >= 1
    <3>1. i * m >= m
      BY <1>1, <2>1
    <3> QED
      BY <1>1, <1>4, <3>1
  <2>2. CASE i <= -1
    <3>1. i * m <= -m
      BY <1>1, <2>2
    <3> QED
      BY <1>1, <1>4, <3>1
  <2> QED
    BY <2>1, <2>2
<1>6. a - x = 0
  BY <1>1, <1>4, <1>5
<1> QED
  BY <1>1, <1>3, <1>6 DEF x

\* Converting every partial sum changes no more than converting the sum.
LEMMA TurnOfSum ==
  ASSUME NEW a \in Int, NEW v \in Int
  PROVE  ToInt(ToInt(a) + v) = ToInt(a + v)
<1>1. PICK q \in Int : a = ToInt(a) + q * (2 * IntLimit)
  BY Converted
<1>2. ToInt(a) \in Int /\ IntLimit \in Int
  BY Converted, IntAssumption DEF IntAssumption
<1> DEFINE x == ToInt(a)
           y == q * (2 * IntLimit)
<1>3. y \in Int
  BY <1>2
<1>4. a + v = (x + v) + y
  <2>1. a = x + y
    BY <1>1
  <2> HIDE DEF x, y
  <2> QED
    BY <1>2, <1>3, <2>1 DEF x
<1>5. a + v \in Int /\ x + v \in Int
  BY <1>2
<1>6. ToInt(a + v) = ToInt(x + v)
  <2> HIDE DEF x
  <2> QED
    BY <1>4, <1>5, SameInt
<1> QED
  BY <1>6

LEMMA Accumulated ==
  ASSUME NEW vs \in Seq(Int)
  PROVE  Accumulate(vs) = ToInt(SumOf(vs)) /\ SumOf(vs) \in Int
<1> DEFINE n == Len(vs)
           P(h) == h = [k \in 0..n |-> IF k = 0 THEN 0 ELSE ToInt(h[k - 1] + vs[k])]
           h == CHOOSE x : P(x)
<1>1. n \in Nat /\ \A k \in 1..n : vs[k] \in Int
  BY LenProperties, ElementOfSeq
<1>2. PICK f \in [0..n -> Int] : /\ f[0] = 0 /\ SumOf(vs) = f[n]
                                 /\ \A k \in 1..n : f[k] = f[k - 1] + vs[k]
  BY AddingLoop
<1>3. Accumulate(vs) = h[n]
  BY DEF Accumulate
<1>4. ToInt(0) = 0
  <2>1. 0 \in -IntLimit..(IntLimit - 1)
    BY IntAssumption DEF IntAssumption
  <2> QED
    BY <2>1, IntIsItself
<1> HIDE DEF n
<1>5. ASSUME NEW k \in 1..n PROVE ToInt(ToInt(f[k - 1]) + vs[k]) = ToInt(f[k])
  <2>1. f[k - 1] \in Int /\ vs[k] \in Int
    BY <1>1
  <2>2. f[k] = f[k - 1] + vs[k]
    BY <1>2
  <2> QED
    BY <2>1, <2>2, TurnOfSum
<1>6. P([k \in 0..n |-> ToInt(f[k])])
  <2> DEFINE e == [k \in 0..n |-> ToInt(f[k])]
  <2>1. \A k \in 1..n : k - 1 \in 0..n /\ k \in 0..n
    BY <1>1
  <2>2. ASSUME NEW k \in 1..n PROVE e[k] = ToInt(e[k - 1] + vs[k])
    BY <1>5, <2>1
  <2>3. e[0] = 0 /\ \A k \in 0..n : k = 0 \/ k \in 1..n
    BY <1>1, <1>2, <1>4
  <2>4. e = [k \in 0..n |-> e[k]]
    OBVIOUS
  <2> HIDE DEF e
  <2>5. P(e)
    BY <2>2, <2>3, <2>4
  <2> QED
    BY <2>5 DEF e
<1>7. P(h)
  <2> HIDE DEF P
  <2> QED
    BY <1>6
<1> HIDE DEF h
<1>8. h[0] = 0 /\ \A k \in 1..n : h[k] = ToInt(h[k - 1] + vs[k])
  <2>1. 0 \in 0..n /\ \A k \in 1..n : k \in 0..n /\ k # 0
    BY <1>1
  <2> QED
    BY <1>7, <2>1
<1>9. \A k \in 0..n : h[k] = ToInt(f[k])
  <2> DEFINE T == {k \in 0..n : h[k] = ToInt(f[k])}
  <2>1. 0 \in T
    BY <1>1, <1>2, <1>4, <1>8
  <2>2. ASSUME NEW k \in 1..n, k - 1 \in T PROVE k \in T
    <3>1. h[k] = ToInt(f[k])
      BY <1>5, <1>8, <2>2
    <3> QED
      BY <1>1, <3>1
  <2> HIDE DEF T
  <2>3. \A k \in 0..n : k \in T
    BY <1>1, <2>1, <2>2, Upward
  <2> QED
    BY <2>3 DEF T
<1>10. n \in 0..n /\ f[n] \in Int
  BY <1>1
<1> QED
  BY <1>2, <1>3, <1>9, <1>10
-----------------------------------------------------------------------------
(* What a loop keeps of a list *)

\* place has the numbers of ok in their order, m of them.
Lists(place, m, ok) == /\ place \in [1..m -> ok]
                       /\ \A p \in ok : \E j \in 1..m : place[j] = p
                       /\ \A j, k \in 1..m : j < k => place[j] < place[k]

LEMMA Listed ==
  ASSUME NEW n \in Nat, NEW ok \in SUBSET (1..n)
  PROVE  \E m \in Nat : \E place : Lists(place, m, ok)
<1> DEFINE upTo(k) == ok \cap (1..k)
           T == {k \in 0..n : \E m \in Nat : \E place : Lists(place, m, upTo(k))}
<1>1. 0 \in T
  <2>1. Lists([j \in 1..0 |-> j], 0, upTo(0))
    BY DEF Lists
  <2> HIDE DEF upTo
  <2> QED
    BY <2>1
<1>2. ASSUME NEW k \in 1..n, k - 1 \in T PROVE k \in T
  <2>0. PICK m \in Nat : \E place : Lists(place, m, upTo(k - 1))
    BY <1>2
  <2>1. PICK place : Lists(place, m, upTo(k - 1))
    BY <2>0
  <2>2. CASE k \notin ok
    <3>1. upTo(k) = upTo(k - 1)
      BY <2>2
    <3> HIDE DEF upTo
    <3> QED
      BY <2>1, <3>1
  <2>3. CASE k \in ok
    <3> DEFINE more == [j \in 1..(m + 1) |-> IF j <= m THEN place[j] ELSE k]
               U == upTo(k)
               V == upTo(k - 1)
    <3>1. /\ U = V \cup {k} /\ \A p \in V : p < k
          /\ \A p \in V : p \in Int
      BY <2>3
    <3> HIDE DEF U, V
    <3>2. /\ \A j \in 1..m : j \in 1..(m + 1) /\ more[j] = place[j] /\ place[j] \in V
          /\ m + 1 \in 1..(m + 1) /\ more[m + 1] = k
          /\ \A j \in 1..(m + 1) : j \in 1..m \/ j = m + 1
      BY <2>1 DEF Lists, V
    <3>3. more \in [1..(m + 1) -> U]
      BY <3>1, <3>2
    <3>4. \A p \in U : \E j \in 1..(m + 1) : more[j] = p
      <4>1. \A p \in V : \E j \in 1..m : place[j] = p
        BY <2>1 DEF Lists, V
      <4> HIDE DEF more
      <4> QED
        BY <3>1, <3>2, <4>1
    <3>5. \A i, j \in 1..(m + 1) : i < j => more[i] < more[j]
      <4>1. \A i, j \in 1..m : i < j => place[i] < place[j]
        BY <2>1 DEF Lists, V
      <4>2. \A i, j \in 1..(m + 1) : i < j => i \in 1..m
        OBVIOUS
      <4> HIDE DEF more
      <4> QED
        BY <3>1, <3>2, <4>1, <4>2
    <3>6. Lists(more, m + 1, U)
      BY <3>3, <3>4, <3>5 DEF Lists
    <3>7. m + 1 \in Nat /\ k \in 0..n
      OBVIOUS
    <3> HIDE DEF more
    <3>8. Lists(more, m + 1, upTo(k))
      BY <3>6 DEF U
    <3> HIDE DEF upTo
    <3> QED
      BY <3>7, <3>8
  <2> QED
    BY <2>2, <2>3
<1>3. n \in T
  <2> HIDE DEF T
  <2>1. \A k \in 0..n : k \in T
    BY <1>1, <1>2, Upward
  <2> QED
    BY <2>1
<1>4. upTo(n) = ok
  OBVIOUS
<1> HIDE DEF upTo
<1> QED
  BY <1>3, <1>4

\* What is kept of a list stands in it at the places ok, in the same order.
LEMMA KeptAt ==
  ASSUME NEW S, NEW s \in Seq(S), NEW ok \in SUBSET (1..Len(s)),
         NEW m \in Nat, NEW place, Lists(place, m, ok)
  PROVE  /\ Those(s, ok) \in Seq(S) /\ Len(Those(s, ok)) = m
         /\ \A j \in 1..m : place[j] \in ok /\ Those(s, ok)[j] = s[place[j]]
<1> DEFINE n == Len(s)
<1>1. n \in Nat /\ \A k \in 1..n : s[k] \in S
  BY LenProperties, ElementOfSeq
<1>2. PICK f \in [0..n -> Seq(S)] :
         /\ f[0] = <<>>
         /\ \A k \in 1..n : f[k] = IF k \in ok THEN Append(f[k - 1], s[k]) ELSE f[k - 1]
         /\ Those(s, ok) = f[n]
  <2>1. PICK f \in [0..Len(s) -> Seq(S)] : Keeps(f, s, ok)
    BY KeepingLoop
  <2> QED
    BY <2>1 DEF Keeps
<1> HIDE DEF n
\* After k turns the first c places were met.
<1> DEFINE Met(k, c) == /\ \A j \in 1..m : place[j] <= k <=> j <= c
                        /\ Len(f[k]) = c
                        /\ \A j \in 1..c : f[k][j] = s[place[j]]
           T == {k \in 0..n : \E c \in 0..m : Met(k, c)}
<1>3. /\ \A j \in 1..m : place[j] \in ok /\ place[j] \in 1..n
      /\ \A p \in ok : \E j \in 1..m : place[j] = p
      /\ \A i, j \in 1..m : i < j => place[i] < place[j]
  BY DEF Lists, n
<1>4. 0 \in T
  <2>1. Len(f[0]) = 0
    BY <1>2
  <2>2. Met(0, 0)
    BY <1>1, <1>3, <2>1
  <2> HIDE DEF Met
  <2> QED
    BY <1>1, <2>2
<1>5. ASSUME NEW k \in 1..n, k - 1 \in T PROVE k \in T
  <2>1. PICK c \in 0..m : Met(k - 1, c)
    BY <1>5
  <2>2. f[k - 1] \in Seq(S) /\ s[k] \in S /\ Len(f[k - 1]) = c
    BY <1>1, <2>1
  <2>3. CASE k \notin ok
    <3>1. f[k] = f[k - 1]
      BY <1>2, <2>3
    <3>2. \A j \in 1..m : place[j] <= k <=> place[j] <= k - 1
      BY <1>1, <1>3, <2>3
    <3>3. Met(k, c)
      BY <2>1, <3>1, <3>2
    <3> HIDE DEF Met
    <3> QED
      BY <1>1, <3>3
  <2>4. CASE k \in ok
    <3>1. PICK j \in 1..m : place[j] = k
      BY <1>3, <2>4
    <3>2. ~(place[j] <= k - 1)
      BY <1>1, <3>1
    <3>3. j > c
      BY <2>1, <3>2
    <3>4. ~(j > c + 1)
      <4>1. SUFFICES ASSUME j > c + 1 PROVE FALSE
        OBVIOUS
      <4>2. c + 1 \in 1..m /\ c + 1 < j
        BY <4>1
      <4>3. place[c + 1] < k /\ place[c + 1] \in 1..n
        BY <1>3, <3>1, <4>2
      <4>4. place[c + 1] <= k - 1
        BY <1>1, <4>3
      <4> QED
        BY <2>1, <4>2, <4>4
    <3>5. j = c + 1
      BY <3>3, <3>4
    <3>6. /\ \A i \in 1..m : i <= c => place[i] < k
          /\ \A i \in 1..m : i > c + 1 => place[i] > k
      BY <1>3, <3>1, <3>5
    <3>7. ASSUME NEW i \in 1..m PROVE place[i] <= k <=> i <= c + 1
      <4>1. place[i] \in 1..n
        BY <1>3
      <4>2. CASE i <= c
        BY <1>1, <3>6, <4>1, <4>2
      <4>3. CASE i = c + 1
        BY <1>1, <3>1, <3>5, <4>3
      <4>4. CASE i > c + 1
        BY <1>1, <3>6, <4>1, <4>4
      <4> QED
        BY <4>2, <4>3, <4>4
    <3> DEFINE r == f[k - 1]
    <3>8. f[k] = Append(r, s[k])
      BY <1>2, <2>4
    <3>9. r \in Seq(S) /\ Len(r) = c /\ \A i \in 1..c : r[i] = s[place[i]]
      BY <2>1, <2>2
    <3> HIDE DEF r
    <3>10. /\ Len(f[k]) = c + 1 /\ f[k][c + 1] = s[k]
           /\ \A i \in 1..c : f[k][i] = r[i]
      BY <2>2, <3>8, <3>9, AppendProperties
    <3>11. \A i \in 1..(c + 1) : f[k][i] = s[place[i]]
      <4>1. \A i \in 1..(c + 1) : i \in 1..c \/ i = c + 1
        OBVIOUS
      <4> QED
        BY <3>1, <3>5, <3>9, <3>10, <4>1
    <3>12. Met(k, c + 1) /\ c + 1 \in 0..m
      BY <3>5, <3>7, <3>10, <3>11
    <3> HIDE DEF Met
    <3> QED
      BY <1>1, <3>12
  <2> QED
    BY <2>3, <2>4
<1>6. n \in T
  <2> HIDE DEF T
  <2>1. \A k \in 0..n : k \in T
    BY <1>1, <1>4, <1>5, Upward
  <2> QED
    BY <1>1, <2>1
<1>7. PICK c \in 0..m : Met(n, c)
  BY <1>6
<1>8. c = m
  <2>1. CASE m = 0
    BY <2>1
  <2>2. CASE m # 0
    <3>1. m \in 1..m /\ place[m] <= n
      BY <1>1, <1>3, <2>2
    <3> QED
      BY <1>7, <3>1
  <2> QED
    BY <2>1, <2>2
<1>9. f[n] \in Seq(S)
  BY <1>1
<1> QED
  BY <1>2, <1>3, <1>7, <1>8, <1>9

\* The numbers of a whole list in their order.
LEMMA AllListed ==
  ASSUME NEW n \in Nat
  PROVE  Lists([j \in 1..n |-> j], n, 1..n)
BY DEF Lists

\* What a test keeps of a list are elements that pass it.
LEMMA KeptPass ==
  ASSUME NEW S, NEW s \in Seq(S), NEW ok \in SUBSET (1..Len(s))
  PROVE  /\ Those(s, ok) \in Seq(S)
         /\ \A k \in 1..Len(Those(s, ok)) : \E p \in ok : Those(s, ok)[k] = s[p]
<1>1. Len(s) \in Nat
  BY LenProperties
<1>2. PICK m \in Nat : \E place : Lists(place, m, ok)
  BY <1>1, Listed
<1>3. PICK place : Lists(place, m, ok)
  BY <1>2
<1>4. /\ Those(s, ok) \in Seq(S) /\ Len(Those(s, ok)) = m
      /\ \A j \in 1..m : place[j] \in ok /\ Those(s, ok)[j] = s[place[j]]
  BY <1>3, KeptAt
<1> QED
  BY <1>4

\* A test that all pass keeps the list.
LEMMA AllKept ==
  ASSUME NEW S, NEW s \in Seq(S)
  PROVE  Those(s, 1..Len(s)) = s
<1> DEFINE n == Len(s)
           place == [j \in 1..n |-> j]
           t == Those(s, 1..n)
<1>1. n \in Nat
  BY LenProperties
<1>2. Lists(place, n, 1..n)
  BY <1>1, AllListed
<1>3. /\ t \in Seq(S) /\ Len(t) = n
      /\ \A j \in 1..n : t[j] = s[place[j]]
  <2> HIDE DEF place
  <2> QED
    BY <1>1, <1>2, KeptAt
<1> HIDE DEF t, n
<1>4. \A j \in 1..n : t[j] = s[j]
  BY <1>3
<1>5. t = s
  BY <1>3, <1>4, SeqEqual DEF n
<1> QED
  BY <1>5 DEF t, n
-----------------------------------------------------------------------------
(* Lists one behind the other, and sums of them *)

Flattens(f, ss) == /\ f[0] = <<>>
                   /\ \A k \in 1..Len(ss) : f[k] = f[k - 1] \o ss[k]
                   /\ FlattenSeq(ss) = f[Len(ss)]

\* The loop that appends lists.
LEMMA FlattenLoop ==
  ASSUME NEW S, NEW ss \in Seq(Seq(S))
  PROVE  \E f \in [0..Len(ss) -> Seq(S)] : Flattens(f, ss)
<1> DEFINE n == Len(ss)
           P(x) == x = [i \in 1..n |-> IF i = 1 THEN ss[i] ELSE x[i - 1] \o ss[i]]
           h == CHOOSE x : P(x)
           g == [p \in (1..n) \X Seq(S) |-> p[2] \o ss[p[1]]]
<1>1. n \in Nat /\ \A k \in 1..n : ss[k] \in Seq(S)
  BY LenProperties, ElementOfSeq
<1>2. <<>> \in Seq(S)
  BY EmptySeq
<1>3. g \in [(1..n) \X Seq(S) -> Seq(S)]
  BY <1>1, ConcatProperties
<1>4. FlattenSeq(ss) = IF n = 0 THEN ss ELSE h[n]
  BY DEF FlattenSeq
<1>5. n = 0 => ss = <<>>
  BY EmptySeq, LenProperties
<1> HIDE DEF n
<1>6. PICK f \in [0..n -> Seq(S)] : f[0] = <<>> /\ \A k \in 1..n : f[k] = g[<<k, f[k - 1]>>]
  <2> DEFINE V == Seq(S)
             b == <<>>
  <2>1. b \in V /\ g \in [(1..n) \X V -> V]
    BY <1>2, <1>3
  <2> HIDE DEF V, g, b
  <2>2. \E f \in [0..n -> V] : Loop(f, n, b, g)
    BY <1>1, <2>1, Recursion
  <2> QED
    BY <2>2 DEF V, b, Loop
<1>7. ASSUME NEW k \in 1..n
      PROVE  f[k] = f[k - 1] \o ss[k] /\ f[k - 1] \in Seq(S)
  <2>1. k - 1 \in 0..n /\ f[k - 1] \in Seq(S)
    BY <1>1, <1>6
  <2>2. <<k, f[k - 1]>> \in (1..n) \X Seq(S)
    BY <2>1
  <2>3. g[<<k, f[k - 1]>>] = f[k - 1] \o ss[k]
    BY <2>2
  <2> QED
    BY <1>6, <2>1, <2>3
<1>8. P([i \in 1..n |-> f[i]])
  <2> DEFINE e == [i \in 1..n |-> f[i]]
  <2>1. ASSUME NEW i \in 1..n
        PROVE  e[i] = IF i = 1 THEN ss[i] ELSE e[i - 1] \o ss[i]
    <3>1. CASE i = 1
      <4>1. f[1] = <<>> \o ss[1]
        <5>0. i - 1 = 0
          BY <3>1
        <5>1. f[i] = f[i - 1] \o ss[i]
          BY <1>7, Zenon
        <5>2. f[i] = f[0] \o ss[i]
          BY <5>0, <5>1, Zenon
        <5> QED
          BY <1>6, <3>1, <5>2, Zenon
      <4>2. <<>> \o ss[1] = ss[1]
        BY <1>1, <3>1, ConcatEmptySeq
      <4> QED
        BY <3>1, <4>1, <4>2
    <3>2. CASE i # 1
      <4>1. i - 1 \in 1..n
        BY <1>1, <3>2
      <4> QED
        BY <1>7, <3>2, <4>1
    <3> QED
      BY <3>1, <3>2
  <2>2. e = [i \in 1..n |-> e[i]]
    OBVIOUS
  <2> HIDE DEF e
  <2>3. P(e)
    BY <2>1, <2>2
  <2> QED
    BY <2>3 DEF e
<1>9. P(h)
  <2> HIDE DEF P
  <2> QED
    BY <1>8
<1> HIDE DEF h
<1>10. \A k \in 1..n : h[k] = IF k = 1 THEN ss[k] ELSE h[k - 1] \o ss[k]
  BY <1>9
<1>11. \A k \in 0..n : k = 0 \/ h[k] = f[k]
  <2> DEFINE T == {k \in 0..n : k = 0 \/ h[k] = f[k]}
  <2>1. 0 \in T
    BY <1>1
  <2>2. ASSUME NEW k \in 1..n, k - 1 \in T PROVE k \in T
    <3>1. CASE k = 1
      <4>0. k - 1 = 0
        BY <3>1
      <4>1. h[k] = ss[k] /\ f[k] = <<>> \o ss[k]
        <5>1. f[k] = f[k - 1] \o ss[k]
          BY <1>7, Zenon
        <5>2. f[k] = f[0] \o ss[k]
          BY <4>0, <5>1, Zenon
        <5> QED
          BY <1>6, <1>10, <3>1, <5>2, Zenon
      <4>2. <<>> \o ss[k] = ss[k]
        BY <1>1, ConcatEmptySeq
      <4> QED
        BY <1>1, <4>1, <4>2
    <3>2. CASE k # 1
      <4>1. h[k - 1] = f[k - 1]
        BY <2>2, <3>2
      <4>2. h[k] = h[k - 1] \o ss[k] /\ f[k] = f[k - 1] \o ss[k]
        BY <1>7, <1>10, <3>2
      <4>3. h[k] = f[k] /\ k \in 0..n
        BY <1>1, <4>1, <4>2
      <4> QED
        BY <4>3
    <3> QED
      BY <3>1, <3>2
  <2> HIDE DEF T
  <2>3. \A k \in 0..n : k \in T
    BY <1>1, <2>1, <2>2, Upward
  <2> QED
    BY <2>3 DEF T
<1>12. FlattenSeq(ss) = f[n]
  <2>1. CASE n = 0
    BY <1>4, <1>5, <1>6, <2>1
  <2>2. CASE n # 0
    BY <1>1, <1>4, <1>11, <2>2
  <2> QED
    BY <2>1, <2>2
<1> QED
  BY <1>6, <1>7, <1>12 DEF n, Flattens

\* Every element stands in one of the lists, and every element of these is there.
LEMMA Flattened ==
  ASSUME NEW S, NEW ss \in Seq(Seq(S))
  PROVE  /\ FlattenSeq(ss) \in Seq(S)
         /\ \A r \in 1..Len(FlattenSeq(ss)) :
               \E k \in 1..Len(ss) : \E p \in 1..Len(ss[k]) : FlattenSeq(ss)[r] = ss[k][p]
         /\ \A k \in 1..Len(ss) : \A p \in 1..Len(ss[k]) :
               \E r \in 1..Len(FlattenSeq(ss)) : FlattenSeq(ss)[r] = ss[k][p]
<1> DEFINE n == Len(ss)
<1>1. n \in Nat /\ \A k \in 1..n : ss[k] \in Seq(S)
  BY LenProperties, ElementOfSeq
<1>2. PICK f \in [0..n -> Seq(S)] :
         /\ f[0] = <<>> /\ FlattenSeq(ss) = f[n]
         /\ \A k \in 1..n : f[k] = f[k - 1] \o ss[k]
  <2>1. PICK f \in [0..Len(ss) -> Seq(S)] : Flattens(f, ss)
    BY FlattenLoop
  <2> QED
    BY <2>1 DEF Flattens
<1> HIDE DEF n
<1> DEFINE From(m) == \A r \in 1..Len(f[m]) :
                         \E k \in 1..m : \E p \in 1..Len(ss[k]) : f[m][r] = ss[k][p]
           Has(m)  == \A k \in 1..m : \A p \in 1..Len(ss[k]) :
                         \E r \in 1..Len(f[m]) : f[m][r] = ss[k][p]
           T == {m \in 0..n : From(m) /\ Has(m)}
<1>3. 0 \in T
  <2>1. Len(f[0]) = 0
    BY <1>2
  <2>2. From(0) /\ Has(0)
    BY <2>1
  <2> HIDE DEF From, Has
  <2> QED
    BY <1>1, <2>2
<1>4. ASSUME NEW m \in 1..n, m - 1 \in T PROVE m \in T
  <2> DEFINE a == f[m - 1]
             b == ss[m]
             c == f[m]
  <2>0. m - 1 \in 0..n /\ m \in 0..n /\ From(m - 1) /\ Has(m - 1)
    BY <1>1, <1>4
  <2>1. a \in Seq(S) /\ b \in Seq(S) /\ c = a \o b
    BY <1>1, <1>2, <2>0
  <2> HIDE DEF a, b, c
  <2>2. /\ Len(a) \in Nat /\ Len(b) \in Nat /\ Len(c) = Len(a) + Len(b)
        /\ \A i \in 1..Len(a) : c[i] = a[i]
        /\ \A i \in 1..Len(b) : c[Len(a) + i] = b[i]
    <3>1. /\ Len(a) \in Nat /\ Len(b) \in Nat /\ Len(c) = Len(a) + Len(b)
          /\ \A i \in 1 .. Len(a) + Len(b) : c[i] = IF i <= Len(a) THEN a[i] ELSE b[i - Len(a)]
      BY <2>1, LenProperties, ConcatProperties
    <3>2. ASSUME NEW i \in 1..Len(b) PROVE c[Len(a) + i] = b[i]
      <4>1. Len(a) + i \in 1 .. Len(a) + Len(b) /\ ~(Len(a) + i <= Len(a))
            /\ (Len(a) + i) - Len(a) = i
        BY <3>1
      <4> QED
        BY <3>1, <4>1
    <3> QED
      BY <3>1, <3>2
  <2>3. ASSUME NEW r \in 1..Len(c)
        PROVE  \E k \in 1..m : \E p \in 1..Len(ss[k]) : c[r] = ss[k][p]
    <3>1. CASE r <= Len(a)
      <4>1. r \in 1..Len(a)
        BY <2>2, <3>1
      <4>2. PICK k \in 1..(m - 1) : \E p \in 1..Len(ss[k]) : a[r] = ss[k][p]
        BY <2>0, <4>1 DEF a
      <4>3. k \in 1..m
        OBVIOUS
      <4> QED
        BY <2>2, <4>1, <4>2, <4>3
    <3>2. CASE r > Len(a)
      <4>1. r - Len(a) \in 1..Len(b) /\ Len(a) + (r - Len(a)) = r
        BY <2>2, <3>2
      <4>2. c[r] = b[r - Len(a)] /\ m \in 1..m
        BY <2>2, <4>1
      <4> QED
        BY <4>1, <4>2 DEF b
    <3> QED
      BY <2>2, <3>1, <3>2
  <2>4. ASSUME NEW k \in 1..m, NEW p \in 1..Len(ss[k])
        PROVE  \E r \in 1..Len(c) : c[r] = ss[k][p]
    <3>1. CASE k = m
      <4>1. p \in 1..Len(b) /\ ss[k][p] = b[p]
        BY <3>1 DEF b
      <4>2. Len(a) + p \in 1..Len(c)
        BY <2>2, <4>1
      <4> QED
        BY <2>2, <4>1, <4>2
    <3>2. CASE k # m
      <4>1. k \in 1..(m - 1)
        BY <3>2
      <4>2. PICK r \in 1..Len(a) : a[r] = ss[k][p]
        BY <2>0, <4>1 DEF a
      <4>3. r \in 1..Len(c)
        BY <2>2
      <4> QED
        BY <2>2, <4>2, <4>3
    <3> QED
      BY <3>1, <3>2
  <2>5. From(m) /\ Has(m)
    BY <2>3, <2>4 DEF c
  <2> HIDE DEF From, Has
  <2> QED
    BY <2>0, <2>5
<1>5. n \in T
  <2> HIDE DEF T
  <2>1. \A k \in 0..n : k \in T
    BY <1>1, <1>3, <1>4, Upward
  <2> QED
    BY <1>1, <2>1
<1>6. f[n] \in Seq(S) /\ From(n) /\ Has(n)
  BY <1>1, <1>2, <1>5
<1>7. FlattenSeq(ss) = f[n]
  BY <1>2
<1> DEFINE t == f[n]
<1>8. /\ t \in Seq(S)
      /\ \A r \in 1..Len(t) : \E k \in 1..n : \E p \in 1..Len(ss[k]) : t[r] = ss[k][p]
      /\ \A k \in 1..n : \A p \in 1..Len(ss[k]) : \E r \in 1..Len(t) : t[r] = ss[k][p]
  BY ONLY <1>6
<1> HIDE DEF t, From, Has
<1>9. FlattenSeq(ss) = t
  BY <1>7 DEF t
<1> QED
  BY ONLY <1>8, <1>9, Zenon DEF n

LEMMA SumInt ==
  ASSUME NEW ns \in Seq(Int)
  PROVE  SumOf(ns) \in Int
<1>1. PICK f \in [0..Len(ns) -> Int] : SumOf(ns) = f[Len(ns)]
  BY AddingLoop
<1>2. Len(ns) \in 0..Len(ns)
  BY LenProperties
<1> QED
  BY <1>1, <1>2

\* There are as many elements as the lists have together.
LEMMA FlatLength ==
  ASSUME NEW S, NEW ss \in Seq(Seq(S))
  PROVE  Len(FlattenSeq(ss)) = SumOf([k \in 1..Len(ss) |-> Len(ss[k])])
<1> DEFINE n == Len(ss)
           ns == [k \in 1..n |-> Len(ss[k])]
<1>1. n \in Nat /\ \A k \in 1..n : ss[k] \in Seq(S) /\ Len(ss[k]) \in Nat
  BY LenProperties, ElementOfSeq
<1>2. PICK f \in [0..n -> Seq(S)] :
         /\ f[0] = <<>> /\ FlattenSeq(ss) = f[n]
         /\ \A k \in 1..n : f[k] = f[k - 1] \o ss[k]
  <2>1. PICK f \in [0..Len(ss) -> Seq(S)] : Flattens(f, ss)
    BY FlattenLoop
  <2> QED
    BY <2>1 DEF Flattens
<1> HIDE DEF n
<1>3. ns \in Seq(Int) /\ Len(ns) = n /\ \A k \in 1..n : ns[k] = Len(ss[k])
  BY <1>1
<1> HIDE DEF ns
<1>4. PICK g \in [0..n -> Int] :
         /\ g[0] = 0 /\ SumOf(ns) = g[n]
         /\ \A k \in 1..n : g[k] = g[k - 1] + ns[k]
  BY <1>3, AddingLoop
<1> DEFINE T == {k \in 0..n : Len(f[k]) = g[k]}
<1>5. 0 \in T
  BY <1>1, <1>2, <1>4
<1>6. ASSUME NEW k \in 1..n, k - 1 \in T PROVE k \in T
  <2>0. k - 1 \in 0..n /\ k \in 0..n
    BY <1>1
  <2>1. f[k - 1] \in Seq(S) /\ ss[k] \in Seq(S) /\ f[k] = f[k - 1] \o ss[k]
    BY <1>1, <1>2, <2>0
  <2>2. Len(f[k]) = Len(f[k - 1]) + Len(ss[k])
    BY <2>1, ConcatProperties
  <2>3. g[k] = g[k - 1] + Len(ss[k])
    BY <1>3, <1>4
  <2>4. Len(f[k - 1]) = g[k - 1]
    BY <1>6
  <2>5. Len(f[k]) = g[k]
    BY <2>2, <2>3, <2>4
  <2> QED
    BY <2>0, <2>5
<1>7. n \in T
  <2> HIDE DEF T
  <2>1. \A k \in 0..n : k \in T
    BY <1>1, <1>5, <1>6, Upward
  <2> QED
    BY <1>1, <2>1
<1> QED
  BY <1>2, <1>4, <1>7 DEF n, ns

LEMMA SumOfTwo ==
  ASSUME NEW a \in Seq(Int), NEW b \in Seq(Int)
  PROVE  SumOf(a \o b) = SumOf(a) + SumOf(b)
<1> DEFINE m == Len(a)
           n == Len(b)
           c == a \o b
<1>1. m \in Nat /\ n \in Nat /\ c \in Seq(Int) /\ Len(c) = m + n
  BY LenProperties, ConcatProperties
<1>2. /\ \A k \in 1..m : c[k] = a[k] /\ a[k] \in Int
      /\ \A k \in 1..n : c[m + k] = b[k] /\ b[k] \in Int
  <2>1. /\ \A i \in 1 .. m + n : c[i] = IF i <= m THEN a[i] ELSE b[i - m]
        /\ \A k \in 1..m : a[k] \in Int
        /\ \A k \in 1..n : b[k] \in Int
    BY ConcatProperties, ElementOfSeq
  <2> HIDE DEF m, n, c
  <2>2. ASSUME NEW k \in 1..n PROVE c[m + k] = b[k]
    <3>1. m + k \in 1..(m + n) /\ ~(m + k <= m) /\ (m + k) - m = k
      BY <1>1
    <3> QED
      BY <2>1, <3>1
  <2> QED
    BY <1>1, <2>1, <2>2
<1>3. PICK f \in [0..m -> Int] : /\ f[0] = 0 /\ SumOf(a) = f[m]
                                 /\ \A k \in 1..m : f[k] = f[k - 1] + a[k]
  BY AddingLoop
<1>4. PICK g \in [0..n -> Int] : /\ g[0] = 0 /\ SumOf(b) = g[n]
                                 /\ \A k \in 1..n : g[k] = g[k - 1] + b[k]
  BY AddingLoop
<1> HIDE DEF m, n, c
<1>5. PICK h \in [0..(m + n) -> Int] : /\ h[0] = 0 /\ SumOf(c) = h[m + n]
                                       /\ \A k \in 1..(m + n) : h[k] = h[k - 1] + c[k]
  <2>1. PICK h \in [0..Len(c) -> Int] : /\ h[0] = 0 /\ SumOf(c) = h[Len(c)]
                                        /\ \A k \in 1..Len(c) : h[k] = h[k - 1] + c[k]
    BY <1>1, AddingLoop
  <2> QED
    BY <1>1, <2>1
<1>6. h[m] = f[m]
  <2> DEFINE T == {k \in 0..m : h[k] = f[k]}
  <2>1. 0 \in T
    BY <1>1, <1>3, <1>5
  <2>2. ASSUME NEW k \in 1..m, k - 1 \in T PROVE k \in T
    <3>1. k \in 1..(m + n) /\ k \in 0..m
      BY <1>1
    <3>2. h[k] = h[k - 1] + a[k] /\ f[k] = f[k - 1] + a[k] /\ h[k - 1] = f[k - 1]
      BY <1>2, <1>3, <1>5, <2>2, <3>1
    <3> QED
      BY <3>1, <3>2
  <2> HIDE DEF T
  <2>3. \A k \in 0..m : k \in T
    BY <1>1, <2>1, <2>2, Upward
  <2> QED
    BY <1>1, <2>3 DEF T
<1>7. h[m + n] = f[m] + g[n]
  <2> DEFINE T == {k \in 0..n : h[m + k] = f[m] + g[k]}
  <2>0. f[m] \in Int /\ \A k \in 0..n : g[k] \in Int
    BY <1>1
  <2>1. 0 \in T
    BY <1>1, <1>4, <1>6, <2>0
  <2>2. ASSUME NEW k \in 1..n, k - 1 \in T PROVE k \in T
    <3>1. m + k \in 1..(m + n) /\ (m + k) - 1 = m + (k - 1) /\ k - 1 \in 0..n
      BY <1>1
    <3>2. /\ h[m + k] = h[m + (k - 1)] + b[k] /\ h[m + (k - 1)] = f[m] + g[k - 1]
          /\ g[k] = g[k - 1] + b[k] /\ b[k] \in Int /\ g[k - 1] \in Int
      BY <1>2, <1>4, <1>5, <2>0, <2>2, <3>1
    <3>0. k \in 0..n
      BY <1>1
    <3> DEFINE y == f[m]
               z == g[k - 1]
    <3>3. y \in Int /\ z \in Int /\ h[m + k] = (y + z) + b[k] /\ g[k] = z + b[k] /\ b[k] \in Int
      BY <2>0, <3>2
    <3> HIDE DEF y, z
    <3>4. h[m + k] = y + g[k]
      BY <3>3
    <3>5. h[m + k] = f[m] + g[k]
      BY <3>4 DEF y
    <3> QED
      BY <3>0, <3>5
  <2> HIDE DEF T
  <2>3. \A k \in 0..n : k \in T
    BY <1>1, <2>1, <2>2, Upward
  <2> QED
    BY <1>1, <2>3 DEF T
<1> QED
  BY <1>3, <1>4, <1>5, <1>7 DEF c

\* Converting the numbers changes no more than converting their sum.
LEMMA SumOfInts ==
  ASSUME NEW ns \in Seq(Int)
  PROVE  ToInt(SumOf([k \in 1..Len(ns) |-> ToInt(ns[k])])) = ToInt(SumOf(ns))
<1> DEFINE n == Len(ns)
           cs == [k \in 1..n |-> ToInt(ns[k])]
<1>0. \A a \in Int : ToInt(a) \in Int
  <2>1. ASSUME NEW a \in Int PROVE ToInt(a) \in Int
    <3>1. ToInt(a) \in -IntLimit..(IntLimit - 1) /\ IntLimit \in Nat
      BY Converted, IntAssumption DEF IntAssumption
    <3> QED
      BY <3>1
  <2> QED
    BY <2>1
<1>1. n \in Nat /\ \A k \in 1..n : ns[k] \in Int /\ ToInt(ns[k]) \in Int
  <2>1. n \in Nat /\ \A k \in 1..n : ns[k] \in Int
    BY LenProperties, ElementOfSeq
  <2> QED
    BY <1>0, <2>1
<1>2. PICK f \in [0..n -> Int] : /\ f[0] = 0 /\ SumOf(ns) = f[n]
                                 /\ \A k \in 1..n : f[k] = f[k - 1] + ns[k]
  BY AddingLoop
<1> HIDE DEF n
<1>3. cs \in Seq(Int) /\ Len(cs) = n /\ \A k \in 1..n : cs[k] = ToInt(ns[k])
  BY <1>1
<1> HIDE DEF cs
<1>4. PICK g \in [0..n -> Int] : /\ g[0] = 0 /\ SumOf(cs) = g[n]
                                 /\ \A k \in 1..n : g[k] = g[k - 1] + cs[k]
  BY <1>3, AddingLoop
<1> DEFINE T == {k \in 0..n : ToInt(g[k]) = ToInt(f[k])}
<1>5. 0 \in T
  BY <1>1, <1>2, <1>4
<1>6. ASSUME NEW k \in 1..n, k - 1 \in T PROVE k \in T
  <2> DEFINE x == ns[k]
             cx == ToInt(x)
             a == f[k - 1]
             b == g[k - 1]
             ca == ToInt(a)
             cb == ToInt(b)
  <2>1. /\ x \in Int /\ cx \in Int /\ a \in Int /\ b \in Int /\ ca \in Int /\ cb \in Int
        /\ ca = cb /\ g[k] = b + cx /\ f[k] = a + x /\ k \in 0..n
    <3>1. k - 1 \in 0..n /\ k \in 0..n
      BY <1>1
    <3>2. x \in Int /\ a \in Int /\ b \in Int
      BY <1>1, <3>1
    <3>3. g[k] = b + cx /\ f[k] = a + x
      BY <1>2, <1>3, <1>4
    <3>4. ca = cb
      BY <1>6
    <3> QED
      BY <1>0, <3>1, <3>2, <3>3, <3>4
  <2>2. ToInt(ca + x) = ToInt(a + x) /\ ToInt(cb + x) = ToInt(b + x)
    <3> HIDE DEF x
    <3> QED
      BY <2>1, TurnOfSum
  <2>3. ToInt(cx + b) = ToInt(x + b)
    <3> HIDE DEF b
    <3> QED
      BY <2>1, TurnOfSum
  <2>4. x + b = b + x /\ cx + b = b + cx
    <3> HIDE DEF x, b, cx
    <3> QED
      BY <2>1
  <2> HIDE DEF x, a, b, ca, cb, cx
  <2>5. ToInt(b + cx) = ToInt(a + x)
    BY <2>1, <2>2, <2>3, <2>4
  <2> QED
    BY <2>1, <2>5
<1>7. n \in T
  <2> HIDE DEF T
  <2>1. \A k \in 0..n : k \in T
    BY <1>1, <1>5, <1>6, Upward
  <2> QED
    BY <1>1, <2>1
<1> QED
  BY <1>2, <1>4, <1>7 DEF n, cs
-----------------------------------------------------------------------------
(* The order of a column *)

\* No row is left out of an order in which none is twice.
LEMMA Everywhere ==
  ASSUME NEW n \in Nat, NEW ord \in Injection(1..n, 1..n)
  PROVE  \A p \in 1..n : \E x \in 1..n : ord[x] = p
<1>1. IsFiniteSet(1..n)
  BY FS_Interval
<1> DEFINE D == 1..n
<1> HIDE DEF D
<1>2. IsFiniteSet(D) /\ ord \in Injection(D, D)
  BY <1>1 DEF D
<1>3. ord \in Surjection(D, D)
  BY <1>2, FS_Injection
<1> QED
  BY <1>3 DEF Surjection, D

\* Neighbours in order are enough.
LEMMA Ascending ==
  ASSUME NEW n \in Nat, NEW vs \in [1..n -> Int], NEW ord \in [1..n -> 1..n],
         \A k \in 2..n : ~(vs[ord[k]] < vs[ord[k - 1]])
  PROVE  \A j, k \in 1..n : j <= k => vs[ord[j]] <= vs[ord[k]]
<1> DEFINE T == {k \in 0..n : \A j \in 1..n : j <= k => vs[ord[j]] <= vs[ord[k]]}
<1>1. 0 \in T
  OBVIOUS
<1>2. ASSUME NEW k \in 1..n, k - 1 \in T PROVE k \in T
  <2>1. ASSUME NEW j \in 1..n, j <= k PROVE vs[ord[j]] <= vs[ord[k]]
    <3>1. vs[ord[j]] \in Int /\ vs[ord[k]] \in Int
      OBVIOUS
    <3>2. CASE j = k
      BY <3>1, <3>2
    <3>3. CASE j < k
      <4>1. k \in 2..n /\ k - 1 \in 1..n /\ j <= k - 1
        BY <3>3
      <4>2. vs[ord[j]] <= vs[ord[k - 1]]
        <5>1. \A i \in 1..n : i <= k - 1 => vs[ord[i]] <= vs[ord[k - 1]]
          BY <1>2
        <5> QED
          BY <4>1, <5>1
      <4>3. ~(vs[ord[k]] < vs[ord[k - 1]]) /\ vs[ord[k - 1]] \in Int
        BY <4>1
      <4> DEFINE x == vs[ord[j]]
                 y == vs[ord[k - 1]]
                 z == vs[ord[k]]
      <4> HIDE DEF x, y, z
      <4>4. x \in Int /\ y \in Int /\ z \in Int /\ x <= y /\ ~(z < y)
        BY <3>1, <4>2, <4>3 DEF x, y, z
      <4>5. x <= z
        BY <4>4
      <4> QED
        BY <4>5 DEF x, z
    <3> QED
      BY <2>1, <3>2, <3>3
  <2> QED
    BY <2>1
<1>3. \A k \in 0..n : k \in T
  <2> HIDE DEF T
  <2> QED
    BY <1>1, <1>2, Upward
<1> QED
  BY <1>3

\* A part of an order reaches as many rows as it is long.
LEMMA Reached ==
  ASSUME NEW n \in Nat, NEW ord \in Injection(1..n, 1..n),
         NEW a \in Int, NEW b \in Int, a..b \subseteq 1..n,
         NEW S \in SUBSET (1..n), \A x \in a..b : ord[x] \in S
  PROVE  Cardinality(S) \in Nat /\ b - a + 1 <= Cardinality(S)
<1> DEFINE part == [x \in a..b |-> ord[x]]
<1>1. IsFiniteSet(1..n) /\ IsFiniteSet(a..b)
      /\ Cardinality(a..b) = IF a > b THEN 0 ELSE b - a + 1
  BY FS_Interval
<1>2. IsFiniteSet(S) /\ Cardinality(S) \in Nat
  <2> DEFINE D == 1..n
  <2>1. IsFiniteSet(D) /\ S \in SUBSET D
    BY <1>1
  <2> HIDE DEF D
  <2>2. IsFiniteSet(S)
    BY <2>1, FS_Subset
  <2> QED
    BY <2>2, FS_CardinalityType
<1>3. part \in Injection(a..b, S)
  BY DEF Injection, IsInjective
<1> HIDE DEF part
<1>4. Cardinality(a..b) <= Cardinality(S)
  <2> DEFINE A == a..b
  <2>1. part \in Injection(A, S)
    BY <1>3
  <2> HIDE DEF A
  <2>2. Cardinality(A) <= Cardinality(S)
    BY <1>2, <2>1, FS_Injection
  <2> QED
    BY <2>2 DEF A
<1> QED
  BY <1>1, <1>2, <1>4

\* Half of the numbers are on either side of m.
Halved(vs, n, m) == /\ Cardinality({k \in 1..n : vs[k] <= m}) * 2 >= n
                    /\ Cardinality({k \in 1..n : vs[k] >= m}) * 2 >= n

LEMMA Halves ==
  ASSUME NEW n \in Nat \ {0}, NEW vs \in [1..n -> Int], NEW ord \in Injection(1..n, 1..n),
         \A j, k \in 1..n : j <= k => vs[ord[j]] <= vs[ord[k]],
         NEW m, m = vs[ord[(n \div 2) + 1]]
  PROVE  Halved(vs, n, m)
<1> DEFINE h == (n \div 2) + 1
           A == {k \in 1..n : vs[k] <= m}
           B == {k \in 1..n : vs[k] >= m}
<1>1. h \in 1..n /\ h * 2 >= n /\ (n - h + 1) * 2 >= n
  OBVIOUS
<1> HIDE DEF h
<1>2. m = vs[ord[h]] /\ ord \in [1..n -> 1..n]
  BY DEF h, Injection
<1>3. ASSUME NEW x \in 1..h PROVE ord[x] \in A
  <2>1. x \in 1..n /\ x <= h
    BY <1>1
  <2>2. ord[x] \in 1..n /\ vs[ord[x]] <= m
    BY <1>1, <1>2, <2>1
  <2> QED
    BY <2>2
<1>4. ASSUME NEW x \in h..n PROVE ord[x] \in B
  <2>1. x \in 1..n /\ h <= x
    BY <1>1
  <2>2. ord[x] \in 1..n /\ vs[ord[x]] >= m
    <3>1. vs[ord[h]] <= vs[ord[x]] /\ ord[x] \in 1..n /\ ord[h] \in 1..n
      BY <1>1, <1>2, <2>1
    <3> QED
      BY <1>2, <3>1
  <2> QED
    BY <2>2
<1>5. A \in SUBSET (1..n) /\ B \in SUBSET (1..n) /\ 1..h \subseteq 1..n /\ h..n \subseteq 1..n
      /\ h \in Int /\ n \in Int /\ n \in Nat
  BY <1>1
<1> HIDE DEF A, B
<1>6. Cardinality(A) \in Nat /\ h - 1 + 1 <= Cardinality(A)
  <2>1. ord \in Injection(1..n, 1..n) /\ \A x \in 1..h : ord[x] \in A
    BY <1>3
  <2>2. 1 \in Int
    OBVIOUS
  <2> QED
    BY ONLY <1>5, <2>1, <2>2, Reached
<1>7. Cardinality(B) \in Nat /\ n - h + 1 <= Cardinality(B)
  <2>1. ord \in Injection(1..n, 1..n) /\ \A x \in h..n : ord[x] \in B
    BY <1>4
  <2> QED
    BY ONLY <1>5, <2>1, Reached
<1>8. Cardinality(A) * 2 >= n /\ Cardinality(B) * 2 >= n
  BY <1>1, <1>6, <1>7
<1> QED
  BY <1>8 DEF A, B, Halved

\* col_name2col_idx_ has a column for each name, the last of that name.
LEMMA ColumnFound ==
  ASSUME NEW s, s.content.names \in Seq(STRING), NEW col \in Columns(s)
  PROVE  /\ ColIdx(s, col) \in 1..Len(s.content.names)
         /\ s.content.names[ColIdx(s, col)] = col
<1> DEFINE names == s.content.names
           n == Len(names)
           Latest(i, m) == /\ names[i] = col
                           /\ \A k \in 1..m : names[k] = col => k <= i
           T == {m \in 0..n : (\E k \in 1..m : names[k] = col) => \E i \in 1..m : Latest(i, m)}
<1>1. n \in Nat /\ DOMAIN names = 1..n
  BY LenProperties
<1>2. ColIdx(s, col) = CHOOSE i \in 1..n : Latest(i, n)
  BY DEF ColIdx
<1>3. \E k \in 1..n : names[k] = col
  BY <1>1 DEF Columns, Range
<1> HIDE DEF n, names
<1>4. 0 \in T
  BY <1>1
<1>5. ASSUME NEW m \in 1..n, m - 1 \in T PROVE m \in T
  <2>1. m \in 0..n
    BY <1>1
  <2>2. CASE names[m] = col
    <3>1. Latest(m, m) /\ m \in 1..m
      BY <2>2
    <3> HIDE DEF Latest
    <3> QED
      BY <2>1, <3>1
  <2>3. CASE names[m] # col
    <3>1. ASSUME NEW k \in 1..m, names[k] = col
          PROVE  \E i \in 1..m : Latest(i, m)
      <4>1. k \in 1..(m - 1)
        BY <2>3, <3>1
      <4>2. PICK i \in 1..(m - 1) : Latest(i, m - 1)
        BY <1>5, <3>1, <4>1
      <4>3. Latest(i, m) /\ i \in 1..m
        BY <2>3, <4>2
      <4> HIDE DEF Latest
      <4> QED
        BY <4>3
    <3> HIDE DEF Latest
    <3> QED
      BY <2>1, <3>1
  <2> QED
    BY <2>2, <2>3
<1>6. \E i \in 1..n : Latest(i, n)
  <2>1. n \in T
    <3> HIDE DEF T
    <3>1. \A k \in 0..n : k \in T
      BY <1>1, <1>4, <1>5, Upward
    <3> QED
      BY <1>1, <3>1
  <2> HIDE DEF Latest
  <2> QED
    BY <1>3, <2>1
<1> HIDE DEF Latest
<1>7. ColIdx(s, col) \in 1..n /\ Latest(ColIdx(s, col), n)
  BY <1>2, <1>6
<1> QED
  BY <1>7 DEF n, names, Latest
-----------------------------------------------------------------------------
(* What Calculate and Sort answer *)

\* The column a name stands for, its values and their order.
LEMMA ColumnFacts ==
  ASSUME NEW s, WellFormed(s), NEW col \in Columns(s),
         NEW i, i = ColIdx(s, col), NEW n, n = row_cnt(s.content)
  PROVE  /\ n \in Nat /\ i \in 1..Len(s.content.types) /\ s.content.names[i] = col
         /\ \A k \in 1..n : s.content.rows[k] \in Rows /\ s.content.rows[k][i] \in Values
         /\ s.order[i] \in Injection(1..n, 1..n) /\ s.order[i] \in [1..n -> 1..n]
         /\ ValuesOf(s, col) = [k \in 1..n |-> s.content.rows[k][i].v]
         /\ ValuesOf(s, col) \in [1..n -> Int] /\ ValuesOf(s, col) \in Seq(Int)
         /\ Len(ValuesOf(s, col)) = n
<1> DEFINE R == s.content.rows
           types == s.content.types
           ord == s.order
<1>1. /\ s.content.names \in Seq(STRING) /\ types \in Seq(DataType)
      /\ Len(types) = Len(s.content.names)
      /\ R \in Seq(Rows) /\ n = Len(R) /\ \A k \in 1..n : Len(types) <= Len(R[k])
      /\ ord \in [1..Len(types) -> Injection(1..n, 1..n)]
  BY DEF WellFormed, Rectangular, row_cnt
<1>2. i \in 1..Len(types) /\ s.content.names[i] = col
  BY <1>1, ColumnFound
<1>3. n \in Nat /\ Len(types) \in Nat /\ \A k \in 1..n : R[k] \in Rows
  BY <1>1, LenProperties, ElementOfSeq
<1> DEFINE m == Len(types)
<1>4. ASSUME NEW k \in 1..n PROVE R[k][i] \in Values
  <2> DEFINE r == R[k]
             w == Len(r)
  <2>1. r \in Seq(Values) /\ m <= w
    BY <1>1, <1>3 DEF Rows
  <2> HIDE DEF r
  <2>2. w \in Nat /\ \A x \in 1..w : r[x] \in Values
    BY <2>1, LenProperties, ElementOfSeq
  <2>3. m \in Nat /\ i \in 1..m
    BY <1>2, <1>3
  <2> HIDE DEF m, w
  <2>4. i \in 1..w
    BY <2>1, <2>2, <2>3
  <2>5. r[i] \in Values
    BY <2>2, <2>4
  <2> QED
    BY <2>5 DEF r
<1>5. ord[i] \in Injection(1..n, 1..n)
  BY <1>1, <1>2
<1>6. ord[i] \in [1..n -> 1..n]
  <2> DEFINE D == 1..n
             o == ord[i]
  <2> HIDE DEF D, o
  <2>1. o \in Injection(D, D)
    BY <1>5 DEF D, o
  <2>2. o \in [D -> D]
    BY <2>1 DEF Injection
  <2> QED
    BY <2>2 DEF D, o
<1>7. ValuesOf(s, col) = [k \in 1..n |-> R[k][i].v]
  BY <1>1 DEF ValuesOf, Column
<1>8. \A k \in 1..n : R[k][i].v \in Int
  BY <1>4 DEF Values
<1>9. [k \in 1..n |-> R[k][i].v] \in [1..n -> Int]
  BY <1>8
<1> DEFINE vs == [k \in 1..n |-> R[k][i].v]
<1>10. vs \in Seq(Int) /\ Len(vs) = n
  <2>1. vs \in [1..n -> Int]
    BY <1>9
  <2> HIDE DEF vs
  <2> QED
    BY <1>3, <2>1, IsASeq, LenProperties
<1> QED
  BY <1>2, <1>3, <1>4, <1>5, <1>6, <1>7, <1>9, <1>10

\* The values in the order of a column that FloatStr can compare.
LEMMA InOrder ==
  ASSUME NEW s, WellFormed(s), NEW col \in Columns(s), Regular(s, col),
         NEW i, i = ColIdx(s, col), NEW n, n = row_cnt(s.content),
         NEW vs, vs = ValuesOf(s, col)
  PROVE  \A j, k \in 1..n : j <= k => vs[s.order[i][j]] <= vs[s.order[i][k]]
<1> DEFINE R == s.content.rows
           ord == s.order[i]
<1>1. /\ n \in Nat /\ i \in 1..Len(s.content.types)
      /\ \A k \in 1..n : R[k][i] \in Values
      /\ ord \in [1..n -> 1..n]
      /\ vs = [k \in 1..n |-> R[k][i].v] /\ vs \in [1..n -> Int]
  BY ColumnFacts
<1>2. \A k \in 1..n : R[k][i].type # "BadFloat"
  BY DEF Regular
<1>3. MayLeave(s.content, i, ord)
  BY <1>1 DEF WellFormed
<1>4. \A k \in 2..n : ~Less(R[ord[k]][i], R[ord[k - 1]][i])
  BY <1>2, <1>3 DEF MayLeave
<1> HIDE DEF ord, R
<1>5. ASSUME NEW k \in 2..n PROVE ~(vs[ord[k]] < vs[ord[k - 1]])
  <2>1. k \in 1..n /\ k - 1 \in 1..n
    BY <1>1
  <2> DEFINE a == ord[k]
             b == ord[k - 1]
  <2>2. a \in 1..n /\ b \in 1..n
    BY <1>1, <2>1
  <2>3. ~Less(R[a][i], R[b][i])
    BY <1>4
  <2> HIDE DEF a, b
  <2>4. R[a][i].type # "BadFloat" /\ R[b][i].type # "BadFloat"
        /\ vs[a] = R[a][i].v /\ vs[b] = R[b][i].v
    BY <1>1, <1>2, <2>2
  <2>5. ~(vs[a] < vs[b])
    BY <2>3, <2>4 DEF Less
  <2> QED
    BY <2>5 DEF a, b
<1>6. \A j, k \in 1..n : j <= k => vs[ord[j]] <= vs[ord[k]]
  BY <1>1, <1>5, Ascending
<1> QED
  BY <1>6 DEF ord

\* What Calculate finds in the order and the values of a column.
LEMMA Calculated ==
  ASSUME NEW s, WellFormed(s), NEW col \in Columns(s),
         NEW i, i = ColIdx(s, col), NEW n, n = row_cnt(s.content)
  PROVE  /\ Calculate(s, col, "min") = s.content.rows[s.order[i][1]][i]
         /\ Calculate(s, col, "max") = s.content.rows[s.order[i][n]][i]
         /\ Calculate(s, col, "median") = s.content.rows[s.order[i][(n \div 2) + 1]][i]
         /\ Calculates(s, col, "sum") <=> s.content.types[i] = "Int"
         /\ s.content.types[i] = "Int" =>
               Calculate(s, col, "sum") = Accumulate(ValuesOf(s, col))
<1> DEFINE p == s.content
           sum == Accumulate(Column(p.rows, i))
           M == IF p.types[i] = "Int" THEN Metrics ELSE Metrics \ {"sum", "mean"}
           g == [m \in M |-> CASE m = "min"    -> At(s, i, 1)
                               [] m = "max"    -> At(s, i, n)
                               [] m = "median" -> At(s, i, (n \div 2) + 1)
                               [] m = "sum"    -> sum
                               [] m = "mean"   -> <<sum, n>>]
<1>1. StoreMetrics(s, i) = g
  BY DEF StoreMetrics
<1>2. /\ "min" \in M /\ "max" \in M /\ "median" \in M
      /\ "sum" \in M <=> p.types[i] = "Int"
  BY DEF Metrics
<1> HIDE DEF M, sum
<1>3. DOMAIN g = M
  OBVIOUS
<1>4. g["min"] = At(s, i, 1)
  BY <1>2
<1>5. g["max"] = At(s, i, n)
  BY <1>2
<1>6. g["median"] = At(s, i, (n \div 2) + 1)
  BY <1>2
<1>7. p.types[i] = "Int" => g["sum"] = sum
  BY <1>2
<1> HIDE DEF g
<1>8. Calculates(s, col, "sum") <=> p.types[i] = "Int"
  BY <1>1, <1>2, <1>3 DEF Calculates
<1> QED
  BY <1>1, <1>4, <1>5, <1>6, <1>7, <1>8 DEF Calculate, At, ValuesOf, sum

\* Calculate describes every column that FloatStr can compare.
LEMMA DescribesColumn ==
  ASSUME NEW s, WellFormed(s), NEW col \in Columns(s), Regular(s, col)
  PROVE  Describes(s, col)
<1> DEFINE i == ColIdx(s, col)
           n == row_cnt(s.content)
           R == s.content.rows
           ord == s.order[i]
           vs == ValuesOf(s, col)
           low == Calculate(s, col, "min").v
           high == Calculate(s, col, "max").v
           median == Calculate(s, col, "median").v
           h == (n \div 2) + 1
<1>1. /\ n \in Nat /\ ord \in Injection(1..n, 1..n) /\ ord \in [1..n -> 1..n]
      /\ vs = [k \in 1..n |-> R[k][i].v]
      /\ vs \in [1..n -> Int] /\ vs \in Seq(Int) /\ Len(vs) = n
  BY ColumnFacts
<1>2. \A j, k \in 1..n : j <= k => vs[ord[j]] <= vs[ord[k]]
  BY InOrder
<1>3. /\ low = R[ord[1]][i].v /\ high = R[ord[n]][i].v /\ median = R[ord[h]][i].v
      /\ Calculates(s, col, "sum") => Calculate(s, col, "sum") = Accumulate(vs)
  BY Calculated
<1>4. n # 0 => 1 \in 1..n /\ n \in 1..n /\ h \in 1..n
  BY <1>1
<1> HIDE DEF i, n, R, ord, vs, low, high, median, h
<1>5. n # 0 => low = vs[ord[1]] /\ high = vs[ord[n]] /\ median = vs[ord[h]]
  BY <1>1, <1>3, <1>4
<1>6. ASSUME NEW k \in 1..n PROVE vs[k] \in low..high
  <2>1. PICK x \in 1..n : ord[x] = k
    BY <1>1, Everywhere
  <2>2. n # 0 /\ 1 \in 1..n /\ n \in 1..n /\ 1 <= x /\ x <= n
    BY <1>1
  <2>3. vs[ord[1]] <= vs[k] /\ vs[k] <= vs[ord[n]]
    BY <1>2, <2>1, <2>2
  <2>4. vs[k] \in Int /\ low \in Int /\ high \in Int
    BY <1>1, <1>5, <2>2
  <2> QED
    BY <1>5, <2>2, <2>3, <2>4
<1>7. /\ Cardinality({k \in 1..n : vs[k] <= median}) * 2 >= n
      /\ Cardinality({k \in 1..n : vs[k] >= median}) * 2 >= n
  <2>1. CASE n = 0
    <3>1. {k \in 1..n : vs[k] <= median} = {} /\ {k \in 1..n : vs[k] >= median} = {}
      BY <2>1
    <3>2. Cardinality({}) = 0
      BY FS_EmptySet
    <3> QED
      BY <2>1, <3>1, <3>2
  <2>2. CASE n # 0
    <3>1. n \in Nat \ {0} /\ median = vs[ord[(n \div 2) + 1]]
      BY <1>1, <1>5, <2>2 DEF h
    <3>2. vs \in [1..n -> Int] /\ ord \in Injection(1..n, 1..n)
      BY <1>1
    <3>3. Halved(vs, n, median)
      BY ONLY <1>2, <3>1, <3>2, Halves
    <3> QED
      BY <3>3 DEF Halved
  <2> QED
    BY <2>1, <2>2
<1>8. ASSUME Calculates(s, col, "sum"), SumOf(vs) \in -IntLimit..(IntLimit - 1)
      PROVE  Calculate(s, col, "sum") = SumOf(vs)
  BY <1>1, <1>3, <1>8, Accumulated, IntIsItself
<1>9. /\ \A k \in 1..Len(vs) : vs[k] \in low..high
      /\ Cardinality({k \in 1..Len(vs) : vs[k] <= median}) * 2 >= Len(vs)
      /\ Cardinality({k \in 1..Len(vs) : vs[k] >= median}) * 2 >= Len(vs)
      /\ (Calculates(s, col, "sum") /\ SumOf(vs) \in -IntLimit..(IntLimit - 1)) =>
            Calculate(s, col, "sum") = SumOf(vs)
  <2>1. Len(vs) = n
    BY <1>1
  <2> QED
    BY <1>6, <1>7, <1>8, <2>1
<1> QED
  BY ONLY <1>9 DEF Describes, vs, low, high, median

\* Where Sort takes its k-th row from: from the front, or from the end.
Place(is_asc, n, k) == IF is_asc THEN 1 + 1 * (k - 1) ELSE n + (-1) * (k - 1)

\* m different places in 1..n, and any other lies behind them.
Placed(place, n, m, is_asc) ==
    /\ \A k \in 1..m : place[k] \in 1..n
    /\ \A j, k \in 1..m : place[j] = place[k] => j = k
    /\ \A j, k \in 1..m : j < k => IF is_asc THEN place[j] < place[k] ELSE place[k] < place[j]
    /\ \A x \in 1..n : (\A k \in 1..m : place[k] # x) =>
          \A k \in 1..m : IF is_asc THEN place[k] < x ELSE x < place[k]

LEMMA Places ==
  ASSUME NEW n \in Nat, NEW m \in 0..n, NEW is_asc \in BOOLEAN,
         NEW place, \A k \in 1..m : place[k] = Place(is_asc, n, k)
  PROVE  Placed(place, n, m, is_asc)
<1>1. CASE is_asc
  <2>1. \A k \in 1..m : place[k] = k
    BY <1>1 DEF Place
  <2>2. ASSUME NEW x \in 1..n, \A k \in 1..m : place[k] # x, NEW k \in 1..m
        PROVE  k < x
    <3>1. x \notin 1..m
      BY <2>1, <2>2
    <3> QED
      BY <3>1
  <2>3. \A k \in 1..m : k \in 1..n
    OBVIOUS
  <2> QED
    BY <1>1, <2>1, <2>2, <2>3 DEF Placed
<1>2. CASE ~is_asc
  <2>1. \A k \in 1..m : place[k] = n + 1 - k
    BY <1>2 DEF Place
  <2>2. ASSUME NEW x \in 1..n, \A k \in 1..m : place[k] # x, NEW k \in 1..m
        PROVE  x < n + 1 - k
    <3>1. n + 1 - x \notin 1..m
      <4>1. SUFFICES ASSUME n + 1 - x \in 1..m PROVE FALSE
        OBVIOUS
      <4>2. place[n + 1 - x] = n + 1 - (n + 1 - x)
        BY <2>1, <4>1
      <4>3. n + 1 - (n + 1 - x) = x
        OBVIOUS
      <4> QED
        BY <2>2, <4>1, <4>2, <4>3
    <3>2. n + 1 - x >= 1 /\ n + 1 - x \in Int
      OBVIOUS
    <3>3. n + 1 - x > m
      BY <3>1, <3>2
    <3> QED
      BY <3>3
  <2>3. /\ \A k \in 1..m : n + 1 - k \in 1..n
        /\ \A j, k \in 1..m : n + 1 - j = n + 1 - k => j = k
        /\ \A j, k \in 1..m : j < k => n + 1 - k < n + 1 - j
    OBVIOUS
  <2> QED
    BY <1>2, <2>1, <2>2, <2>3 DEF Placed
<1> QED
  BY <1>1, <1>2

\* A row is taken no more often than it is there, and where it is taken less
\* often there is a place of it that is not taken.
FitsIn(A, B, q, m) ==
    /\ Cardinality(A) <= Cardinality(B)
    /\ Cardinality(A) < Cardinality(B) => \E p \in B : \A k \in 1..m : q[k] # p

LEMMA Taking ==
  ASSUME NEW m \in Nat, NEW n \in Nat, NEW q \in [1..m -> 1..n],
         \A j, k \in 1..m : q[j] = q[k] => j = k,
         NEW A \in SUBSET (1..m), NEW B \in SUBSET (1..n),
         \A k \in 1..m : k \in A <=> q[k] \in B
  PROVE  FitsIn(A, B, q, m)
<1> DEFINE g == [k \in A |-> q[k]]
<1>1. IsFiniteSet(B) /\ Cardinality(B) \in Nat
  <2> DEFINE D == 1..n
  <2>1. IsFiniteSet(D) /\ B \in SUBSET D
    BY FS_Interval
  <2> HIDE DEF D
  <2>2. IsFiniteSet(B)
    BY <2>1, FS_Subset
  <2> QED
    BY <2>2, FS_CardinalityType
<1>2. g \in Injection(A, B)
  BY DEF Injection, IsInjective
<1>3. ASSUME ~(\E p \in B : \A k \in 1..m : q[k] # p)
      PROVE  g \in Surjection(A, B)
  <2>1. ASSUME NEW p \in B PROVE \E k \in A : g[k] = p
    <3>1. PICK k \in 1..m : q[k] = p
      BY <1>3
    <3>2. k \in A /\ g[k] = p
      BY <3>1
    <3> QED
      BY <3>2
  <2>2. g \in [A -> B]
    OBVIOUS
  <2> HIDE DEF g
  <2> QED
    BY <2>1, <2>2 DEF Surjection
<1> HIDE DEF g
<1>4. Cardinality(A) <= Cardinality(B)
      /\ (g \in Surjection(A, B) => Cardinality(A) = Cardinality(B))
  BY <1>1, <1>2, FS_Injection
<1>5. ASSUME Cardinality(A) < Cardinality(B)
      PROVE  \E p \in B : \A k \in 1..m : q[k] # p
  <2>1. Cardinality(A) # Cardinality(B)
    BY <1>1, <1>5
  <2> QED
    BY <1>3, <1>4, <2>1
<1> QED
  BY <1>4, <1>5 DEF FitsIn

\* Sort returns the extreme rows of every column, for any limit.
LEMMA ReturnsRows ==
  ASSUME NEW s, WellFormed(s), NEW col \in Columns(s),
         NEW limit \in Int, NEW is_asc \in BOOLEAN
  PROVE  ReturnsExtremes(s, col, limit, is_asc)
<1> DEFINE i == ColIdx(s, col)
           n == row_cnt(s.content)
           R == s.content.rows
           ord == s.order[i]
           vs == ValuesOf(s, col)
           res == Sort(s, col, limit, is_asc)
           m == IF limit \in 0..n THEN limit ELSE n
           q == [k \in 1..m |-> ord[Place(is_asc, n, k)]]
           inOrder(a, b) == IF is_asc THEN a[i].v <= b[i].v ELSE a[i].v >= b[i].v
           times(r, rows) == Cardinality({k \in 1..Len(rows) : rows[k] = r})
<1>1. /\ n \in Nat /\ n = Len(R)
      /\ ord \in Injection(1..n, 1..n) /\ ord \in [1..n -> 1..n]
      /\ vs = [k \in 1..n |-> R[k][i].v] /\ vs \in [1..n -> Int]
  <2>1. n = Len(R)
    BY DEF row_cnt
  <2> QED
    BY <2>1, ColumnFacts
<1>2. m \in 0..n /\ m \in Nat
  BY <1>1
<1>3. res = [k \in 1..m |-> R[ord[Place(is_asc, n, k)]]]
  <2>1. CASE is_asc
    BY <2>1 DEF Sort, SortFrom, Place
  <2>2. CASE ~is_asc
    BY <2>2 DEF Sort, SortFrom, Place
  <2> QED
    BY <2>1, <2>2
<1>4. Regular(s, col) => \A j, k \in 1..n : j <= k => vs[ord[j]] <= vs[ord[k]]
  BY InOrder
<1>5. DOMAIN R = 1..n
  <2>1. R \in Seq(Rows)
    BY DEF WellFormed, Rectangular
  <2> QED
    BY <1>1, <2>1, LenProperties
<1> HIDE DEF n, R, ord, vs, i
<1>6. Len(res) = m
  BY <1>2, <1>3
<1> DEFINE place == [k \in 1..m |-> Place(is_asc, n, k)]
<1>7. /\ \A k \in 1..m : place[k] \in 1..n
      /\ \A j, k \in 1..m : place[j] = place[k] => j = k
      /\ \A j, k \in 1..m : j < k => IF is_asc THEN place[j] < place[k] ELSE place[k] < place[j]
      /\ \A x \in 1..n : (\A k \in 1..m : place[k] # x) =>
            \A k \in 1..m : IF is_asc THEN place[k] < x ELSE x < place[k]
      /\ \A k \in 1..m : q[k] = ord[place[k]] /\ res[k] = R[ord[place[k]]]
  <2> HIDE DEF m
  <2>1. \A k \in 1..m : place[k] = Place(is_asc, n, k)
    OBVIOUS
  <2> HIDE DEF place
  <2>2. Placed(place, n, m, is_asc)
    BY ONLY <1>1, <1>2, <2>1, is_asc \in BOOLEAN, Places
  <2>5. \A k \in 1..m : q[k] = ord[place[k]] /\ res[k] = R[ord[place[k]]]
    BY <1>3, <2>1
  <2> QED
    BY <2>2, <2>5 DEF Placed
<1> HIDE DEF m, q, res, place
<1>8. /\ q \in [1..m -> 1..n]
      /\ \A k \in 1..m : q[k] \in 1..n /\ res[k] = R[q[k]]
      /\ \A j, k \in 1..m : q[j] = q[k] => j = k
  <2>1. \A x, y \in 1..n : ord[x] = ord[y] => x = y
    <3> DEFINE D == 1..n
    <3>1. ord \in Injection(D, D)
      BY <1>1
    <3> HIDE DEF D
    <3>2. \A x, y \in D : ord[x] = ord[y] => x = y
      BY <3>1 DEF Injection, IsInjective
    <3> QED
      BY <3>2 DEF D
  <2>2. \A k \in 1..m : q[k] \in 1..n /\ res[k] = R[q[k]]
    BY <1>1, <1>7
  <2>3. q \in [1..m -> 1..n]
    BY <2>2 DEF q
  <2>4. ASSUME NEW j \in 1..m, NEW k \in 1..m, q[j] = q[k]
        PROVE  j = k
    <3>1. place[j] = place[k]
      BY <1>7, <2>1, <2>4
    <3> QED
      BY <1>7, <3>1
  <2> QED
    BY <2>2, <2>3, <2>4
<1>9. ASSUME NEW r
      PROVE  /\ times(r, res) <= times(r, R)
             /\ times(r, res) < times(r, R) =>
                  \E p \in 1..n : R[p] = r /\ \A k \in 1..m : q[k] # p
  <2> DEFINE A == {k \in 1..m : res[k] = r}
             B == {k \in 1..n : R[k] = r}
  <2>1. times(r, res) = Cardinality(A) /\ times(r, R) = Cardinality(B)
    BY <1>1, <1>6
  <2>2. /\ A \in SUBSET (1..m) /\ B \in SUBSET (1..n)
        /\ \A k \in 1..m : k \in A <=> q[k] \in B
    BY <1>8
  <2>3. \A p \in B : p \in 1..n /\ R[p] = r
    OBVIOUS
  <2> HIDE DEF A, B
  <2>4. FitsIn(A, B, q, m)
    <3>1. n \in Nat /\ m \in Nat /\ q \in [1..m -> 1..n]
      BY <1>1, <1>2, <1>8
    <3>2. \A j, k \in 1..m : q[j] = q[k] => j = k
      BY <1>8
    <3> QED
      BY ONLY <2>2, <3>1, <3>2, Taking
  <2> QED
    BY <2>1, <2>3, <2>4 DEF FitsIn
<1>10. ASSUME Regular(s, col), NEW x \in 1..n, NEW y \in 1..n,
              IF is_asc THEN x < y ELSE y < x
       PROVE  inOrder(R[ord[x]], R[ord[y]])
  <2> DEFINE a == ord[x]
             b == ord[y]
  <2>1. /\ a \in 1..n /\ b \in 1..n
        /\ vs[a] = R[a][i].v /\ vs[b] = R[b][i].v /\ vs[a] \in Int /\ vs[b] \in Int
    BY <1>1
  <2>2. (x <= y => vs[a] <= vs[b]) /\ (y <= x => vs[b] <= vs[a])
    BY <1>4, <1>10
  <2>3. IF is_asc THEN vs[a] <= vs[b] ELSE vs[b] <= vs[a]
    BY <1>10, <2>2
  <2> HIDE DEF a, b
  <2>4. inOrder(R[a], R[b])
    BY <2>1, <2>3
  <2> QED
    BY <2>4 DEF a, b
<1>11. ASSUME Regular(s, col), NEW j \in 1..m, NEW k \in 1..m, j < k
       PROVE  inOrder(res[j], res[k])
  <2>1. /\ place[j] \in 1..n /\ place[k] \in 1..n
        /\ res[j] = R[ord[place[j]]] /\ res[k] = R[ord[place[k]]]
        /\ IF is_asc THEN place[j] < place[k] ELSE place[k] < place[j]
    BY <1>7, <1>11
  <2>2. inOrder(R[ord[place[j]]], R[ord[place[k]]])
    BY <1>10, <1>11, <2>1
  <2> QED
    BY <2>1, <2>2
<1>12. ASSUME Regular(s, col), NEW r, times(r, res) < times(r, R), NEW k \in 1..m
       PROVE  inOrder(res[k], r)
  <2>1. PICK p \in 1..n : R[p] = r /\ \A j \in 1..m : q[j] # p
    BY <1>9, <1>12
  <2>2. PICK x \in 1..n : ord[x] = p
    <3>1. \A y \in 1..n : \E x \in 1..n : ord[x] = y
      BY <1>1, Everywhere
    <3> QED
      BY <3>1
  <2>3. \A j \in 1..m : place[j] # x
    BY <1>7, <2>1, <2>2
  <2>4. /\ place[k] \in 1..n /\ res[k] = R[ord[place[k]]]
        /\ IF is_asc THEN place[k] < x ELSE x < place[k]
    BY <1>7, <2>3
  <2>5. inOrder(R[ord[place[k]]], R[ord[x]])
    BY <1>10, <1>12, <2>4
  <2> QED
    BY <2>1, <2>2, <2>4, <2>5
<1>13. /\ Len(res) = m
       /\ \A r \in Range(res) : times(r, res) <= times(r, R)
       /\ Regular(s, col) =>
             /\ \A j, k \in 1..Len(res) : j < k => inOrder(res[j], res[k])
             /\ \A r \in Range(R) :
                   times(r, res) < times(r, R) => \A k \in 1..Len(res) : inOrder(res[k], r)
  <2>1. \A r \in Range(res) : times(r, res) <= times(r, R)
    BY <1>9
  <2> HIDE DEF inOrder, times
  <2> QED
    BY <1>6, <1>11, <1>12, <2>1
<1> QED
  BY ONLY <1>13 DEF ReturnsExtremes, res, m, n, R, i
-----------------------------------------------------------------------------
(* What parsing leaves *)

LEMMA SchemaFacts ==
  ASSUME NEW row \in Rows
  PROVE  Schema(row) \in Seq(DataType) /\ Len(Schema(row)) = Len(row) /\ Len(row) \in Nat
<1>1. Len(row) \in Nat /\ \A i \in 1..Len(row) : row[i] \in Values
  BY LenProperties, ElementOfSeq DEF Rows
<1>2. ASSUME NEW i \in 1..Len(row) PROVE ParseColumnDataType(row[i]) \in DataType
  <2> DEFINE a == row[i]
  <2>1. a.type \in DataType \cup {"BadFloat"}
    BY <1>1 DEF Values
  <2> HIDE DEF a
  <2>2. ParseColumnDataType(a) \in DataType
    BY <2>1 DEF ParseColumnDataType, DataType
  <2> QED
    BY <2>2 DEF a
<1> DEFINE n == Len(row)
           t == [i \in 1..n |-> ParseColumnDataType(row[i])]
<1>3. t \in [1..n -> DataType] /\ n \in Nat
  BY <1>1, <1>2
<1>4. Schema(row) = t
  BY DEF Schema
<1> HIDE DEF t, n
<1>5. t \in Seq(DataType) /\ Len(t) = n
  BY <1>3, IsASeq, LenProperties
<1> QED
  BY <1>3, <1>4, <1>5 DEF n

LEMMA RejectedRows == Rectangular(Rejected) /\ Uniform(Rejected)
BY DEF Rejected, Content, Rectangular, Uniform, row_cnt

\* The first line left of a file sets the types, and all lines kept have them.
LEMMA FileRows ==
  ASSUME NEW file \in Tables
  PROVE  Rectangular(ParseRawContentFromFile(file)) /\ Uniform(ParseRawContentFromFile(file))
<1> DEFINE lines == file.lines
           names == file.names
           ok == {k \in DOMAIN lines : Len(lines[k]) = Len(names)}
           wide == Those(lines, ok)
           types == Schema(wide[1])
           ok2 == {k \in DOMAIN wide : Schema(wide[k]) = types}
           rows == Those(wide, ok2)
<1>1. lines \in Seq(Rows) /\ names \in Seq(STRING)
  BY DEF Tables
<1>2. DOMAIN lines = 1..Len(lines)
  BY <1>1, LenProperties
<1>3. wide \in Seq(Rows) /\ \A k \in 1..Len(wide) : Len(wide[k]) = Len(names)
  <2>1. ok \in SUBSET (1..Len(lines)) /\ \A p \in ok : Len(lines[p]) = Len(names)
    BY <1>2
  <2> HIDE DEF lines, ok
  <2>2. /\ Those(lines, ok) \in Seq(Rows)
        /\ \A k \in 1..Len(Those(lines, ok)) : \E p \in ok : Those(lines, ok)[k] = lines[p]
    BY <1>1, <2>1, KeptPass
  <2>3. ASSUME NEW k \in 1..Len(wide) PROVE Len(wide[k]) = Len(names)
    <3>1. PICK p \in ok : wide[k] = lines[p]
      BY <2>2
    <3> QED
      BY <2>1, <3>1
  <2> QED
    BY <2>2, <2>3
<1>4. ParseRawContentFromFile(file) =
         IF wide = <<>> THEN Rejected ELSE Content(names, types, rows)
  BY DEF ParseRawContentFromFile
<1> HIDE DEF wide, lines, names
<1>5. CASE wide = <<>>
  BY <1>4, <1>5, RejectedRows
<1>6. CASE wide # <<>>
  <2>1. Len(wide) \in Nat /\ DOMAIN wide = 1..Len(wide) /\ 1 \in 1..Len(wide)
    BY <1>3, <1>6, LenProperties, EmptySeq
  <2>2. wide[1] \in Rows /\ Len(wide[1]) = Len(names)
    BY <1>3, <2>1, ElementOfSeq
  <2>3. types \in Seq(DataType) /\ Len(types) = Len(names) /\ Len(names) \in Nat
    BY <2>2, SchemaFacts
  <2>4. ok2 \in SUBSET (1..Len(wide)) /\ \A p \in ok2 : Schema(wide[p]) = types
    BY <2>1
  <2> HIDE DEF types, ok2
  <2>5. /\ rows \in Seq(Rows)
        /\ \A k \in 1..Len(rows) : \E p \in ok2 : rows[k] = wide[p]
    BY <1>3, <2>4, KeptPass
  <2> HIDE DEF rows
  <2>6. ASSUME NEW k \in 1..Len(rows)
        PROVE  Schema(rows[k]) = types /\ Len(types) <= Len(rows[k])
    <3>1. Schema(rows[k]) = types
      BY <2>4, <2>5
    <3>2. rows[k] \in Rows
      BY <2>5, ElementOfSeq
    <3>3. Len(types) = Len(rows[k])
      BY <3>1, <3>2, SchemaFacts
    <3> QED
      BY <2>3, <3>1, <3>3
  <2> DEFINE p == Content(names, types, rows)
  <2>7. p.names = names /\ p.types = types /\ p.rows = rows
    BY DEF Content
  <2> HIDE DEF p
  <2>8. Rectangular(p) /\ Uniform(p)
    BY <1>1, <2>3, <2>5, <2>6, <2>7 DEF Rectangular, Uniform, row_cnt, names
  <2> QED
    BY <1>4, <1>6, <2>8 DEF p
<1> QED
  BY <1>5, <1>6

\* Rows with fewer values than there are columns do not pass.
LEMMA MergedRows ==
  ASSUME NEW names \in Seq(STRING), NEW types \in Seq(DataType), Len(types) = Len(names),
         NEW rows \in Seq(Rows)
  PROVE  Rectangular(ParseRawContent(names, types, rows))
<1> DEFINE ok == {k \in DOMAIN rows : IsPrefix(types, Schema(rows[k]))}
           kept == Those(rows, ok)
           p == Content(names, types, kept)
<1>1. ParseRawContent(names, types, rows) = Rejected \/ ParseRawContent(names, types, rows) = p
  BY DEF ParseRawContent, Fitting
<1>2. ok \in SUBSET (1..Len(rows)) /\ \A k \in ok : IsPrefix(types, Schema(rows[k]))
  BY LenProperties
<1> HIDE DEF ok
<1>3. /\ kept \in Seq(Rows)
      /\ \A k \in 1..Len(kept) : \E q \in ok : kept[k] = rows[q]
  BY <1>2, KeptPass
<1> HIDE DEF kept
<1>4. ASSUME NEW k \in 1..Len(kept) PROVE Len(types) <= Len(kept[k])
  <2>1. kept[k] \in Rows
    BY <1>3, ElementOfSeq
  <2>2. IsPrefix(types, Schema(kept[k]))
    BY <1>2, <1>3
  <2> QED
    BY <2>1, <2>2, SchemaFacts DEF IsPrefix
<1>5. p.names = names /\ p.types = types /\ p.rows = kept
  BY DEF Content
<1> HIDE DEF p
<1>6. Rectangular(p)
  BY <1>3, <1>4, <1>5 DEF Rectangular, row_cnt
<1> QED
  BY <1>1, <1>6, RejectedRows

\* Rows of the same types all pass, if there are no equal names.
LEMMA AllPass ==
  ASSUME NEW names, IsInjective(names), NEW types \in Seq(DataType), NEW rows \in Seq(Rows),
         \A k \in 1..Len(rows) : Schema(rows[k]) = types
  PROVE  ParseRawContent(names, types, rows) = Content(names, types, rows)
<1> DEFINE ok == {k \in DOMAIN rows : IsPrefix(types, Schema(rows[k]))}
<1>1. DOMAIN rows = 1..Len(rows) /\ Len(types) \in Nat
  BY LenProperties
<1>2. IsPrefix(types, types)
  BY <1>1 DEF IsPrefix
<1>3. ok = 1..Len(rows)
  BY <1>1, <1>2
<1>4. Those(rows, 1..Len(rows)) = rows
  BY AllKept
<1>5. ParseRawContent(names, types, rows) = Content(names, types, Those(rows, ok))
  BY DEF ParseRawContent, Fitting
<1> QED
  BY <1>3, <1>4, <1>5

LEMMA WholeList ==
  ASSUME NEW S, NEW q \in Seq(S)
  PROVE  SubSeq(q, 1, Len(q)) = q
<1> DEFINE n == Len(q)
           r == SubSeq(q, 1, n)
<1>1. n \in Nat /\ \A i \in 1..n : q[i] \in S
  BY LenProperties, ElementOfSeq
<1> HIDE DEF n
<1>2. /\ r \in Seq(S) /\ Len(r) = IF 1 <= n THEN n - 1 + 1 ELSE 0
      /\ \A i \in 1..(n - 1 + 1) : r[i] = q[1 + i - 1]
  BY <1>1, SubSeqProperties
<1> HIDE DEF r
<1>3. Len(r) = n /\ \A i \in 1..n : r[i] = q[i]
  BY <1>1, <1>2
<1>4. r = q
  BY <1>2, <1>3, SeqEqual DEF n
<1> QED
  BY <1>4 DEF r, n

\* The loop over the columns reads past the end of shorter rows only.
LEMMA ShorterRow ==
  ASSUME NEW row \in Rows, NEW types \in Seq(DataType), ReadsPastEnd(row, types)
  PROVE  Len(row) < Len(types)
<1> DEFINE a == Schema(row)
<1>1. a \in Seq(DataType) /\ Len(a) = Len(row) /\ Len(a) \in Nat /\ Len(types) \in Nat
  BY SchemaFacts, LenProperties
<1>2. Len(a) <= Len(types) /\ SubSeq(a, 1, Len(a)) = SubSeq(types, 1, Len(a)) /\ a # types
  BY DEF ReadsPastEnd, IsStrictPrefix, IsPrefix
<1> HIDE DEF a
<1>3. SubSeq(a, 1, Len(a)) = a /\ SubSeq(types, 1, Len(types)) = types
  BY <1>1, WholeList
<1>4. ASSUME Len(a) = Len(types) PROVE FALSE
  <2>1. SubSeq(types, 1, Len(a)) = types
    BY <1>3, <1>4, Zenon
  <2> QED
    BY <1>2, <1>3, <2>1, Zenon
<1> QED
  BY <1>1, <1>2, <1>4

\* What SortContent leaves of rows that fit.
LEMMA SortedRows ==
  ASSUME NEW p, Rectangular(p), NEW s \in SortContent(p)
  PROVE  WellFormed(s) /\ s.content = p
<1>1. /\ s.content = p
      /\ s.order \in [1..Len(p.types) -> Injection(1..row_cnt(p), 1..row_cnt(p))]
      /\ \A i \in DOMAIN s.order : MayLeave(s.content, i, s.order[i])
  BY DEF SortContent
<1>2. DOMAIN s.order = 1..Len(p.types)
  BY <1>1
<1> QED
  BY <1>1, <1>2 DEF WellFormed

\* The sum of a column of all rows is that of the sums of the parts.
LEMMA SumOfParts ==
  ASSUME NEW ss \in Seq(Seq(Rows)), NEW i,
         \A k \in 1..Len(ss) : \A p \in 1..Len(ss[k]) : ss[k][p][i] \in Values
  PROVE  /\ SumOf(Column(FlattenSeq(ss), i)) = SumOf([k \in 1..Len(ss) |-> SumOf(Column(ss[k], i))])
         /\ \A k \in 1..Len(ss) : Column(ss[k], i) \in Seq(Int)
<1> DEFINE n == Len(ss)
           ns == [k \in 1..n |-> SumOf(Column(ss[k], i))]
           Has(rows) == \A p \in 1..Len(rows) : rows[p][i] \in Values
<1>1. n \in Nat /\ \A k \in 1..n : ss[k] \in Seq(Rows) /\ Has(ss[k])
  BY LenProperties, ElementOfSeq
<1>2. PICK f \in [0..n -> Seq(Rows)] :
         /\ f[0] = <<>> /\ FlattenSeq(ss) = f[n]
         /\ \A k \in 1..n : f[k] = f[k - 1] \o ss[k]
  <2>1. PICK f \in [0..Len(ss) -> Seq(Rows)] : Flattens(f, ss)
    BY FlattenLoop
  <2> QED
    BY <2>1 DEF Flattens
<1> HIDE DEF n
<1>3. ASSUME NEW rows \in Seq(Rows), Has(rows)
      PROVE  Column(rows, i) \in Seq(Int) /\ Len(Column(rows, i)) = Len(rows)
  <2> DEFINE m == Len(rows)
             c == [k \in 1..m |-> rows[k][i].v]
  <2>1. m \in Nat /\ c \in [1..m -> Int]
    BY <1>3, LenProperties DEF Values
  <2> HIDE DEF c, m
  <2>2. c \in Seq(Int) /\ Len(c) = m
    BY <2>1, IsASeq, LenProperties
  <2> QED
    BY <2>2 DEF c, m, Column
<1>4. ASSUME NEW a \in Seq(Rows), NEW b \in Seq(Rows), Has(a), Has(b)
      PROVE  Has(a \o b) /\ Column(a \o b, i) = Column(a, i) \o Column(b, i)
  <2> DEFINE c == a \o b
             x == Len(a)
             y == Len(b)
  <2>1. x \in Nat /\ y \in Nat /\ c \in Seq(Rows) /\ Len(c) = x + y
    BY LenProperties, ConcatProperties
  <2>2. \A k \in 1..(x + y) : c[k] = IF k <= x THEN a[k] ELSE b[k - x]
    BY ConcatProperties
  <2> HIDE DEF c
  <2>3. ASSUME NEW k \in 1..(x + y) PROVE c[k][i] \in Values
    <3>1. CASE k <= x
      BY <1>4, <2>1, <2>2, <3>1
    <3>2. CASE k > x
      <4>1. k - x \in 1..y
        BY <2>1, <3>2
      <4> QED
        BY <1>4, <2>1, <2>2, <3>2, <4>1
    <3> QED
      BY <2>1, <3>1, <3>2
  <2>4. Has(c)
    BY <2>1, <2>3
  <2> DEFINE ca == Column(a, i)
             cb == Column(b, i)
             cc == Column(c, i)
             d == ca \o cb
  <2>5. /\ ca \in Seq(Int) /\ Len(ca) = x /\ cb \in Seq(Int) /\ Len(cb) = y
        /\ cc \in Seq(Int) /\ Len(cc) = x + y
    BY <1>3, <1>4, <2>1, <2>4
  <2>6. /\ \A k \in 1..x : ca[k] = a[k][i].v
        /\ \A k \in 1..y : cb[k] = b[k][i].v
        /\ \A k \in 1..(x + y) : cc[k] = c[k][i].v
    BY <2>1 DEF Column
  <2> HIDE DEF ca, cb, cc
  <2>7. /\ d \in Seq(Int) /\ Len(d) = x + y
        /\ \A k \in 1..(x + y) : d[k] = IF k <= x THEN ca[k] ELSE cb[k - x]
    <3>1. /\ ca \o cb \in Seq(Int) /\ Len(ca \o cb) = Len(ca) + Len(cb)
          /\ \A k \in 1 .. Len(ca) + Len(cb) :
                (ca \o cb)[k] = IF k <= Len(ca) THEN ca[k] ELSE cb[k - Len(ca)]
      <4>1. ca \in Seq(Int) /\ cb \in Seq(Int)
        BY <2>5
      <4> QED
        BY ONLY <4>1, ConcatProperties
    <3> HIDE DEF x, y
    <3> QED
      BY <2>5, <3>1
  <2> HIDE DEF d, x, y
  <2>8. ASSUME NEW k \in 1..(x + y) PROVE cc[k] = d[k]
    <3>1. CASE k <= x
      <4>1. k \in 1..x
        BY <2>1, <3>1
      <4> QED
        BY <2>2, <2>6, <2>7, <3>1, <4>1
    <3>2. CASE ~(k <= x)
      <4>1. k - x \in 1..y
        BY <2>1, <3>2
      <4> QED
        BY <2>2, <2>6, <2>7, <3>2, <4>1
    <3> QED
      BY <3>1, <3>2
  <2>9. cc = d
    BY <2>5, <2>7, <2>8, SeqEqual
  <2> QED
    BY <2>4, <2>9 DEF c, ca, cb, cc, d
<1>5. \A k \in 1..n : Column(ss[k], i) \in Seq(Int)
  BY <1>1, <1>3
<1>6. ns \in Seq(Int) /\ Len(ns) = n /\ \A k \in 1..n : ns[k] = SumOf(Column(ss[k], i))
  <2>1. ns \in [1..n -> Int]
    <3>1. \A k \in 1..n : SumOf(Column(ss[k], i)) \in Int
      BY <1>5, SumInt
    <3> QED
      BY <3>1
  <2>2. \A k \in 1..n : ns[k] = SumOf(Column(ss[k], i))
    OBVIOUS
  <2> HIDE DEF ns
  <2> QED
    BY <1>1, <2>1, <2>2, IsASeq, LenProperties
<1> HIDE DEF ns
<1>7. PICK g \in [0..n -> Int] : /\ g[0] = 0 /\ SumOf(ns) = g[n]
                                 /\ \A k \in 1..n : g[k] = g[k - 1] + ns[k]
  BY <1>6, AddingLoop
<1> DEFINE T == {k \in 0..n : Has(f[k]) /\ SumOf(Column(f[k], i)) = g[k]}
<1>8. 0 \in T
  <2>1. Has(<<>>) /\ Column(<<>>, i) = <<>>
    BY DEF Column
  <2>2. SumOf(<<>>) = 0
    <3>1. <<>> \in Seq(Int) /\ Len(<<>>) = 0
      OBVIOUS
    <3>2. PICK e \in [0..Len(<<>>) -> Int] : e[0] = 0 /\ SumOf(<<>>) = e[Len(<<>>)]
      BY <3>1, AddingLoop
    <3> QED
      BY <3>1, <3>2
  <2>3. Has(f[0]) /\ SumOf(Column(f[0], i)) = g[0]
    BY <1>2, <1>7, <2>1, <2>2
  <2> HIDE DEF Has
  <2> QED
    BY <1>1, <2>3
<1>9. ASSUME NEW k \in 1..n, k - 1 \in T PROVE k \in T
  <2> DEFINE a == f[k - 1]
             b == ss[k]
  <2>0. k - 1 \in 0..n /\ k \in 0..n
    BY <1>1
  <2>1. /\ a \in Seq(Rows) /\ b \in Seq(Rows) /\ Has(a) /\ Has(b)
        /\ f[k] = a \o b /\ SumOf(Column(a, i)) = g[k - 1]
        /\ ns[k] = SumOf(Column(b, i)) /\ g[k] = g[k - 1] + ns[k]
    BY <1>1, <1>2, <1>6, <1>7, <1>9, <2>0
  <2> HIDE DEF a, b, Has
  <2>2. Has(f[k]) /\ Column(f[k], i) = Column(a, i) \o Column(b, i)
    BY <1>4, <2>1
  <2>3. Column(a, i) \in Seq(Int) /\ Column(b, i) \in Seq(Int)
    BY <1>3, <2>1
  <2>4. SumOf(Column(a, i) \o Column(b, i)) = SumOf(Column(a, i)) + SumOf(Column(b, i))
    BY <2>3, SumOfTwo
  <2>5. SumOf(Column(f[k], i)) = g[k]
    BY <2>1, <2>2, <2>4
  <2> QED
    BY <2>0, <2>2, <2>5
<1>10. n \in T
  <2> HIDE DEF T
  <2>1. \A k \in 0..n : k \in T
    BY <1>1, <1>8, <1>9, Upward
  <2> QED
    BY <1>1, <2>1
<1> QED
  BY <1>2, <1>5, <1>7, <1>10 DEF n, ns
=============================================================================
