---------------------------- MODULE CommonTheorems ---------------------------
(***************************************************************************)
(* What the proofs of several components need: pointers into a ring of M   *)
(* slots, when the pointers are held as counts; sums of integers over a    *)
(* finite set, by running sums along an enumeration of the set; counts of  *)
(* elements of a queue.                                                    *)
(* No induction principle is used: every fact about all positions of an    *)
(* enumeration is shown at the least position that would refute it.        *)
(***************************************************************************)
EXTENDS Integers, Sequences, FiniteSets, FiniteSetTheorems, FunctionTheorems,
        SequenceTheorems, TLAPS

-----------------------------------------------------------------------------
(* Pointers into a ring.                                                   *)

\* Division with remainder.
LEMMA ModDiv ==
  ASSUME NEW M \in Nat, M > 1, NEW a \in Nat
  PROVE  /\ a = M * (a \div M) + (a % M)
         /\ a % M \in 0 .. M - 1
         /\ a \div M \in Nat
OBVIOUS

\* Counts less than a ring apart are equal when their pointers are: the fact
\* behind every comparison of ring pointers in the code.
LEMMA ModInjective ==
  ASSUME NEW M \in Nat, M > 1, NEW a \in Nat, NEW b \in Nat, a % M = b % M,
         a < b + M, b < a + M
  PROVE  a = b
<1> DEFINE q == a \div M
           r == b \div M
           x == a % M
<1>1. /\ a = M * q + x /\ b = M * r + x
      /\ q \in Nat /\ r \in Nat /\ x \in Int
  <2>1. a = M * q + x /\ q \in Nat /\ x \in 0 .. M - 1
    BY ModDiv
  <2>2. b = M * r + (b % M) /\ r \in Nat
    BY ModDiv
  <2>3. b % M = x
    OBVIOUS
  <2>4. QED
    BY <2>1, <2>2, <2>3
<1> HIDE DEF q, r, x
<1>2. M * q - M * r = M * (q - r)
  <2>1. ASSUME NEW u \in Int, NEW v \in Int
        PROVE  M * u - M * v = M * (u - v)
    OBVIOUS
  <2>2. QED
    BY <1>1, <2>1
<1>3. ASSUME NEW z \in Int, M * z < M, -M < M * z
      PROVE  z = 0
  BY <1>3
<1>4. M * q \in Int /\ M * r \in Int /\ q - r \in Int
  BY <1>1
<1>5. M * (q - r) < M /\ -M < M * (q - r)
  BY <1>1, <1>2, <1>4
<1>6. q = r
  BY <1>1, <1>3, <1>4, <1>5
<1>7. QED
  BY <1>1, <1>6

\* Pointers wrap around after a ring.
LEMMA ModWraps ==
  ASSUME NEW M \in Nat, M > 1, NEW a \in Nat
  PROVE  (a + M) % M = a % M
<1> DEFINE q == a \div M
           r == (a + M) \div M
           x == a % M
           y == (a + M) % M
<1>1. /\ a = M * q + x /\ q \in Nat /\ x \in 0 .. M - 1
      /\ a + M = M * r + y /\ r \in Nat /\ y \in 0 .. M - 1
  <2>1. a = M * q + x /\ q \in Nat /\ x \in 0 .. M - 1
    BY ModDiv
  <2>2. a + M \in Nat
    OBVIOUS
  <2>3. a + M = M * r + y /\ r \in Nat /\ y \in 0 .. M - 1
    BY <2>2, ModDiv
  <2>4. QED
    BY <2>1, <2>3
<1> SUFFICES x = y
  OBVIOUS
<1> HIDE DEF q, r, x, y
<1>2. ASSUME NEW u \in Int, NEW v \in Int
      PROVE  M * (u - v - 1) = M * u - M * v - M
  OBVIOUS
<1>3. M * q \in Int /\ M * r \in Int /\ r - q - 1 \in Int
  BY <1>1
<1>4. M * (r - q - 1) = x - y
  BY <1>1, <1>2, <1>3
<1>5. ASSUME NEW z \in Int, M * z < M, -M < M * z
      PROVE  z = 0
  BY <1>5
<1>6. x - y < M /\ -M < x - y
  BY <1>1
<1>7. r - q - 1 = 0
  BY <1>3, <1>4, <1>5, <1>6
<1>8. M * 0 = 0
  OBVIOUS
<1>9. QED
  BY <1>1, <1>4, <1>7, <1>8

-----------------------------------------------------------------------------
(* Sums.                                                                   *)

\* An enumeration of a finite set.
Enumeration(S) == CHOOSE e : e \in Bijection(1 .. Cardinality(S), S)

\* r is the sequence of running sums of f along the first n elements of e.
RunningSums(f, e, n, r) ==
  /\ r \in [0 .. n -> Int]
  /\ r[0] = 0
  /\ \A i \in 1 .. n : r[i] = r[i - 1] + f[e[i]]

\* The sum of f over S.
Sum(f, S) ==
  CHOOSE s : \E r : /\ RunningSums(f, Enumeration(S), Cardinality(S), r)
                    /\ s = r[Cardinality(S)]

\* A non-empty set of numbers has a least element.
LEMMA LeastNumber ==
  ASSUME NEW T \in SUBSET Nat, T # {}
  PROVE  \E x \in T : \A y \in T : x <= y
<1>1. IsWellFoundedOn(OpToRel(<, Nat), Nat)
  BY NatLessThanWellFounded
<1>2. PICK x \in T : \A y \in T : ~ (<<y, x>> \in OpToRel(<, Nat))
  BY <1>1, WFMin
<1>3. \A y \in T : ~ (y < x)
  BY <1>2 DEF OpToRel
<1>4. QED
  BY <1>3

\* An enumeration passes every element once.
LEMMA EnumerationProperties ==
  ASSUME NEW S, IsFiniteSet(S)
  PROVE  /\ Cardinality(S) \in Nat
         /\ Enumeration(S) \in [1 .. Cardinality(S) -> S]
         /\ \A i, j \in 1 .. Cardinality(S) :
              Enumeration(S)[i] = Enumeration(S)[j] => i = j
         /\ \A x \in S : \E i \in 1 .. Cardinality(S) : Enumeration(S)[i] = x
<1>1. Cardinality(S) \in Nat /\ ExistsBijection(1 .. Cardinality(S), S)
  BY FS_CardinalityType
<1>2. Enumeration(S) \in Bijection(1 .. Cardinality(S), S)
  BY <1>1 DEF Enumeration, ExistsBijection
<1>3. QED
  BY <1>1, <1>2 DEF Bijection, Injection, Surjection, IsInjective

\* Running sums exist.
LEMMA RunningSumsExist ==
  ASSUME NEW S, NEW f \in [S -> Int], NEW N \in Nat, NEW e \in [1 .. N -> S]
  PROVE  \E r : RunningSums(f, e, N, r)
<1> DEFINE Bad == {n \in Nat : n <= N /\ ~ \E r : RunningSums(f, e, n, r)}
<1>0. N <= N
  OBVIOUS
<1>1. SUFFICES ASSUME N \in Bad PROVE FALSE
  BY <1>0, Zenon
<1>2. PICK n \in Bad : \A m \in Bad : n <= m
  BY <1>1, LeastNumber
<1>3. n # 0
  <2>1. RunningSums(f, e, 0, [i \in 0 .. 0 |-> 0])
    BY DEF RunningSums
  <2>2. QED
    BY <2>1, <1>2
<1>4. n - 1 \in Nat /\ n - 1 < n /\ n - 1 \notin Bad /\ n - 1 <= N /\ n \in 1 .. N
  BY <1>2, <1>3
<1>5. PICK r : RunningSums(f, e, n - 1, r)
  BY <1>4
<1> DEFINE q == [i \in 0 .. n |-> IF i = n THEN r[n - 1] + f[e[n]] ELSE r[i]]
<1>6. RunningSums(f, e, n, q)
  <2>1. r[n - 1] + f[e[n]] \in Int
    BY <1>4, <1>5 DEF RunningSums
  <2>2. q \in [0 .. n -> Int]
    BY <1>4, <1>5, <2>1 DEF RunningSums
  <2>3. q[0] = 0
    BY <1>3, <1>4, <1>5 DEF RunningSums
  <2>4. ASSUME NEW i \in 1 .. n PROVE q[i] = q[i - 1] + f[e[i]]
    <3>1. CASE i = n
      BY <3>1, <1>4
    <3>2. CASE i # n
      BY <3>2, <1>4, <1>5 DEF RunningSums
    <3>3. QED
      BY <3>1, <3>2
  <2>5. QED
    BY <2>2, <2>3, <2>4 DEF RunningSums
<1>7. QED
  BY <1>2, <1>6

\* Running sums are determined by the function.
LEMMA RunningSumsUnique ==
  ASSUME NEW f, NEW e, NEW N \in Nat, NEW r, NEW q,
         RunningSums(f, e, N, r), RunningSums(f, e, N, q)
  PROVE  r = q
<1> DEFINE Bad == {n \in Nat : n <= N /\ r[n] # q[n]}
<1>1. SUFFICES ASSUME Bad # {} PROVE FALSE
  BY DEF RunningSums
<1>2. PICK n \in Bad : \A m \in Bad : n <= m
  BY <1>1, LeastNumber
<1>3. n # 0
  BY <1>2 DEF RunningSums
<1>4. n - 1 \in Nat /\ n - 1 \notin Bad /\ n - 1 <= N /\ n \in 1 .. N
  BY <1>2, <1>3
<1>5. r[n] = r[n - 1] + f[e[n]] /\ q[n] = q[n - 1] + f[e[n]]
  BY <1>4 DEF RunningSums
<1>6. QED
  BY <1>2, <1>4, <1>5

\* The sum is the last of the running sums, whatever they are called.
LEMMA SumIsLast ==
  ASSUME NEW S, IsFiniteSet(S), NEW f \in [S -> Int]
  PROVE  /\ \E r : RunningSums(f, Enumeration(S), Cardinality(S), r)
         /\ \A r : RunningSums(f, Enumeration(S), Cardinality(S), r) =>
              Sum(f, S) = r[Cardinality(S)] /\ Sum(f, S) \in Int
<1> DEFINE e == Enumeration(S)
           N == Cardinality(S)
<1>1. N \in Nat /\ e \in [1 .. N -> S]
  BY EnumerationProperties
<1> HIDE DEF e, N
<1>2. \E r : RunningSums(f, e, N, r)
  BY <1>1, RunningSumsExist
<1>3. ASSUME NEW r, RunningSums(f, e, N, r)
      PROVE  Sum(f, S) = r[N] /\ Sum(f, S) \in Int
  <2>1. \A q : RunningSums(f, e, N, q) => q = r
    BY <1>1, <1>3, RunningSumsUnique
  <2>2. Sum(f, S) = CHOOSE s : \E q : RunningSums(f, e, N, q) /\ s = q[N]
    BY DEF Sum, e, N
  <2>3. \E s : \E q : RunningSums(f, e, N, q) /\ s = q[N]
    BY <1>3
  <2>4. \E q : RunningSums(f, e, N, q) /\ Sum(f, S) = q[N]
    BY <2>2, <2>3
  <2>5. Sum(f, S) = r[N]
    BY <2>1, <2>4
  <2>6. r[N] \in Int
    BY <1>1, <1>3 DEF RunningSums
  <2>7. QED
    BY <2>5, <2>6
<1>4. QED
  BY <1>2, <1>3 DEF e, N

\* A sum of integers is an integer.
LEMMA SumType ==
  ASSUME NEW S, IsFiniteSet(S), NEW f \in [S -> Int]
  PROVE  Sum(f, S) \in Int
BY SumIsLast

\* Changing a function at one argument changes its sum by the difference.
LEMMA SumUpdate ==
  ASSUME NEW S, IsFiniteSet(S), NEW f \in [S -> Int], NEW g \in [S -> Int],
         NEW x \in S, \A y \in S \ {x} : g[y] = f[y]
  PROVE  Sum(g, S) = Sum(f, S) + g[x] - f[x]
<1> DEFINE e == Enumeration(S)
           N == Cardinality(S)
<1>1. /\ N \in Nat /\ e \in [1 .. N -> S]
      /\ \A i, j \in 1 .. N : e[i] = e[j] => i = j
      /\ \A y \in S : \E i \in 1 .. N : e[i] = y
  BY EnumerationProperties
<1>2. \E r : RunningSums(f, e, N, r)
  BY SumIsLast
<1>3. PICK r : RunningSums(f, e, N, r)
  BY <1>2
<1>4. Sum(f, S) = r[N]
  BY <1>3, SumIsLast
<1>5. \A q : RunningSums(g, e, N, q) => Sum(g, S) = q[N]
  BY SumIsLast
<1> HIDE DEF e, N
<1>6. PICK k \in 1 .. N : e[k] = x
  BY <1>1
<1> DEFINE d == g[x] - f[x]
           q == [i \in 0 .. N |-> IF i >= k THEN r[i] + d ELSE r[i]]
<1>d. d \in Int /\ g[x] = f[x] + d
  OBVIOUS
<1> HIDE DEF d
<1>7. RunningSums(g, e, N, q)
  <2>0. \A i \in 0 .. N : r[i] \in Int
    BY <1>3 DEF RunningSums
  <2>1. q \in [0 .. N -> Int]
    BY <2>0, <1>d
  <2>2. q[0] = 0
    BY <1>1, <1>3 DEF RunningSums
  <2>3. ASSUME NEW i \in 1 .. N PROVE q[i] = q[i - 1] + g[e[i]]
    <3>1. /\ r[i] = r[i - 1] + f[e[i]] /\ r[i - 1] \in Int
          /\ f[e[i]] \in Int /\ g[e[i]] \in Int /\ f[x] \in Int /\ g[x] \in Int
          /\ e[i] \in S
      <4>1. e[i] \in S /\ i - 1 \in 0 .. N
        BY <1>1
      <4>2. r[i - 1] \in Int /\ r[i] = r[i - 1] + f[e[i]]
        BY <2>0, <4>1, <1>3 DEF RunningSums
      <4>3. QED
        BY <4>1, <4>2
    <3>2. CASE i = k
      BY <3>1, <3>2, <1>1, <1>6, <1>d, SMTT(30)
    <3>3. CASE i # k
      <4>1. e[i] # x
        BY <3>3, <1>1, <1>6
      <4>2. g[e[i]] = f[e[i]]
        BY <4>1, <3>1
      <4>3. i \in 0 .. N /\ i - 1 \in 0 .. N /\ i \in Int /\ k \in Int
        BY <1>1
      <4>4. CASE i > k
        <5>1. q[i] = r[i] + d /\ q[i - 1] = r[i - 1] + d
          BY <4>3, <4>4
        <5>2. QED
          BY <5>1, <3>1, <4>2, <1>d
      <4>5. CASE i < k
        <5>1. q[i] = r[i] /\ q[i - 1] = r[i - 1]
          BY <4>3, <4>5
        <5>2. QED
          BY <5>1, <3>1, <4>2
      <4>6. QED
        BY <4>3, <4>4, <4>5, <3>3
    <3>4. QED
      BY <3>2, <3>3
  <2>4. QED
    BY <2>1, <2>2, <2>3 DEF RunningSums
<1>8. Sum(g, S) = q[N]
  BY <1>5, <1>7
<1>9. r[N] \in Int /\ q[N] = r[N] + d
  BY <1>1, <1>3, <1>6, <1>d DEF RunningSums
<1>10. QED
  BY <1>4, <1>8, <1>9 DEF d

\* The sum of zeros is zero.
LEMMA SumZero ==
  ASSUME NEW S, IsFiniteSet(S), NEW f \in [S -> Int], \A x \in S : f[x] = 0
  PROVE  Sum(f, S) = 0
<1> DEFINE e == Enumeration(S)
           N == Cardinality(S)
<1>1. N \in Nat /\ e \in [1 .. N -> S]
  BY EnumerationProperties
<1>2. \A q : RunningSums(f, e, N, q) => Sum(f, S) = q[N]
  BY SumIsLast
<1> HIDE DEF e, N
<1>3. RunningSums(f, e, N, [i \in 0 .. N |-> 0])
  BY <1>1 DEF RunningSums
<1>4. Sum(f, S) = [i \in 0 .. N |-> 0][N]
  BY <1>2, <1>3
<1>5. QED
  BY <1>1, <1>4

\* A sum of numbers is zero only if every one of them is.
LEMMA SumOfNumbers ==
  ASSUME NEW S, IsFiniteSet(S), NEW f \in [S -> Nat]
  PROVE  /\ Sum(f, S) \in Nat
         /\ Sum(f, S) = 0 => \A x \in S : f[x] = 0
<1> DEFINE e == Enumeration(S)
           N == Cardinality(S)
<1>0. f \in [S -> Int]
  OBVIOUS
<1>1. /\ N \in Nat /\ e \in [1 .. N -> S]
      /\ \A y \in S : \E i \in 1 .. N : e[i] = y
  BY EnumerationProperties
<1>2. \E r : RunningSums(f, e, N, r)
  BY <1>0, SumIsLast
<1>3. PICK r : RunningSums(f, e, N, r)
  BY <1>2
<1>4. Sum(f, S) = r[N]
  BY <1>0, <1>3, SumIsLast
<1> HIDE DEF e, N
<1>5. ASSUME NEW k \in 0 .. N, NEW b \in Nat, b <= r[k]
      PROVE  b <= r[N]
  <2> DEFINE Bad == {n \in Nat : k <= n /\ n <= N /\ ~ (b <= r[n])}
  <2>1. SUFFICES ASSUME Bad # {} PROVE FALSE
    BY <1>1
  <2>2. PICK n \in Bad : \A m \in Bad : n <= m
    BY <2>1, LeastNumber
  <2>3. n # k
    BY <2>2, <1>5
  <2>4. /\ n - 1 \in Nat /\ k <= n - 1 /\ n - 1 <= N /\ n \in 1 .. N
        /\ n - 1 < n
    BY <2>2, <2>3, <1>1
  <2>5. b <= r[n - 1]
    BY <2>2, <2>4
  <2>6. r[n] = r[n - 1] + f[e[n]] /\ r[n - 1] \in Int /\ f[e[n]] \in Nat
    BY <2>4, <1>1, <1>3 DEF RunningSums
  <2>7. QED
    BY <2>2, <2>5, <2>6
<1>6. r[0] = 0 /\ r[N] \in Int /\ 0 \in 0 .. N
  BY <1>1, <1>3 DEF RunningSums
<1>7. r[N] \in Nat
  BY <1>5, <1>6
<1>8. ASSUME NEW x \in S, r[N] = 0
      PROVE  f[x] = 0
  <2>1. PICK k \in 1 .. N : e[k] = x
    BY <1>1
  <2>2. r[k] = r[k - 1] + f[x] /\ r[k - 1] \in Int
    BY <2>1, <1>1, <1>3 DEF RunningSums
  <2>3. /\ r[k - 1] >= 0 /\ r[k] <= 0
    <3>1. k - 1 \in 0 .. N /\ k \in 0 .. N
      BY <1>1
    <3>2. \A b \in Nat : b <= r[k] => b <= r[N]
      BY <1>5, <3>1
    <3>3. ASSUME NEW j \in 0 .. N PROVE r[j] >= 0
      <4>0. j \in Nat /\ j <= N
        BY <1>1
      <4> DEFINE Bad == {n \in Nat : n <= N /\ ~ (r[n] >= 0)}
      <4>1. SUFFICES ASSUME Bad # {} PROVE FALSE
        BY <4>0
      <4>2. PICK n \in Bad : \A m \in Bad : n <= m
        BY <4>1, LeastNumber
      <4>3. n - 1 \in Nat /\ n - 1 <= N /\ n \in 1 .. N /\ n - 1 \notin Bad
        BY <4>2, <1>1, <1>6
      <4>4. r[n] = r[n - 1] + f[e[n]] /\ r[n - 1] \in Int /\ f[e[n]] \in Nat
        BY <4>3, <1>1, <1>3 DEF RunningSums
      <4>5. QED
        BY <4>2, <4>3, <4>4
    <3>4. r[k] \in Int
      BY <3>1, <1>3 DEF RunningSums
    <3>5. r[k - 1] >= 0 /\ r[k] \in Nat
      BY <3>1, <3>3, <3>4
    <3>6. r[k] <= r[N]
      BY <3>2, <3>5
    <3>7. QED
      BY <3>5, <3>6, <1>8
  <2>4. f[x] \in Nat
    OBVIOUS
  <2>5. QED
    BY <2>2, <2>3, <2>4
<1>9. QED
  BY <1>4, <1>7, <1>8

-----------------------------------------------------------------------------
(* Counts of the elements of a queue that lie in a set.                    *)

Hits(q, S) == Cardinality({i \in 1 .. Len(q) : q[i] \in S})

\* A count is a number, and zero when there is nothing to count.
LEMMA HitsType ==
  ASSUME NEW T, NEW q \in Seq(T), NEW S
  PROVE  /\ Hits(q, S) \in Nat
         /\ Hits(q, S) = 0 <=> \A i \in 1 .. Len(q) : q[i] \notin S
<1> DEFINE I == {i \in 1 .. Len(q) : q[i] \in S}
<1>1. IsFiniteSet(1 .. Len(q))
  BY FS_Interval
<1>2. IsFiniteSet(I)
  BY <1>1, FS_Subset
<1>3. Cardinality(I) \in Nat /\ (Cardinality(I) = 0 <=> I = {})
  BY <1>2, FS_CardinalityType, FS_EmptySet
<1>4. QED
  BY <1>3 DEF Hits

\* The empty queue.
LEMMA HitsEmpty ==
  ASSUME NEW S
  PROVE  Hits(<<>>, S) = 0
<1>1. {i \in 1 .. Len(<<>>) : <<>>[i] \in S} = {}
  OBVIOUS
<1>2. QED
  BY <1>1, FS_EmptySet DEF Hits

\* An element enters the queue.
LEMMA HitsAppend ==
  ASSUME NEW T, NEW q \in Seq(T), NEW x \in T, NEW S
  PROVE  Hits(Append(q, x), S) = Hits(q, S) + (IF x \in S THEN 1 ELSE 0)
<1> DEFINE r == Append(q, x)
           n == Len(q)
           I == {i \in 1 .. n : q[i] \in S}
           J == {i \in 1 .. n + 1 : r[i] \in S}
<1>1. /\ n \in Nat /\ Len(r) = n + 1 /\ r[n + 1] = x
      /\ \A i \in 1 .. n : r[i] = q[i]
  BY AppendProperties
<1>2. IsFiniteSet(I) /\ n + 1 \notin I
  <2>1. IsFiniteSet(1 .. n)
    BY <1>1, FS_Interval
  <2>2. I \subseteq 1 .. n /\ n + 1 \notin I
    BY <1>1
  <2>3. QED
    BY <2>1, <2>2, FS_Subset
<1>3. J = IF x \in S THEN I \cup {n + 1} ELSE I
  BY <1>1
<1>4. Hits(r, S) = Cardinality(J) /\ Hits(q, S) = Cardinality(I)
  BY <1>1 DEF Hits
<1> HIDE DEF I, J, n, r
<1>5. Cardinality(I \cup {n + 1}) = Cardinality(I) + 1 /\ Cardinality(I) \in Nat
  BY <1>2, FS_AddElement, FS_CardinalityType
<1>6. Hits(r, S) = Hits(q, S) + (IF x \in S THEN 1 ELSE 0)
  BY <1>3, <1>4, <1>5
<1>7. QED
  BY <1>6 DEF r

\* An element leaves the queue.
LEMMA HitsTail ==
  ASSUME NEW T, NEW q \in Seq(T), q # <<>>, NEW S
  PROVE  Hits(q, S) = Hits(Tail(q), S) + (IF Head(q) \in S THEN 1 ELSE 0)
<1> DEFINE r == Tail(q)
           n == Len(r)
           I == {i \in 1 .. n : r[i] \in S}
           J == {i \in 2 .. n + 1 : q[i] \in S}
           f == [i \in I |-> i + 1]
<1>1. /\ n \in Nat /\ Len(q) = n + 1 /\ q[1] = Head(q)
      /\ \A i \in 1 .. n : r[i] = q[i + 1]
  BY HeadTailProperties, EmptySeq
<1>2. f \in Bijection(I, J)
  <2>1. f \in [I -> J]
    BY <1>1
  <2>2. \A i, j \in I : f[i] = f[j] => i = j
    OBVIOUS
  <2>3. \A k \in J : \E i \in I : f[i] = k
    <3>1. ASSUME NEW k \in J PROVE k - 1 \in I /\ f[k - 1] = k
      BY <1>1
    <3>2. QED
      BY <3>1
  <2> HIDE DEF f, I, J
  <2>4. QED
    BY <2>1, <2>2, <2>3, Fun_IsBij
<1>3. IsFiniteSet(I) /\ Cardinality(I) \in Nat
  <2>1. IsFiniteSet(1 .. n) /\ I \subseteq 1 .. n
    BY <1>1, FS_Interval
  <2>2. QED
    BY <2>1, FS_Subset, FS_CardinalityType
<1>4. ExistsBijection(I, J)
  BY <1>2 DEF ExistsBijection
<1>5. {i \in 1 .. n + 1 : q[i] \in S} = IF q[1] \in S THEN J \cup {1} ELSE J
  BY <1>1
<1>6. 1 \notin J
  OBVIOUS
<1>7. /\ Hits(q, S) = Cardinality({i \in 1 .. n + 1 : q[i] \in S})
      /\ Hits(r, S) = Cardinality(I)
  BY <1>1 DEF Hits
<1> HIDE DEF f, I, J, n, r
<1>8. IsFiniteSet(J) /\ Cardinality(J) = Cardinality(I)
  BY <1>3, <1>4, FS_Bijection
<1>9. Cardinality(J \cup {1}) = Cardinality(J) + 1
  BY <1>6, <1>8, FS_AddElement
<1>10. Hits(q, S) = Hits(r, S) + (IF Head(q) \in S THEN 1 ELSE 0)
  <2>1. CASE Head(q) \in S
    <3>1. Hits(q, S) = Cardinality(J \cup {1})
      BY <1>1, <1>5, <1>7, <2>1
    <3>2. QED
      BY <1>3, <1>7, <1>8, <1>9, <2>1, <3>1
  <2>2. CASE Head(q) \notin S
    <3>1. Hits(q, S) = Cardinality(J)
      BY <1>1, <1>5, <1>7, <2>2
    <3>2. QED
      BY <1>3, <1>7, <1>8, <2>2, <3>1
  <2>3. QED
    BY <2>1, <2>2
<1>11. QED
  BY <1>10 DEF r

-----------------------------------------------------------------------------
(* The elements of a queue.                                                *)

LEMMA RangeAppend ==
  ASSUME NEW T, NEW q \in Seq(T), NEW x \in T
  PROVE  Append(q, x) \in Seq(T) /\ Range(Append(q, x)) = Range(q) \cup {x}
<1> DEFINE r == Append(q, x)
           n == Len(q)
<1>1. /\ n \in Nat /\ r \in Seq(T) /\ Len(r) = n + 1 /\ r[n + 1] = x
      /\ \A i \in 1 .. n : r[i] = q[i]
  BY AppendProperties
<1>2. DOMAIN r = 1 .. n + 1 /\ DOMAIN q = 1 .. n
  BY <1>1
<1> HIDE DEF r, n
<1>3. Range(r) = Range(q) \cup {x}
  BY <1>1, <1>2 DEF Range
<1>4. QED
  BY <1>1, <1>3 DEF r

LEMMA RangeTail ==
  ASSUME NEW T, NEW q \in Seq(T), q # <<>>
  PROVE  /\ Head(q) \in T /\ Tail(q) \in Seq(T)
         /\ Range(q) = Range(Tail(q)) \cup {Head(q)}
<1> DEFINE r == Tail(q)
           n == Len(r)
<1>1. /\ n \in Nat /\ r \in Seq(T) /\ Len(q) = n + 1 /\ q[1] = Head(q) /\ Head(q) \in T
      /\ \A i \in 1 .. n : r[i] = q[i + 1]
  BY HeadTailProperties, EmptySeq
<1>2. DOMAIN r = 1 .. n /\ DOMAIN q = 1 .. n + 1
  BY <1>1
<1> HIDE DEF r, n
<1>3. Range(r) \cup {q[1]} \subseteq Range(q)
  <2>1. ASSUME NEW i \in 1 .. n PROVE r[i] \in Range(q)
    <3>1. i + 1 \in 1 .. n + 1 /\ r[i] = q[i + 1]
      BY <1>1
    <3>2. QED
      BY <1>2, <3>1 DEF Range
  <2>2. q[1] \in Range(q)
    <3>1. 1 \in 1 .. n + 1
      BY <1>1
    <3>2. QED
      BY <1>2, <3>1 DEF Range
  <2>3. QED
    BY <1>2, <2>1, <2>2 DEF Range
<1>4. Range(q) \subseteq Range(r) \cup {q[1]}
  <2>1. ASSUME NEW j \in 1 .. n + 1 PROVE q[j] \in Range(r) \cup {q[1]}
    <3>1. CASE j = 1
      BY <3>1
    <3>2. CASE j # 1
      <4>1. j - 1 \in 1 .. n /\ r[j - 1] = q[j]
        BY <1>1, <3>2
      <4>2. QED
        BY <1>2, <4>1 DEF Range
    <3>3. QED
      BY <3>1, <3>2
  <2>2. QED
    BY <1>2, <2>1 DEF Range
<1>5. QED
  BY <1>1, <1>3, <1>4 DEF r

LEMMA RangeType ==
  ASSUME NEW T, NEW q \in Seq(T)
  PROVE  /\ Range(q) \subseteq T
         /\ Range(<<>>) = {}
         /\ \A i \in 1 .. Len(q) : q[i] \in Range(q)
         /\ \A x \in Range(q) : \E i \in 1 .. Len(q) : q[i] = x
BY DEF Range

\* Nothing is counted where nothing is.
LEMMA HitsRange ==
  ASSUME NEW T, NEW q \in Seq(T), NEW S
  PROVE  /\ Hits(q, S) \in Nat
         /\ Hits(q, S) = 0 <=> \A x \in Range(q) : x \notin S
BY HitsType, RangeType

=============================================================================
