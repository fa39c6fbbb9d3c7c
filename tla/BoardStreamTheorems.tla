------------------------- MODULE BoardStreamTheorems -------------------------
(***************************************************************************)
(* One board and the program at the other end of its link: the commands    *)
(* on their way to the board, and the replies and characters on their way  *)
(* back, as streams of packets that the connection holds whole and the     *)
(* UART and its queues hold as bytes.  For every number of boxes, boards   *)
(* and cores and every size of the queues.  DebugLinkProofs puts the       *)
(* boards together.                                                        *)
(***************************************************************************)
EXTENDS DebugLink, CommonTheorems

-----------------------------------------------------------------------------
(* Packets end to end, and places in a queue.                              *)

\* The sequence s is the packets P end to end: f[i] is where the i-th ends.
Ends(s, P, f) ==
  /\ f \in [0 .. Len(P) -> 0 .. Len(s)]
  /\ f[0] = 0 /\ f[Len(P)] = Len(s)
  /\ \A i \in 1 .. Len(P) :
       /\ f[i] = f[i - 1] + Len(P[i])
       /\ \A j \in 1 .. Len(P[i]) : s[f[i - 1] + j] = P[i][j]
  /\ \A i, j \in 0 .. Len(P) : i <= j => f[i] <= f[j]

\* So that s, read packet by packet, is P.
Cut(s, P) == \E f : Ends(s, P, f)

\* The queue q carries, at the places K, the (m+1)-th to the n-th item of F, in order.
Places(q, K, F, m, n, p) ==
  /\ p \in [m + 1 .. n -> K]
  /\ \A i, j \in m + 1 .. n : i < j => p[i] < p[j]
  /\ \A k \in K : \E i \in m + 1 .. n : p[i] = k
  /\ \A i \in m + 1 .. n : q[p[i]] = F[i]

\* Such places exist.
Carry(q, K, F, m, n) == \E p : Places(q, K, F, m, n, p)

\* A place in a part is a place in the whole.
LEMMA PlaceInPart ==
  ASSUME NEW d \in Nat, NEW u \in Nat, NEW v \in Nat, NEW c \in Nat, d <= u, u + v <= c,
         NEW j \in 1 .. v
  PROVE  /\ u + j \in 1 .. c
         /\ u - d + j \in 1 .. c - d
         /\ d + (u - d + j) = u + j
OBVIOUS

\* What is taken off both is not in the difference.
LEMMA LessBoth ==
  ASSUME NEW u \in Int, NEW v \in Int, NEW c \in Int, NEW d \in Int, c = u + v
  PROVE  c - d = (u - d) + v
OBVIOUS

\* No packets, no bytes.
LEMMA CutNone ==
  ASSUME NEW s \in Seq(Int)
  PROVE  /\ Cut(<<>>, <<>>)
         /\ Cut(s, <<>>) => s = <<>>
<1>1. Ends(<<>>, <<>>, [i \in 0 .. 0 |-> 0])
  BY DEF Ends
<1>2. ASSUME NEW f, Ends(s, <<>>, f) PROVE s = <<>>
  <2>1. Len(s) = 0
    BY <1>2 DEF Ends
  <2>2. QED
    BY <2>1, EmptySeq
<1>3. QED
  BY <1>1, <1>2 DEF Cut

\* Another packet at the end.
LEMMA CutAppend ==
  ASSUME NEW s \in Seq(Int), NEW P \in Seq(Seq(Int)), NEW x \in Seq(Int), Cut(s, P)
  PROVE  Cut(s \o x, Append(P, x))
<1> DEFINE t == s \o x
           Q == Append(P, x)
           N == Len(P)
<1>1. PICK f : Ends(s, P, f)
  BY DEF Cut
<1>2. /\ t \in Seq(Int) /\ Len(t) = Len(s) + Len(x) /\ Len(s) \in Nat /\ Len(x) \in Nat
      /\ \A j \in 1 .. Len(s) : t[j] = s[j]
      /\ \A j \in 1 .. Len(x) : t[Len(s) + j] = x[j]
  OBVIOUS
<1>3. /\ N \in Nat /\ Len(Q) = N + 1 /\ Q[N + 1] = x
      /\ \A i \in 1 .. N : Q[i] = P[i] /\ P[i] \in Seq(Int)
  BY AppendProperties
<1> HIDE DEF t, Q, N
<1> DEFINE g == [i \in 0 .. N + 1 |-> IF i = N + 1 THEN Len(t) ELSE f[i]]
<1>4. /\ f \in [0 .. N -> 0 .. Len(s)] /\ f[0] = 0 /\ f[N] = Len(s)
      /\ \A i \in 1 .. N : f[i] = f[i - 1] + Len(P[i])
      /\ \A i \in 1 .. N : \A j \in 1 .. Len(P[i]) : s[f[i - 1] + j] = P[i][j]
      /\ \A i, j \in 0 .. N : i <= j => f[i] <= f[j]
  BY <1>1 DEF Ends, N
<1>5. g \in [0 .. N + 1 -> 0 .. Len(t)] /\ g[0] = 0 /\ g[N + 1] = Len(t)
  BY <1>2, <1>3, <1>4
<1>6. ASSUME NEW i \in 1 .. N + 1
      PROVE  /\ g[i] = g[i - 1] + Len(Q[i])
             /\ \A j \in 1 .. Len(Q[i]) : t[g[i - 1] + j] = Q[i][j]
  <2>1. CASE i = N + 1
    <3>1. g[i - 1] = Len(s) /\ g[i] = Len(t) /\ Q[i] = x
      BY <1>3, <1>4, <2>1
    <3>2. QED
      BY <1>2, <3>1
  <2>2. CASE i # N + 1
    <3>1. i \in 1 .. N /\ i - 1 \in 0 .. N /\ i \in 0 .. N
      BY <1>3, <2>2
    <3>2. g[i] = f[i] /\ g[i - 1] = f[i - 1] /\ Q[i] = P[i] /\ Len(P[i]) \in Nat
      BY <1>3, <3>1
    <3>3. f[i] = f[i - 1] + Len(P[i]) /\ f[i] \in 0 .. Len(s) /\ f[i - 1] \in 0 .. Len(s)
      BY <1>4, <3>1
    <3>4. ASSUME NEW j \in 1 .. Len(P[i]) PROVE t[f[i - 1] + j] = P[i][j]
      <4>0. PICK u \in Nat, v \in Nat, c \in Nat :
              u = f[i - 1] /\ v = Len(P[i]) /\ c = Len(s) /\ u + v <= c
        <5>1. Len(s) \in Nat /\ Len(P[i]) \in Nat
          BY <1>2, <3>2
        <5>2. f[i - 1] \in Nat /\ f[i - 1] + Len(P[i]) <= Len(s)
          BY <5>1, <3>3
        <5>3. QED
          BY <5>1, <5>2
      <4>1. f[i - 1] + j \in 1 .. Len(s)
        <5>1. j \in 1 .. v
          BY <4>0
        <5>2. u + j \in 1 .. c
          <6>1. 0 \in Nat /\ 0 <= u /\ u + v <= c
            BY <4>0
          <6>2. QED
            BY <5>1, <6>1, PlaceInPart
        <5>3. QED
          BY <4>0, <5>2
      <4>2. QED
        BY <1>2, <1>4, <3>1, <4>1
    <3>5. QED
      BY <3>2, <3>3, <3>4
  <2>3. QED
    BY <2>1, <2>2
<1>7. ASSUME NEW i \in 0 .. N + 1, NEW j \in 0 .. N + 1, i <= j PROVE g[i] <= g[j]
  <2>1. CASE j = N + 1
    BY <1>2, <1>3, <1>4, <2>1
  <2>2. CASE j # N + 1
    BY <1>3, <1>4, <1>7, <2>2
  <2>3. QED
    BY <2>1, <2>2
<1>8. Len(Q) = N + 1
  BY <1>3
<1> HIDE DEF g
<1>9. Ends(t, Q, g)
  BY <1>5, <1>6, <1>7, <1>8 DEF Ends
<1>10. QED
  BY <1>9 DEF Cut, t, Q

\* The first packet is at the front; the others are the rest.
LEMMA CutHead ==
  ASSUME NEW s \in Seq(Int), NEW P \in Seq(Seq(Int)), P # <<>>, Cut(s, P)
  PROVE  /\ P[1] \in Seq(Int) /\ Len(P[1]) <= Len(s)
         /\ \A j \in 1 .. Len(P[1]) : s[j] = P[1][j]
         /\ Cut(SubSeq(s, Len(P[1]) + 1, Len(s)), Tail(P))
<1> DEFINE a == Len(P[1])
           t == SubSeq(s, a + 1, Len(s))
           Q == Tail(P)
           N == Len(Q)
<1>1. PICK f : Ends(s, P, f)
  BY DEF Cut
<1>2. /\ N \in Nat /\ Len(P) = N + 1 /\ P[1] \in Seq(Int) /\ Q \in Seq(Seq(Int))
      /\ \A i \in 1 .. N : Q[i] = P[i + 1] /\ Q[i] \in Seq(Int)
  BY HeadTailProperties, EmptySeq
<1> HIDE DEF Q, N
<1>4. /\ f \in [0 .. N + 1 -> 0 .. Len(s)] /\ f[0] = 0 /\ f[N + 1] = Len(s)
      /\ \A i \in 1 .. N + 1 : f[i] = f[i - 1] + Len(P[i])
      /\ \A i \in 1 .. N + 1 : \A j \in 1 .. Len(P[i]) : s[f[i - 1] + j] = P[i][j]
      /\ \A i, j \in 0 .. N + 1 : i <= j => f[i] <= f[j]
  BY <1>1, <1>2 DEF Ends
<1>5. a \in Nat /\ f[1] = a /\ a <= Len(s) /\ Len(s) \in Nat
  <2>1. 1 \in 1 .. N + 1 /\ 1 \in 0 .. N + 1 /\ 1 - 1 = 0
    BY <1>2
  <2>2. f[1] = 0 + a /\ f[1] \in 0 .. Len(s) /\ a \in Nat
    BY <1>2, <1>4, <2>1
  <2>3. QED
    BY <2>2
<1>6. ASSUME NEW j \in 1 .. a PROVE s[j] = P[1][j]
  <2>1. 1 \in 1 .. N + 1 /\ f[1 - 1] = 0
    BY <1>2, <1>4
  <2>2. s[f[1 - 1] + j] = P[1][j]
    BY <1>4, <2>1
  <2>3. f[1 - 1] + j = j
    BY <2>1, <1>5
  <2>4. QED
    BY <2>2, <2>3
<1> HIDE DEF a
<1>7. /\ t \in Seq(Int) /\ Len(t) = Len(s) - a
      /\ \A j \in 1 .. Len(s) - a : t[j] = s[a + j]
  BY <1>5
<1> HIDE DEF t
<1> DEFINE g == [i \in 0 .. N |-> f[i + 1] - a]
<1>8. ASSUME NEW i \in 0 .. N
      PROVE  i + 1 \in 0 .. N + 1 /\ f[i + 1] \in 0 .. Len(s) /\ a <= f[i + 1]
  <2>1. i + 1 \in 0 .. N + 1 /\ 1 \in 0 .. N + 1 /\ 1 <= i + 1
    BY <1>2
  <2>2. f[1] <= f[i + 1] /\ f[i + 1] \in 0 .. Len(s)
    BY <1>4, <2>1
  <2>3. QED
    BY <1>5, <2>1, <2>2
<1>9. g \in [0 .. N -> 0 .. Len(t)] /\ g[0] = 0 /\ g[N] = Len(t)
  <2>1. \A i \in 0 .. N : f[i + 1] - a \in 0 .. Len(t)
    BY <1>5, <1>7, <1>8
  <2>2. g[0] = f[1] - a /\ g[N] = f[N + 1] - a
    BY <1>2
  <2>3. f[1] - a = 0 /\ f[N + 1] - a = Len(t)
    BY <1>4, <1>5, <1>7
  <2>4. g \in [0 .. N -> 0 .. Len(t)]
    BY <2>1
  <2>5. QED
    BY <2>2, <2>3, <2>4
<1>10. ASSUME NEW i \in 1 .. N
       PROVE  /\ g[i] = g[i - 1] + Len(Q[i])
              /\ \A j \in 1 .. Len(Q[i]) : t[g[i - 1] + j] = Q[i][j]
  <2>1. /\ i + 1 \in 1 .. N + 1 /\ i \in 0 .. N /\ i - 1 \in 0 .. N /\ (i + 1) - 1 = i
        /\ (i - 1) + 1 = i
    BY <1>2
  <2>2. Q[i] = P[i + 1] /\ Len(Q[i]) \in Nat
    BY <1>2
  <2>3. f[i + 1] = f[i] + Len(Q[i]) /\ f[i] \in 0 .. Len(s) /\ f[i + 1] \in 0 .. Len(s) /\ a <= f[i]
    BY <1>4, <1>8, <2>1, <2>2
  <2>4. g[i] = f[i + 1] - a /\ g[i - 1] = f[i] - a
    BY <2>1
  <2>5. ASSUME NEW j \in 1 .. Len(Q[i]) PROVE t[g[i - 1] + j] = Q[i][j]
    <3>1. s[f[i] + j] = Q[i][j]
      BY <1>4, <2>1, <2>2
    <3>n. Len(s) \in Nat /\ a \in Nat
      BY <1>5
    <3>m. f[i] \in Nat
      BY <3>n, <2>3
    <3>p. f[i] \in Nat /\ Len(Q[i]) \in Nat /\ Len(s) \in Nat /\ a \in Nat /\ a <= f[i]
      BY <3>n, <3>m, <2>2, <2>3
    <3>q. f[i] + Len(Q[i]) <= Len(s)
      BY <2>2, <2>3
    <3>2. PICK u \in Nat, v \in Nat, c \in Nat, d \in Nat :
            u = f[i] /\ v = Len(Q[i]) /\ c = Len(s) /\ d = a /\ d <= u /\ u + v <= c
      BY <3>p, <3>q
    <3>3. j \in 1 .. v
      BY <3>2
    <3>a. d <= u /\ u + v <= c
      BY <3>2
    <3>4. u - d + j \in 1 .. c - d /\ d + (u - d + j) = u + j
      BY <3>3, <3>a, PlaceInPart
    <3>5. t[u - d + j] = s[d + (u - d + j)]
      BY <1>7, <3>2, <3>4
    <3>6. QED
      BY <2>4, <3>1, <3>2, <3>4, <3>5
  <2>6. g[i] = g[i - 1] + Len(Q[i])
    <3>1. PICK u \in Int, v \in Nat, c \in Int, d \in Nat :
            u = f[i] /\ v = Len(Q[i]) /\ c = f[i + 1] /\ d = a /\ c = u + v
      BY <1>5, <2>2, <2>3
    <3>a. c = u + v
      BY <3>1
    <3>2. c - d = (u - d) + v
      BY <3>a, LessBoth
    <3>3. QED
      BY <2>4, <3>1, <3>2
  <2>7. QED
    BY <2>5, <2>6
<1>11. ASSUME NEW i \in 0 .. N, NEW j \in 0 .. N, i <= j PROVE g[i] <= g[j]
  <2>1. f[i + 1] <= f[j + 1] /\ f[i + 1] \in Int /\ f[j + 1] \in Int
    BY <1>4, <1>8, <1>11, <1>2
  <2>2. QED
    BY <1>5, <2>1
<1> HIDE DEF g
<1>12. N = Len(Q)
  BY DEF N
<1>13. Ends(t, Q, g)
  BY <1>9, <1>10, <1>11, <1>12 DEF Ends
<1>14. QED
  BY <1>2, <1>5, <1>6, <1>13 DEF Cut, t, a, Q

\* Nothing carried.
LEMMA CarryNone ==
  ASSUME NEW q, NEW K, NEW F, NEW m \in Nat, NEW n \in Nat
  PROVE  /\ K = {} => Carry(q, K, F, n, n)
         /\ Carry(q, K, F, m, n) /\ n <= m => K = {}
         /\ Carry(q, K, F, m, n) /\ K = {} => n <= m
<1>1. ASSUME K = {} PROVE Places(q, K, F, n, n, [i \in n + 1 .. n |-> 0])
  BY <1>1 DEF Places
<1>2. ASSUME NEW p, Places(q, K, F, m, n, p)
      PROVE  (n <= m => K = {}) /\ (K = {} => n <= m)
  BY <1>2 DEF Places
<1>3. QED
  BY <1>1, <1>2 DEF Carry

\* An item at the end of the queue.
LEMMA CarryAppend ==
  ASSUME NEW S, NEW q \in Seq(S), NEW x \in S, NEW K \in SUBSET (1 .. Len(q)), NEW F,
         NEW m \in Nat, NEW n \in Nat, m <= n, Carry(q, K, F, m, n)
  PROVE  /\ Carry(Append(q, x), K, F, m, n)
         /\ x = F[n + 1] => Carry(Append(q, x), K \cup {Len(q) + 1}, F, m, n + 1)
<1> DEFINE r == Append(q, x)
           N == Len(q)
<1>1. PICK p : Places(q, K, F, m, n, p)
  BY DEF Carry
<1>2. /\ N \in Nat /\ r[N + 1] = x /\ \A i \in 1 .. N : r[i] = q[i]
  BY AppendProperties
<1>3. K \in SUBSET (1 .. N)
  OBVIOUS
<1> HIDE DEF r, N
<1>4. Places(r, K, F, m, n, p)
  BY <1>1, <1>2, <1>3 DEF Places
<1> DEFINE u == [i \in m + 1 .. n + 1 |-> IF i = n + 1 THEN N + 1 ELSE p[i]]
<1>5. ASSUME x = F[n + 1] PROVE Places(r, K \cup {N + 1}, F, m, n + 1, u)
  <2>0. /\ p \in [m + 1 .. n -> K]
        /\ \A i, j \in m + 1 .. n : i < j => p[i] < p[j]
        /\ \A k \in K : \E i \in m + 1 .. n : p[i] = k
        /\ \A i \in m + 1 .. n : q[p[i]] = F[i]
    BY <1>1 DEF Places
  <2>1. u \in [m + 1 .. n + 1 -> K \cup {N + 1}]
    BY <2>0
  <2>2. ASSUME NEW i \in m + 1 .. n + 1, NEW j \in m + 1 .. n + 1, i < j PROVE u[i] < u[j]
    <3>0. i \in m + 1 .. n
      BY <2>2
    <3>a. i # n + 1
      BY <3>0
    <3>b. u[i] = p[i]
      BY <3>a
    <3>c. p[i] \in K
      BY <2>0, <3>0
    <3>1. u[i] = p[i] /\ p[i] \in 1 .. N
      BY <1>3, <3>b, <3>c
    <3>2. CASE j = n + 1
      BY <1>2, <3>1, <3>2
    <3>3. CASE j # n + 1
      <4>1. j \in m + 1 .. n /\ u[j] = p[j]
        BY <3>3
      <4>2. QED
        BY <2>0, <2>2, <3>0, <3>1, <4>1
    <3>4. QED
      BY <3>2, <3>3
  <2>3. \A k \in K \cup {N + 1} : \E i \in m + 1 .. n + 1 : u[i] = k
    <3>1. ASSUME NEW k \in K PROVE \E i \in m + 1 .. n + 1 : u[i] = k
      <4>1. PICK i \in m + 1 .. n : p[i] = k
        BY <2>0
      <4>2. i \in m + 1 .. n + 1 /\ u[i] = k
        BY <4>1
      <4>3. QED
        BY <4>2
    <3>2. n + 1 \in m + 1 .. n + 1 /\ u[n + 1] = N + 1
      OBVIOUS
    <3> HIDE DEF u
    <3>3. QED
      BY <3>1, <3>2
  <2>4. \A i \in m + 1 .. n + 1 : r[u[i]] = F[i]
    <3>1. SUFFICES ASSUME NEW i \in m + 1 .. n + 1 PROVE r[u[i]] = F[i]
      OBVIOUS
    <3>2. CASE i = n + 1
      BY <3>2, <1>2, <1>5
    <3>3. CASE i # n + 1
      <4>1. i \in m + 1 .. n /\ u[i] = p[i]
        BY <3>3
      <4>2. p[i] \in 1 .. N
        BY <4>1, <2>0, <1>3
      <4>3. QED
        BY <4>1, <4>2, <2>0, <1>2
    <3>4. QED
      BY <3>2, <3>3
  <2> HIDE DEF u
  <2>5. QED
    BY <2>1, <2>2, <2>3, <2>4 DEF Places
<1>6. QED
  BY <1>4, <1>5 DEF Carry, r, N

\* The head of the queue is the next item, or none.
LEMMA CarryTail ==
  ASSUME NEW S, NEW q \in Seq(S), q # <<>>, NEW K \in SUBSET (1 .. Len(q)), NEW F,
         NEW m \in Nat, NEW n \in Nat, m <= n, Carry(q, K, F, m, n)
  PROVE  /\ 1 \in K => /\ m < n /\ Head(q) = F[m + 1]
                       /\ Carry(Tail(q), {k \in 1 .. Len(Tail(q)) : k + 1 \in K}, F, m + 1, n)
         /\ 1 \notin K =>
              Carry(Tail(q), {k \in 1 .. Len(Tail(q)) : k + 1 \in K}, F, m, n)
<1> DEFINE r == Tail(q)
           N == Len(r)
           L == {k \in 1 .. N : k + 1 \in K}
<1>1. PICK p : Places(q, K, F, m, n, p)
  BY DEF Carry
<1>2. /\ N \in Nat /\ Len(q) = N + 1 /\ q[1] = Head(q)
      /\ \A i \in 1 .. N : r[i] = q[i + 1]
  BY HeadTailProperties, EmptySeq
<1>3. /\ p \in [m + 1 .. n -> K] /\ K \subseteq 1 .. N + 1
      /\ \A i, j \in m + 1 .. n : i < j => p[i] < p[j]
      /\ \A k \in K : \E i \in m + 1 .. n : p[i] = k
      /\ \A i \in m + 1 .. n : q[p[i]] = F[i]
  BY <1>1, <1>2 DEF Places
<1> HIDE DEF r, N
<1>4. \A i \in m + 1 .. n : p[i] \in K /\ p[i] \in 1 .. N + 1
  BY <1>3
<1>5. ASSUME NEW a \in {m, m + 1}, a <= n, \A i \in a + 1 .. n : p[i] # 1,
             \A i \in m + 1 .. n : p[i] = 1 \/ i \in a + 1 .. n
      PROVE  Carry(r, L, F, a, n)
  <2> DEFINE u == [i \in a + 1 .. n |-> p[i] - 1]
  <2>0. \A i \in a + 1 .. n : i \in m + 1 .. n /\ p[i] \in 2 .. N + 1 /\ p[i] \in K
    BY <1>4, <1>5
  <2>a. \A x \in 2 .. N + 1 : x - 1 \in 1 .. N /\ (x - 1) + 1 = x
    BY <1>2
  <2>b. \A i \in a + 1 .. n : p[i] - 1 \in 1 .. N /\ (p[i] - 1) + 1 = p[i]
    BY <2>0, <2>a
  <2>1. u \in [a + 1 .. n -> L]
    BY <2>0, <2>b
  <2>2. \A i, j \in a + 1 .. n : i < j => u[i] < u[j]
    BY <2>0, <1>3
  <2>3. \A k \in L : \E i \in a + 1 .. n : u[i] = k
    <3>1. SUFFICES ASSUME NEW k \in L PROVE \E i \in a + 1 .. n : u[i] = k
      OBVIOUS
    <3>2. k \in 1 .. N /\ k + 1 \in K
      OBVIOUS
    <3>3. PICK i \in m + 1 .. n : p[i] = k + 1
      BY <1>3, <3>2
    <3>4. i \in a + 1 .. n /\ u[i] = k
      BY <1>5, <3>2, <3>3
    <3>5. QED
      BY <3>4
  <2>4. \A i \in a + 1 .. n : r[u[i]] = F[i]
    <3>1. SUFFICES ASSUME NEW i \in a + 1 .. n PROVE r[u[i]] = F[i]
      OBVIOUS
    <3>2. u[i] = p[i] - 1 /\ p[i] - 1 \in 1 .. N /\ (p[i] - 1) + 1 = p[i]
      BY <2>b
    <3>3. QED
      BY <1>2, <1>3, <2>0, <3>2
  <2> HIDE DEF u, L
  <2>5. QED
    BY <2>1, <2>2, <2>3, <2>4 DEF Places, Carry
<1>6. CASE 1 \in K
  <2>1. PICK i \in m + 1 .. n : p[i] = 1
    BY <1>3, <1>6
  <2>2. m + 1 \in m + 1 .. n /\ m < n
    OBVIOUS
  <2>3. i = m + 1
    <3>1. ~ (m + 1 < i)
      BY <1>3, <1>4, <2>1, <2>2
    <3>2. QED
      BY <3>1
  <2>4. \A j \in (m + 1) + 1 .. n : p[j] # 1
    BY <1>3, <1>4, <2>1, <2>3
  <2>5. \A j \in m + 1 .. n : p[j] = 1 \/ j \in (m + 1) + 1 .. n
    BY <2>1, <2>3
  <2>6. Carry(r, L, F, m + 1, n)
    <3>1. m + 1 \in {m, m + 1} /\ m + 1 <= n
      BY <2>2
    <3> HIDE DEF L
    <3>2. QED
      BY <1>5, <2>4, <2>5, <3>1
  <2>7. Head(q) = F[m + 1]
    BY <1>2, <1>3, <2>1, <2>3
  <2>8. QED
    BY <1>6, <2>2, <2>6, <2>7 DEF r, N
<1>7. CASE 1 \notin K
  <2>1. \A j \in m + 1 .. n : p[j] # 1
    BY <1>3, <1>7
  <2>2. Carry(r, L, F, m, n)
    <3> HIDE DEF L
    <3>1. QED
      BY <1>5, <2>1
  <2>3. QED
    BY <1>7, <2>2 DEF r, N
<1>8. QED
  BY <1>6, <1>7

-----------------------------------------------------------------------------
(* What is on its way to and from a board.                                 *)

\* The replies of a board, and the characters of each of its cores, are a
\* stream each: the replies are numbered -1 among the cores.
Replies == -1

\* The replies, and each core's characters.
Channels == {Replies} \cup Cores

\* The stream a packet of a board is of; none, for one that reports heat.
ChannelOf(bytes) ==
  IF bytes[1] = STD THEN bytes[3]
  ELSE IF bytes[1] \in {QUERY, TEMP} THEN Replies ELSE -2

\* What the program sends to the board with identity id in box b.
QueryIn(b) == <<QUERY, OffsetOf(b), EdgesOf(b)>>

\* What EnableIdle sends.
EnableIn == <<EN_IDLE, 16 * MeshYLen + MeshXLen, 0>>

\* All the program sends to a board, in order.
Commands(b, id) ==
  IF id /= Bridge
  THEN <<QueryIn(b), <<TEMP>>, <<SET_DEST, 0, BROADCAST>>, <<STD, 0>>>>
  ELSE IF b = Master THEN <<QueryIn(b), EnableIn, <<TEMP>>>>
  ELSE <<QueryIn(b), <<TEMP>>>>

\* What comes back, in a stream, and what is not of any.
HeatOut == <<OVERHEAT>>

\* The reply to a query.
Answer(id) == <<QUERY, 1 + id>>

\* What a board sends in channel ch, all told.
Stream(b, l, id, ch) ==
  IF ch /= Replies
  THEN <<<<STD, 0, ch, Text(b, l, ch)[1]>>, <<STD, 0, ch, Text(b, l, ch)[2]>>>>
  ELSE IF id = Bridge /\ b = Master THEN <<Answer(id), Answer(id), TempOut>>
  ELSE <<Answer(id), TempOut>>

\* How much of a stream the board has made, once it has done e commands.
Made(b, l, id, pr, e, ch) ==
  IF ch /= Replies THEN pr[ch]
  ELSE IF e < Len(Stream(b, l, id, Replies)) THEN e ELSE Len(Stream(b, l, id, Replies))

\* The packets F, as the connection holds them for link l.
Addressed(l, F) == [i \in 1 .. Len(F) |-> Packet(l, F[i])]

\* The places of a queue that hold packets of a link; of a channel of it.
OnLink(q, l) == {k \in 1 .. Len(q) : q[k].link = l}
OnChannel(q, l, ch) == {k \in OnLink(q, l) : ChannelOf(q[k].bytes) = ch}

\* The places of a sequence of packets that hold one of channel ch.
InChannel(P, ch) == {k \in 1 .. Len(P) : ChannelOf(P[k]) = ch}

\* The bytes between boardctrld's packets and the board's registers.
Below(bd, ua, buf) == (bd.recv \o ua.to) \o buf.out

\* And from the registers to the packets boardctrld sends.
Above(bd, ua, buf) == ((buf.in \o ua.from) \o bd.respond) \o bd.send

\* Of the n commands sent the board has done e, boardctrld has passed on m.
Down(b, l, id, up, buf, ua, bd, n, e, m) ==
  /\ e <= m /\ m <= n /\ n <= Len(Commands(b, id))
  /\ Carry(up, OnLink(up, l), Addressed(l, Commands(b, id)), m, n)
  /\ Cut(Below(bd, ua, buf), SubSeq(Commands(b, id), e + 1, m))
  /\ bd.recv /= <<>> => e < m /\ Len(bd.recv) < Len(Commands(b, id)[e + 1])

\* The registers after e commands.
Registers(b, id, bd, pr, e) ==
  /\ id /= Bridge =>
       /\ bd.offset = IF e >= 1 THEN <<OffsetOf(b)>> ELSE <<>>
       /\ bd.linkEn = IF e >= 1 THEN LinkEn(id, EdgesOf(b)) ELSE {}
       /\ bd.destCore = IF e >= 3 THEN BROADCAST ELSE 0
       /\ bd.started = IF e >= 4 THEN Cores ELSE {}
       /\ bd.idle = FALSE
       /\ e < 4 => bd.send = <<>> /\ pr = NothingPrinted
  /\ id = Bridge => bd.started = {} /\ bd.send = <<>> /\ pr = NothingPrinted

\* The packet x is of channel ch of link l.
Belongs(x, l, ch) == x.link = l /\ ChannelOf(x.bytes) = ch

\* What follows the first i items of a stream.
Item(F, i) == F[i + 1]
First(P) == P[1]
Some(q) == q # <<>>
Follows(P, F, i) == P[1] = F[i + 1]
Carries(x, F, i) == x.bytes = Item(F, i)

\* The command so far, with the byte that comes; it is not all, or it is the
\* next.
Coming(bd, ua) == Append(bd.recv, Head(ua.to))
Partly(x) == Len(x) < toDebugLinkSize(x[1])
Command(b, id, e, x) == e + 1 \in 1 .. Len(Commands(b, id)) /\ x = Commands(b, id)[e + 1]

\* Two queues as one.
Joined(s, t) == s \o t

\* The first bytes of the queue t have moved to the end of s.
Shift(s, t, s2, t2) ==
  \E k \in 0 .. Len(t) : s2 = s \o SubSeq(t, 1, k) /\ t2 = SubSeq(t, k + 1, Len(t))

\* Of one of two sequences as much as the other has.
Begins(x, s) == \A j \in 1 .. Len(x) : j <= Len(s) => x[j] = s[j]

\* Of the stream F of channel ch, the program has got i items, boardctrld has
\* sent it j, and the board has made n.
Flows(F, l, ch, down, P, i, j, n) ==
  /\ F \in Seq(Seq(Int)) /\ i \in Nat /\ j \in Nat /\ n \in Nat
  /\ i <= j /\ j <= n /\ n <= Len(F)
  /\ Carry(down, OnChannel(down, l, ch), Addressed(l, F), i, j)
  /\ Carry(P, InChannel(P, ch), F, j, n)

\* A packet of a board: whole, and of a channel unless it reports heat.
Proper(x, id) ==
  /\ x \in Seq(Int) /\ Len(x) \in Nat \ {0} /\ Len(x) = fromDebugLinkSize(x[1])
  /\ IF x[1] = OVERHEAT THEN id /= Bridge /\ x = HeatOut ELSE ChannelOf(x) \in Channels

\* The packet made of the bytes at the head of a queue.
Whole(x, l, in) == x = Packet(l, [j \in 1 .. fromDebugLinkSize(in[1]) |-> in[j]])

\* A reply never waits behind a packet half sent.
OneAtATime(bd) == bd.respond /= <<>> => bd.send = <<>> /\ Len(bd.respond) <= 2

\* Of each stream the program has got g, boardctrld has sent it a, and the
\* packets P are on their way to boardctrld.
Up(b, l, id, down, buf, ua, bd, pr, e, g, a, P) ==
  /\ pr \in [Cores -> Nat] /\ e \in Nat
  /\ g \in [Channels -> Nat] /\ a \in [Channels -> Nat] /\ P \in Seq(Seq(Int))
  /\ Cut(Above(bd, ua, buf), P)
  /\ \A ch \in Channels :
       Flows(Stream(b, l, id, ch), l, ch, down, P, g[ch], a[ch], Made(b, l, id, pr, e, ch))
  /\ \A k \in 1 .. Len(P) :
       ChannelOf(P[k]) \in Channels \/ (id /= Bridge /\ P[k] = HeatOut)
  /\ OneAtATime(bd)

\* The bytes of packet x join those on their way, and it is the next of its
\* channel.
Adds(bd, ua, buf, bd2, ua2, buf2, x) == Above(bd2, ua2, buf2) = Above(bd, ua, buf) \o x
Grows(b, l, id, pr, e, pr2, e2, x) ==
  \A ch \in Channels :
    IF ChannelOf(x) = ch
    THEN /\ Made(b, l, id, pr, e, ch) < Len(Stream(b, l, id, ch))
         /\ x = Item(Stream(b, l, id, ch), Made(b, l, id, pr, e, ch))
         /\ Made(b, l, id, pr2, e2, ch) = Made(b, l, id, pr, e, ch) + 1
    ELSE Made(b, l, id, pr2, e2, ch) = Made(b, l, id, pr, e, ch)
Sound(x, id) == ChannelOf(x) \in Channels \/ (id /= Bridge /\ x = HeatOut)

\* The same, whatever has been sent.
Rises(b, l, id, down, buf, ua, bd, pr, e, g) ==
  \E a, P : Up(b, l, id, down, buf, ua, bd, pr, e, g, a, P)

\* Packets of a connection, registers of a board, and its queues of bytes.
Packets == [link : Links, bytes : Seq(Int)]
BoardType ==
  [recv : Seq(Int), offset : Seq(Int), linkEn : SUBSET {"N", "S", "E", "W"},
   destCore : Int, respond : Seq(Int), send : Seq(Int), idle : BOOLEAN,
   started : SUBSET Cores, hot : BOOLEAN]
UartType == [to : Seq(Int), from : Seq(Int)]
BufferType == [in : Seq(Int), out : Seq(Int)]

\* What the links of a board are about.
ViewType ==
  [up : Seq(Packets), down : Seq(Packets), at : {"listen", "power", "serve", "down"},
   buf : BufferType, ua : UartType, bd : BoardType, pr : [Cores -> Nat]]

\* A board the program is connected to, which has been sent n commands, and of
\* each of whose streams the program has got g.
Live(b, l, id, v, n, g) ==
  \E e, m \in Nat : \E a, P :
    /\ Down(b, l, id, v.up, v.buf, v.ua, v.bd, n, e, m)
    /\ Registers(b, id, v.bd, v.pr, e)
    /\ Up(b, l, id, v.down, v.buf, v.ua, v.bd, v.pr, e, g, a, P)
    /\ id = Bridge /\ b = Master /\ v.at = "serve" /\ v.bd.idle => e >= 2

\* A board the program is not connected to: it may still be told what was
\* sent before, and a bridge is quiet.
Lone(b, l, id, v) ==
  \E n, e, m \in Nat :
    /\ Down(b, l, id, v.up, v.buf, v.ua, v.bd, n, e, m)
    /\ Registers(b, id, v.bd, v.pr, e)
    /\ id = Bridge => e = n /\ Above(v.bd, v.ua, v.buf) = <<>>

-----------------------------------------------------------------------------
(* Where the boards are.                                                   *)

\* The turn of a box in a loop over the boxes, and of a board in a loop over
\* the boxes and their links.
BoxRank(b) == b[1] + BoxMeshXLen * b[2]
PortRank(p) == NumLinks * BoxRank(p[1]) + p[2]

\* The turn of a place of the mesh in go's loop over the boards.
MeshRank(xy) == MeshYLen * xy[1] + xy[2]
NumBoards == MeshXLen * MeshYLen

\* The identity of a board, and the place in the mesh of a worker.
IdOf(p) == chain[p[1]][p[2]]
Home(p) == Coords(p[1], IdOf(p))

\* No two boards of a box have the same identity.
ChainOK ==
  chain \in [Boxes -> {f \in [Links -> {Bridge} \cup Identities] :
                        \A l, m \in Links : f[l] = f[m] => l = m}]

-----------------------------------------------------------------------------
(* The shape of the cluster.                                               *)

\* The places of a grid of X columns and Y rows, counted row by row.
LEMMA Grid ==
  ASSUME NEW X \in Nat \ {0}, NEW Y \in Nat \ {0}
  PROVE  /\ \A k \in 0 .. X * Y - 1 :
              /\ k % X \in 0 .. X - 1 /\ k \div X \in 0 .. Y - 1
              /\ k = (k % X) + X * (k \div X)
         /\ \A x \in 0 .. X - 1, y \in 0 .. Y - 1 :
              /\ x + X * y \in 0 .. X * Y - 1
              /\ (x + X * y) % X = x /\ (x + X * y) \div X = y
<1>1. ASSUME NEW k \in 0 .. X * Y - 1
      PROVE  /\ k % X \in 0 .. X - 1 /\ k \div X \in 0 .. Y - 1
             /\ k = (k % X) + X * (k \div X)
  <2>0. X * Y \in Nat /\ k \in Nat /\ k < X * Y
    OBVIOUS
  <2>a. ASSUME NEW n \in Nat
        PROVE  n % X \in 0 .. X - 1 /\ n \div X \in Nat /\ n = (n % X) + X * (n \div X)
    OBVIOUS
  <2>b. k % X \in 0 .. X - 1 /\ k \div X \in Nat /\ k = (k % X) + X * (k \div X)
    BY <2>0, <2>a
  <2>1. PICK r \in 0 .. X - 1, q \in Nat : r = k % X /\ q = k \div X /\ k = r + X * q
    BY <2>b
  <2>2. q < Y
    <3>1. SUFFICES ASSUME q >= Y PROVE FALSE
      BY <2>1
    <3>2. PICK d \in Nat : q = Y + d
      <4>1. q - Y \in Nat /\ q = Y + (q - Y)
        BY <2>1, <3>1
      <4>2. QED
        BY <4>1
    <3>3. X * q = X * Y + X * d /\ X * d \in Nat
      BY <3>2
    <3>4. QED
      BY <2>0, <2>1, <3>3
  <2>3. QED
    BY <2>1, <2>2
<1>2. ASSUME NEW x \in 0 .. X - 1, NEW y \in 0 .. Y - 1
      PROVE  /\ x + X * y \in 0 .. X * Y - 1
             /\ (x + X * y) % X = x /\ (x + X * y) \div X = y
  <2>1. X * y \in Nat
    OBVIOUS
  <2>2. PICK d \in Nat : Y = y + 1 + d
    <3>1. Y - y - 1 \in Nat /\ Y = y + 1 + (Y - y - 1)
      OBVIOUS
    <3>2. QED
      BY <3>1
  <2>3. X * Y = X * y + X + X * d /\ X * d \in Nat
    BY <2>2
  <2>4. x + X * y \in 0 .. X * Y - 1
    BY <2>1, <2>3
  <2>5. (x + X * y) % X = x /\ (x + X * y) \div X = y
    OBVIOUS
  <2>6. QED
    BY <2>4, <2>5
<1>3. QED
  BY <1>1, <1>2

\* Powers of two are numbers.
LEMMA ColumnsType ==
  Columns \in Nat
<1>0. MeshXBits \in Nat
  BY BoardsAssumption
<1>1. IsFiniteSet(1 .. MeshXBits) /\ Cardinality(1 .. MeshXBits) = MeshXBits
  <2>1. MeshXBits \in Int /\ 1 \in Int
        /\ (IF 1 > MeshXBits THEN 0 ELSE MeshXBits - 1 + 1) = MeshXBits
    BY <1>0
  <2>2. QED
    BY <2>1, FS_Interval
<1>2. IsFiniteSet(SUBSET (1 .. MeshXBits))
      /\ Cardinality(SUBSET (1 .. MeshXBits)) = 2 ^ Cardinality(1 .. MeshXBits)
  BY <1>1, FS_SUBSET
<1>3. Cardinality(SUBSET (1 .. MeshXBits)) \in Nat
  BY <1>2, FS_CardinalityType
<1>4. QED
  BY <1>1, <1>2, <1>3 DEF Columns

\* The dimensions of the cluster are numbers, and none of them is zero.
LEMMA Shape ==
  /\ BoxMeshXLen \in Nat \ {0} /\ BoxMeshYLen \in Nat \ {0}
  /\ MeshXLenInBox \in Nat \ {0} /\ MeshYLenInBox \in Nat \ {0}
  /\ NumCores \in Nat \ {0} /\ UartBytes \in Nat \ {0}
  /\ Columns \in Nat \ {0} /\ MeshXLenInBox <= Columns
  /\ WorkersPerBox \in Nat \ {0} /\ NumLinks \in Nat \ {0} /\ NumBoxes \in Nat \ {0}
  /\ MeshXLen \in Nat \ {0} /\ MeshYLen \in Nat \ {0} /\ NumBoards \in Nat \ {0}
<1>1. /\ BoxMeshXLen \in Nat \ {0} /\ BoxMeshYLen \in Nat \ {0}
      /\ MeshXLenInBox \in Nat \ {0} /\ MeshYLenInBox \in Nat \ {0}
      /\ NumCores \in Nat \ {0} /\ UartBytes \in Nat \ {0}
  BY BoardsAssumption
<1>2. Columns \in Nat /\ MeshXLenInBox <= Columns
  BY ColumnsType, BoardsAssumption DEF Columns
<1>3. \A x, y \in Nat \ {0} : x * y \in Nat \ {0}
  OBVIOUS
<1>4. WorkersPerBox \in Nat \ {0} /\ NumBoxes \in Nat \ {0}
  BY <1>1, <1>3 DEF WorkersPerBox, NumBoxes
<1>5. MeshXLen \in Nat \ {0} /\ MeshYLen \in Nat \ {0}
  BY <1>1, <1>3 DEF MeshXLen, MeshYLen
<1>6. NumBoards \in Nat \ {0}
  BY <1>3, <1>5 DEF NumBoards
<1>7. QED
  BY <1>1, <1>2, <1>4, <1>5, <1>6 DEF NumLinks

\* Boxes, links and places of the mesh, and how many there are.
LEMMA Counts ==
  /\ IsFiniteSet(Boxes) /\ Cardinality(Boxes) = NumBoxes
  /\ IsFiniteSet(Mesh) /\ Cardinality(Mesh) = NumBoards
  /\ IsFiniteSet(Links) /\ Cardinality(Links) = NumLinks
  /\ Master \in Boxes /\ 0 \in Links
<1>1. \A n \in Nat \ {0} : IsFiniteSet(0 .. n - 1) /\ Cardinality(0 .. n - 1) = n
  <2>1. SUFFICES ASSUME NEW n \in Nat \ {0}
                 PROVE  IsFiniteSet(0 .. n - 1) /\ Cardinality(0 .. n - 1) = n
    OBVIOUS
  <2>2. n - 1 \in Int /\ ~ (0 > n - 1) /\ (n - 1) - 0 + 1 = n
    OBVIOUS
  <2>3. QED
    BY <2>2, FS_Interval
<1>2. ASSUME NEW n \in Nat \ {0}, NEW k \in Nat \ {0}
      PROVE  /\ IsFiniteSet((0 .. n - 1) \X (0 .. k - 1))
             /\ Cardinality((0 .. n - 1) \X (0 .. k - 1)) = n * k
  <2> DEFINE S == 0 .. n - 1
             T == 0 .. k - 1
  <2>2. IsFiniteSet(S) /\ Cardinality(S) = n /\ IsFiniteSet(T) /\ Cardinality(T) = k
    BY <1>1
  <2> HIDE DEF S, T
  <2>3. IsFiniteSet(S \X T) /\ Cardinality(S \X T) = Cardinality(S) * Cardinality(T)
    BY <2>2, FS_Product
  <2>4. IsFiniteSet(S \X T) /\ Cardinality(S \X T) = n * k
    BY <2>2, <2>3
  <2>5. QED
    BY <2>4 DEF S, T
<1>3. IsFiniteSet(Boxes) /\ Cardinality(Boxes) = NumBoxes
  BY <1>2, Shape DEF Boxes, NumBoxes
<1>4. IsFiniteSet(Mesh) /\ Cardinality(Mesh) = NumBoards
  BY <1>2, Shape DEF Mesh, NumBoards
<1>5. IsFiniteSet(Links) /\ Cardinality(Links) = NumLinks /\ 0 \in Links
  <2>1. WorkersPerBox \in Int /\ ~ (0 > WorkersPerBox)
        /\ WorkersPerBox - 0 + 1 = WorkersPerBox + 1 /\ 0 \in 0 .. WorkersPerBox
    BY Shape
  <2>2. QED
    BY <2>1, FS_Interval DEF Links, NumLinks
<1>6. Master \in Boxes
  BY Shape DEF Master, Boxes
<1>7. QED
  BY <1>3, <1>4, <1>5, <1>6

\* The loops pass every box, every port and every place once.
LEMMA BoxRanks ==
  /\ \A k \in 0 .. NumBoxes - 1 : BoxAt(k) \in Boxes /\ BoxRank(BoxAt(k)) = k
  /\ \A b \in Boxes : BoxRank(b) \in 0 .. NumBoxes - 1 /\ BoxAt(BoxRank(b)) = b
<1>1. ASSUME NEW k \in 0 .. NumBoxes - 1
      PROVE  BoxAt(k) \in Boxes /\ BoxRank(BoxAt(k)) = k
  <2>1. /\ k % BoxMeshXLen \in 0 .. BoxMeshXLen - 1
        /\ k \div BoxMeshXLen \in 0 .. BoxMeshYLen - 1
        /\ k = (k % BoxMeshXLen) + BoxMeshXLen * (k \div BoxMeshXLen)
    BY Grid, Shape DEF NumBoxes
  <2>2. QED
    BY <2>1 DEF BoxAt, BoxRank, Boxes
<1>2. ASSUME NEW b \in Boxes
      PROVE  BoxRank(b) \in 0 .. NumBoxes - 1 /\ BoxAt(BoxRank(b)) = b
  <2>1. b = <<b[1], b[2]>> /\ b[1] \in 0 .. BoxMeshXLen - 1 /\ b[2] \in 0 .. BoxMeshYLen - 1
    BY DEF Boxes
  <2>2. /\ b[1] + BoxMeshXLen * b[2] \in 0 .. NumBoxes - 1
        /\ (b[1] + BoxMeshXLen * b[2]) % BoxMeshXLen = b[1]
        /\ (b[1] + BoxMeshXLen * b[2]) \div BoxMeshXLen = b[2]
    BY <2>1, Grid, Shape DEF NumBoxes
  <2>3. QED
    BY <2>1, <2>2 DEF BoxAt, BoxRank
<1>3. QED
  BY <1>1, <1>2

\* A loop over boxes and links passes every board once, in the order of PortRank.
LEMMA PortRanks ==
  /\ \A k \in 0 .. NumBoxes * NumLinks - 1 :
       /\ <<BoxAt(k \div NumLinks), k % NumLinks>> \in Ports
       /\ PortRank(<<BoxAt(k \div NumLinks), k % NumLinks>>) = k
       /\ BoxRank(BoxAt(k \div NumLinks)) = k \div NumLinks
       /\ k % NumLinks \in 0 .. NumLinks - 1 /\ k \div NumLinks \in 0 .. NumBoxes - 1
       /\ k = (k % NumLinks) + NumLinks * (k \div NumLinks)
  /\ \A p \in Ports :
       /\ PortRank(p) \in 0 .. NumBoxes * NumLinks - 1
       /\ p = <<BoxAt(PortRank(p) \div NumLinks), PortRank(p) % NumLinks>>
<1>0. NumBoxes * NumLinks = NumLinks * NumBoxes /\ Links = 0 .. NumLinks - 1
  BY Shape DEF NumLinks, Links
<1>1. ASSUME NEW k \in 0 .. NumBoxes * NumLinks - 1
      PROVE  /\ <<BoxAt(k \div NumLinks), k % NumLinks>> \in Ports
             /\ PortRank(<<BoxAt(k \div NumLinks), k % NumLinks>>) = k
             /\ BoxRank(BoxAt(k \div NumLinks)) = k \div NumLinks
             /\ k % NumLinks \in 0 .. NumLinks - 1 /\ k \div NumLinks \in 0 .. NumBoxes - 1
             /\ k = (k % NumLinks) + NumLinks * (k \div NumLinks)
  <2>1. /\ k % NumLinks \in 0 .. NumLinks - 1 /\ k \div NumLinks \in 0 .. NumBoxes - 1
        /\ k = (k % NumLinks) + NumLinks * (k \div NumLinks)
    BY <1>0, Grid, Shape
  <2>2. BoxAt(k \div NumLinks) \in Boxes /\ BoxRank(BoxAt(k \div NumLinks)) = k \div NumLinks
    BY <2>1, BoxRanks
  <2>3. <<BoxAt(k \div NumLinks), k % NumLinks>> \in Ports
    BY <1>0, <2>1, <2>2 DEF Ports
  <2>4. PICK r \in Int, q \in Int : r = k % NumLinks /\ q = k \div NumLinks
    BY <2>1
  <2>5. NumLinks * q + r = r + NumLinks * q
    BY <2>4, Shape
  <2>6. PortRank(<<BoxAt(q), r>>) = NumLinks * q + r
    BY <2>2, <2>4 DEF PortRank
  <2>7. QED
    BY <2>1, <2>2, <2>3, <2>4, <2>5, <2>6
<1>2. ASSUME NEW p \in Ports
      PROVE  /\ PortRank(p) \in 0 .. NumBoxes * NumLinks - 1
             /\ p = <<BoxAt(PortRank(p) \div NumLinks), PortRank(p) % NumLinks>>
  <2>1. p = <<p[1], p[2]>> /\ p[1] \in Boxes /\ p[2] \in 0 .. NumLinks - 1
    BY <1>0 DEF Ports
  <2>2. PICK q \in 0 .. NumBoxes - 1, r \in 0 .. NumLinks - 1 :
          q = BoxRank(p[1]) /\ r = p[2] /\ BoxAt(q) = p[1]
    BY <2>1, BoxRanks
  <2>3. /\ r + NumLinks * q \in 0 .. NumLinks * NumBoxes - 1
        /\ (r + NumLinks * q) % NumLinks = r /\ (r + NumLinks * q) \div NumLinks = q
    BY Grid, Shape
  <2>4. NumLinks * q + r = r + NumLinks * q
    BY Shape
  <2>5. PortRank(p) = r + NumLinks * q
    BY <2>2, <2>4 DEF PortRank
  <2>6. QED
    BY <1>0, <2>1, <2>2, <2>3, <2>5
<1>3. QED
  BY <1>1, <1>2

\* The loops over the boards in go pass every place once.
LEMMA MeshRanks ==
  /\ \A k \in 0 .. NumBoards - 1 : BoardAt(k) \in Mesh /\ MeshRank(BoardAt(k)) = k
  /\ \A xy \in Mesh : MeshRank(xy) \in 0 .. NumBoards - 1 /\ BoardAt(MeshRank(xy)) = xy
<1>0. NumBoards = MeshYLen * MeshXLen
  BY Shape DEF NumBoards
<1>1. ASSUME NEW k \in 0 .. NumBoards - 1
      PROVE  BoardAt(k) \in Mesh /\ MeshRank(BoardAt(k)) = k
  <2>1. PICK r \in 0 .. MeshYLen - 1, q \in 0 .. MeshXLen - 1 :
          r = k % MeshYLen /\ q = k \div MeshYLen /\ k = r + MeshYLen * q
    <3>1. /\ k % MeshYLen \in 0 .. MeshYLen - 1 /\ k \div MeshYLen \in 0 .. MeshXLen - 1
          /\ k = (k % MeshYLen) + MeshYLen * (k \div MeshYLen)
      BY <1>0, Grid, Shape
    <3>2. QED
      BY <3>1
  <2>2. MeshYLen * q + r = r + MeshYLen * q
    BY Shape
  <2>3. QED
    BY <2>1, <2>2 DEF BoardAt, MeshRank, Mesh
<1>2. ASSUME NEW xy \in Mesh
      PROVE  MeshRank(xy) \in 0 .. NumBoards - 1 /\ BoardAt(MeshRank(xy)) = xy
  <2>1. PICK q \in 0 .. MeshXLen - 1, r \in 0 .. MeshYLen - 1 : xy = <<q, r>>
    BY DEF Mesh
  <2>2. /\ r + MeshYLen * q \in 0 .. NumBoards - 1
        /\ (r + MeshYLen * q) % MeshYLen = r /\ (r + MeshYLen * q) \div MeshYLen = q
    BY <1>0, Grid, Shape
  <2>3. MeshYLen * q + r = r + MeshYLen * q
    BY Shape
  <2>4. QED
    BY <2>1, <2>2, <2>3 DEF BoardAt, MeshRank
<1>3. QED
  BY <1>1, <1>2

-----------------------------------------------------------------------------
(* The boards of a box, and their places in the mesh.                      *)

\* An identity is a row and a column of the box.
LEMMA IdentityShape ==
  /\ \A id \in Identities :
       /\ id \in Nat /\ id # Bridge
       /\ id % Columns \in 0 .. MeshXLenInBox - 1
       /\ id \div Columns \in 0 .. MeshYLenInBox - 1
       /\ id = (id % Columns) + Columns * (id \div Columns)
  /\ \A x \in 0 .. MeshXLenInBox - 1, y \in 0 .. MeshYLenInBox - 1 :
       /\ Columns * y + x \in Identities
       /\ (Columns * y + x) % Columns = x /\ (Columns * y + x) \div Columns = y
<1>1. ASSUME NEW x \in 0 .. MeshXLenInBox - 1, NEW y \in 0 .. MeshYLenInBox - 1
      PROVE  /\ Columns * y + x \in Identities /\ Columns * y + x \in Nat
             /\ (Columns * y + x) % Columns = x /\ (Columns * y + x) \div Columns = y
             /\ Columns * y + x = x + Columns * y
  <2>1. x \in 0 .. Columns - 1
    BY Shape
  <2>2. Columns * y + x = x + Columns * y
    BY Shape
  <2>3. /\ x + Columns * y \in 0 .. Columns * MeshYLenInBox - 1
        /\ (x + Columns * y) % Columns = x /\ (x + Columns * y) \div Columns = y
    BY <2>1, Grid, Shape
  <2>4. Columns * y + x \in Identities
    BY DEF Identities
  <2>5. QED
    BY <2>2, <2>3, <2>4
<1>2. ASSUME NEW id \in Identities
      PROVE  /\ id \in Nat /\ id # Bridge
             /\ id % Columns \in 0 .. MeshXLenInBox - 1
             /\ id \div Columns \in 0 .. MeshYLenInBox - 1
             /\ id = (id % Columns) + Columns * (id \div Columns)
  <2>1. PICK x \in 0 .. MeshXLenInBox - 1, y \in 0 .. MeshYLenInBox - 1 : id = Columns * y + x
    BY DEF Identities
  <2>2. id \in Nat /\ id % Columns = x /\ id \div Columns = y /\ id = x + Columns * y
    BY <1>1, <2>1
  <2>3. id # Bridge
    BY <2>2 DEF Bridge
  <2>4. QED
    BY <2>2, <2>3
<1>3. QED
  BY <1>1, <1>2

\* As many boards as links.
LEMMA BoardCount ==
  /\ IsFiniteSet({Bridge} \cup Identities)
  /\ Cardinality({Bridge} \cup Identities) = NumLinks
<1> DEFINE G == (0 .. MeshXLenInBox - 1) \X (0 .. MeshYLenInBox - 1)
           f == [p \in G |-> Columns * p[2] + p[1]]
<1>1. IsFiniteSet(G) /\ Cardinality(G) = WorkersPerBox
  <2>1. \A n \in Nat \ {0} : IsFiniteSet(0 .. n - 1) /\ Cardinality(0 .. n - 1) = n
    <3>1. SUFFICES ASSUME NEW n \in Nat \ {0}
                   PROVE  IsFiniteSet(0 .. n - 1) /\ Cardinality(0 .. n - 1) = n
      OBVIOUS
    <3>2. n - 1 \in Int /\ ~ (0 > n - 1) /\ (n - 1) - 0 + 1 = n
      OBVIOUS
    <3>3. QED
      BY <3>2, FS_Interval
  <2> DEFINE S == 0 .. MeshXLenInBox - 1
             T == 0 .. MeshYLenInBox - 1
  <2>2. /\ IsFiniteSet(S) /\ Cardinality(S) = MeshXLenInBox
        /\ IsFiniteSet(T) /\ Cardinality(T) = MeshYLenInBox
    BY <2>1, Shape
  <2> HIDE DEF S, T
  <2>3. IsFiniteSet(S \X T) /\ Cardinality(S \X T) = Cardinality(S) * Cardinality(T)
    BY <2>2, FS_Product
  <2>4. QED
    BY <2>2, <2>3 DEF S, T, WorkersPerBox
<1>2. f \in Bijection(G, Identities)
  <2>1. f \in [G -> Identities]
    <3>1. \A p \in G : Columns * p[2] + p[1] \in Identities
      BY IdentityShape
    <3>2. QED
      BY <3>1
  <2>2. \A p, q \in G : f[p] = f[q] => p = q
    <3>1. SUFFICES ASSUME NEW p \in G, NEW q \in G, f[p] = f[q] PROVE p = q
      OBVIOUS
    <3>2. Columns * p[2] + p[1] = Columns * q[2] + q[1]
      BY <3>1
    <3>3. p[1] = q[1] /\ p[2] = q[2]
      <4>1. (Columns * p[2] + p[1]) % Columns = p[1] /\ (Columns * p[2] + p[1]) \div Columns = p[2]
        BY IdentityShape
      <4>2. (Columns * q[2] + q[1]) % Columns = q[1] /\ (Columns * q[2] + q[1]) \div Columns = q[2]
        BY IdentityShape
      <4>3. QED
        BY <3>2, <4>1, <4>2
    <3>4. p = <<p[1], p[2]>> /\ q = <<q[1], q[2]>>
      OBVIOUS
    <3>5. QED
      BY <3>3, <3>4
  <2>3. \A id \in Identities : \E p \in G : f[p] = id
    <3>1. SUFFICES ASSUME NEW id \in Identities PROVE \E p \in G : f[p] = id
      OBVIOUS
    <3>2. PICK x \in 0 .. MeshXLenInBox - 1, y \in 0 .. MeshYLenInBox - 1 :
            id = Columns * y + x
      BY DEF Identities
    <3>3. <<x, y>> \in G /\ f[<<x, y>>] = id
      BY <3>2
    <3>4. QED
      BY <3>3
  <2> HIDE DEF f, G
  <2>4. QED
    BY <2>1, <2>2, <2>3, Fun_IsBij
<1>3. IsFiniteSet(Identities) /\ Cardinality(Identities) = WorkersPerBox
  <2>1. ExistsBijection(G, Identities)
    BY <1>2 DEF ExistsBijection
  <2> HIDE DEF f, G
  <2>2. QED
    BY <1>1, <2>1, FS_Bijection
<1>4. Bridge \notin Identities
  BY IdentityShape
<1>5. IsFiniteSet(Identities \cup {Bridge})
      /\ Cardinality(Identities \cup {Bridge}) = Cardinality(Identities) + 1
  BY <1>3, <1>4, FS_AddElement
<1>6. {Bridge} \cup Identities = Identities \cup {Bridge}
  OBVIOUS
<1>7. QED
  BY <1>3, <1>5, <1>6 DEF NumLinks

\* Every board of a box is on just one of its links.
LEMMA ChainShape ==
  ASSUME ChainOK, NEW b \in Boxes
  PROVE  /\ \A l \in Links : chain[b][l] \in {Bridge} \cup Identities
         /\ \A l, m \in Links : chain[b][l] = chain[b][m] => l = m
         /\ \A id \in {Bridge} \cup Identities : \E l \in Links : chain[b][l] = id
<1> DEFINE T == {Bridge} \cup Identities
           f == chain[b]
<1>1. f \in [Links -> T] /\ \A l, m \in Links : f[l] = f[m] => l = m
  BY DEF ChainOK
<1>2. IsFiniteSet(T) /\ Cardinality(Links) = Cardinality(T)
  BY BoardCount, Counts
<1> HIDE DEF T, f
<1>3. f \in Injection(Links, T)
  BY <1>1, Fun_IsInj
<1>4. f \in Surjection(Links, T)
  BY <1>2, <1>3, FS_Injection
<1>5. \A id \in T : \E l \in Links : f[l] = id
  BY <1>4 DEF Surjection
<1>6. QED
  BY <1>1, <1>5 DEF T, f

\* Every place of the mesh is the home of one worker.
LEMMA HomeShape ==
  ASSUME ChainOK
  PROVE  /\ \A p \in Ports : IdOf(p) # Bridge => IdOf(p) \in Identities /\ Home(p) \in Mesh
         /\ \A p, q \in Ports : IdOf(p) # Bridge /\ IdOf(q) # Bridge /\ Home(p) = Home(q)
              => p = q
         /\ \A xy \in Mesh : \E p \in Ports : IdOf(p) # Bridge /\ Home(p) = xy
<1>0. /\ MeshXLen = MeshXLenInBox * BoxMeshXLen /\ MeshYLen = MeshYLenInBox * BoxMeshYLen
      /\ \A a, n \in Int : a * n = n * a
  BY DEF MeshXLen, MeshYLen
<1>1. ASSUME NEW p \in Ports, IdOf(p) # Bridge
      PROVE  /\ IdOf(p) \in Identities
             /\ Home(p) = <<(IdOf(p) % Columns) + MeshXLenInBox * p[1][1],
                            (IdOf(p) \div Columns) + MeshYLenInBox * p[1][2]>>
             /\ p[1] = <<p[1][1], p[1][2]>> /\ p = <<p[1], p[2]>>
             /\ p[1][1] \in 0 .. BoxMeshXLen - 1 /\ p[1][2] \in 0 .. BoxMeshYLen - 1
             /\ IdOf(p) % Columns \in 0 .. MeshXLenInBox - 1
             /\ IdOf(p) \div Columns \in 0 .. MeshYLenInBox - 1
             /\ IdOf(p) = (IdOf(p) % Columns) + Columns * (IdOf(p) \div Columns)
  <2>1. p[1] \in Boxes /\ p[2] \in Links /\ p = <<p[1], p[2]>>
    BY DEF Ports
  <2>2. IdOf(p) \in Identities
    BY <1>1, <2>1, ChainShape DEF IdOf
  <2>3. /\ p[1] = <<p[1][1], p[1][2]>>
        /\ p[1][1] \in 0 .. BoxMeshXLen - 1 /\ p[1][2] \in 0 .. BoxMeshYLen - 1
    BY <2>1 DEF Boxes
  <2>4. /\ IdOf(p) % Columns \in 0 .. MeshXLenInBox - 1
        /\ IdOf(p) \div Columns \in 0 .. MeshYLenInBox - 1
        /\ IdOf(p) = (IdOf(p) % Columns) + Columns * (IdOf(p) \div Columns)
    BY <2>2, IdentityShape
  <2>5. \A a, n, c \in Int : a * n + c = c + n * a
    BY <1>0
  <2>6. /\ p[1][1] \in Int /\ p[1][2] \in Int /\ IdOf(p) % Columns \in Int
        /\ IdOf(p) \div Columns \in Int /\ MeshXLenInBox \in Int /\ MeshYLenInBox \in Int
    BY <2>3, <2>4, Shape
  <2>7. Home(p) = <<(IdOf(p) % Columns) + MeshXLenInBox * p[1][1],
                    (IdOf(p) \div Columns) + MeshYLenInBox * p[1][2]>>
    BY <2>5, <2>6 DEF Home, Coords
  <2>8. QED
    BY <2>1, <2>2, <2>3, <2>4, <2>7
<1>2. ASSUME NEW p \in Ports, IdOf(p) # Bridge
      PROVE  /\ Home(p) \in Mesh
             /\ Home(p)[1] % MeshXLenInBox = IdOf(p) % Columns
             /\ Home(p)[1] \div MeshXLenInBox = p[1][1]
             /\ Home(p)[2] % MeshYLenInBox = IdOf(p) \div Columns
             /\ Home(p)[2] \div MeshYLenInBox = p[1][2]
  <2>1. PICK x \in 0 .. MeshXLenInBox - 1, y \in 0 .. MeshYLenInBox - 1,
             i \in 0 .. BoxMeshXLen - 1, j \in 0 .. BoxMeshYLen - 1 :
          /\ x = IdOf(p) % Columns /\ y = IdOf(p) \div Columns
          /\ i = p[1][1] /\ j = p[1][2]
          /\ Home(p) = <<x + MeshXLenInBox * i, y + MeshYLenInBox * j>>
    BY <1>1, <1>2
  <2>2. /\ x + MeshXLenInBox * i \in 0 .. MeshXLen - 1
        /\ (x + MeshXLenInBox * i) % MeshXLenInBox = x
        /\ (x + MeshXLenInBox * i) \div MeshXLenInBox = i
    BY <1>0, Grid, Shape
  <2>3. /\ y + MeshYLenInBox * j \in 0 .. MeshYLen - 1
        /\ (y + MeshYLenInBox * j) % MeshYLenInBox = y
        /\ (y + MeshYLenInBox * j) \div MeshYLenInBox = j
    BY <1>0, Grid, Shape
  <2>4. QED
    BY <2>1, <2>2, <2>3 DEF Mesh
<1>3. ASSUME NEW p \in Ports, NEW q \in Ports, IdOf(p) # Bridge, IdOf(q) # Bridge,
             Home(p) = Home(q)
      PROVE  p = q
  <2>1. /\ IdOf(p) % Columns = IdOf(q) % Columns /\ IdOf(p) \div Columns = IdOf(q) \div Columns
        /\ p[1][1] = q[1][1] /\ p[1][2] = q[1][2]
    <3>1. /\ Home(p)[1] % MeshXLenInBox = IdOf(p) % Columns
          /\ Home(p)[1] \div MeshXLenInBox = p[1][1]
          /\ Home(p)[2] % MeshYLenInBox = IdOf(p) \div Columns
          /\ Home(p)[2] \div MeshYLenInBox = p[1][2]
      BY <1>2, <1>3
    <3>2. /\ Home(q)[1] % MeshXLenInBox = IdOf(q) % Columns
          /\ Home(q)[1] \div MeshXLenInBox = q[1][1]
          /\ Home(q)[2] % MeshYLenInBox = IdOf(q) \div Columns
          /\ Home(q)[2] \div MeshYLenInBox = q[1][2]
      BY <1>2, <1>3
    <3>3. QED
      BY <1>3, <3>1, <3>2
  <2>2. p[1] = q[1]
    BY <1>1, <1>3, <2>1
  <2>3. IdOf(p) = IdOf(q)
    <3>1. IdOf(p) = (IdOf(p) % Columns) + Columns * (IdOf(p) \div Columns)
      BY <1>1, <1>3
    <3>2. IdOf(q) = (IdOf(q) % Columns) + Columns * (IdOf(q) \div Columns)
      BY <1>1, <1>3
    <3>3. QED
      BY <2>1, <3>1, <3>2
  <2>4. p[1] \in Boxes /\ p[2] \in Links /\ q[2] \in Links
    BY DEF Ports
  <2>5. p[2] = q[2]
    BY <2>2, <2>3, <2>4, ChainShape DEF IdOf
  <2>6. QED
    BY <1>1, <1>3, <2>2, <2>5
<1>4. ASSUME NEW xy \in Mesh
      PROVE  \E p \in Ports : IdOf(p) # Bridge /\ Home(p) = xy
  <2>1. PICK u \in 0 .. MeshXLen - 1, v \in 0 .. MeshYLen - 1 : xy = <<u, v>>
    BY DEF Mesh
  <2>2. PICK x \in 0 .. MeshXLenInBox - 1, i \in 0 .. BoxMeshXLen - 1 :
          u = x + MeshXLenInBox * i
    <3>1. u \in 0 .. MeshXLenInBox * BoxMeshXLen - 1
      BY <1>0
    <3>2. /\ u % MeshXLenInBox \in 0 .. MeshXLenInBox - 1
          /\ u \div MeshXLenInBox \in 0 .. BoxMeshXLen - 1
          /\ u = (u % MeshXLenInBox) + MeshXLenInBox * (u \div MeshXLenInBox)
      BY <3>1, Grid, Shape
    <3>3. QED
      BY <3>2
  <2>3. PICK y \in 0 .. MeshYLenInBox - 1, j \in 0 .. BoxMeshYLen - 1 :
          v = y + MeshYLenInBox * j
    <3>1. v \in 0 .. MeshYLenInBox * BoxMeshYLen - 1
      BY <1>0
    <3>2. /\ v % MeshYLenInBox \in 0 .. MeshYLenInBox - 1
          /\ v \div MeshYLenInBox \in 0 .. BoxMeshYLen - 1
          /\ v = (v % MeshYLenInBox) + MeshYLenInBox * (v \div MeshYLenInBox)
      BY <3>1, Grid, Shape
    <3>3. QED
      BY <3>2
  <2> DEFINE b == <<i, j>>
             id == Columns * y + x
  <2>4. b \in Boxes /\ id \in Identities /\ id % Columns = x /\ id \div Columns = y
        /\ id # Bridge
    BY IdentityShape DEF Boxes
  <2>5. PICK l \in Links : chain[b][l] = id
    BY <2>4, ChainShape
  <2>6. <<b, l>> \in Ports /\ IdOf(<<b, l>>) = id
    BY <2>4, <2>5 DEF Ports, IdOf
  <2>7. IdOf(<<b, l>>) # Bridge
    BY <2>4, <2>6
  <2>8. Home(<<b, l>>) = <<x + MeshXLenInBox * i, y + MeshYLenInBox * j>>
    BY <1>1, <2>4, <2>6, <2>7
  <2>9. Home(<<b, l>>) = xy
    BY <2>1, <2>2, <2>3, <2>8
  <2>10. QED
    BY <2>6, <2>7, <2>9
<1>5. QED
  BY <1>1, <1>2, <1>3, <1>4

-----------------------------------------------------------------------------
(* Commands, replies and characters.                                       *)

\* The sizes of the commands and of the replies.
LEMMA Codes ==
  /\ toDebugLinkSize(QUERY) = 3 /\ toDebugLinkSize(EN_IDLE) = 3
  /\ toDebugLinkSize(SET_DEST) = 3 /\ toDebugLinkSize(STD) = 2 /\ toDebugLinkSize(TEMP) = 1
  /\ fromDebugLinkSize(QUERY) = 2 /\ fromDebugLinkSize(TEMP) = 2
  /\ fromDebugLinkSize(STD) = 4 /\ fromDebugLinkSize(OVERHEAT) = 1
  /\ fromDebugLinkSize(READY) = 1
BY DEF toDebugLinkSize, fromDebugLinkSize, QUERY, EN_IDLE, SET_DEST, STD, TEMP, OVERHEAT, READY

\* What a box is told are numbers.
LEMMA BoxNumbers ==
  ASSUME NEW b \in Boxes
  PROVE  /\ b = <<b[1], b[2]>> /\ b[1] \in Nat /\ b[2] \in Nat
         /\ b[1] <= BoxMeshXLen - 1 /\ b[2] <= BoxMeshYLen - 1
         /\ OffsetOf(b) \in Nat /\ EdgesOf(b) \in 0 .. 7
         /\ 16 * MeshYLen + MeshXLen \in Nat
<1>1. /\ b = <<b[1], b[2]>> /\ b[1] \in Nat /\ b[2] \in Nat
      /\ b[1] <= BoxMeshXLen - 1 /\ b[2] <= BoxMeshYLen - 1
  BY Shape DEF Boxes
<1>2. \A x, y \in Nat : x * y \in Nat /\ x + y \in Nat /\ 16 * x \in Nat
  OBVIOUS
<1>3. OffsetOf(b) \in Nat
  BY <1>1, <1>2, Shape DEF OffsetOf
<1>4. EdgesOf(b) \in 0 .. 7
  BY DEF EdgesOf
<1>5. 16 * MeshYLen + MeshXLen \in Nat
  BY <1>2, Shape
<1>6. QED
  BY <1>1, <1>3, <1>4, <1>5

\* A command is as long as its code says.
LEMMA CommandShape ==
  ASSUME NEW b \in Boxes, NEW id
  PROVE  /\ Commands(b, id) \in Seq(Seq(Int))
         /\ Len(Commands(b, id)) =
              IF id # Bridge THEN 4 ELSE IF b = Master THEN 3 ELSE 2
         /\ \A i \in 1 .. Len(Commands(b, id)) :
              /\ Commands(b, id)[i] \in Seq(Int) /\ Len(Commands(b, id)[i]) >= 1
              /\ Len(Commands(b, id)[i]) = toDebugLinkSize(Commands(b, id)[i][1])
<1> DEFINE C == Commands(b, id)
           Good(x) == /\ x \in Seq(Int) /\ Len(x) >= 1
                      /\ Len(x) = toDebugLinkSize(x[1])
<1>1. Good(QueryIn(b))
  BY BoxNumbers, Codes DEF QueryIn, QUERY
<1>2. Good(EnableIn)
  BY BoxNumbers, Codes DEF EnableIn, EN_IDLE
<1>3. Good(<<TEMP>>)
  BY Codes DEF TEMP
<1>4. Good(<<SET_DEST, 0, BROADCAST>>)
  BY Codes DEF SET_DEST, BROADCAST
<1>5. Good(<<STD, 0>>)
  BY Codes DEF STD
<1>6. CASE id # Bridge
  <2>1. C = <<QueryIn(b), <<TEMP>>, <<SET_DEST, 0, BROADCAST>>, <<STD, 0>>>>
    BY <1>6 DEF Commands
  <2>2. Len(C) = 4 /\ \A i \in 1 .. 4 : Good(C[i])
    <3> HIDE DEF Good
    <3>1. QED
      BY <2>1, <1>1, <1>3, <1>4, <1>5
  <2>3. C \in Seq(Seq(Int))
    BY <2>1, <1>1, <1>3, <1>4, <1>5
  <2>4. QED
    BY <2>2, <2>3, <1>6
<1>7. CASE id = Bridge /\ b = Master
  <2>1. C = <<QueryIn(b), EnableIn, <<TEMP>>>>
    BY <1>7 DEF Commands
  <2>2. Len(C) = 3 /\ \A i \in 1 .. 3 : Good(C[i])
    <3> HIDE DEF Good
    <3>1. QED
      BY <2>1, <1>1, <1>2, <1>3
  <2>3. C \in Seq(Seq(Int))
    BY <2>1, <1>1, <1>2, <1>3
  <2>4. QED
    BY <2>2, <2>3, <1>7
<1>8. CASE id = Bridge /\ b # Master
  <2>1. C = <<QueryIn(b), <<TEMP>>>>
    BY <1>8 DEF Commands
  <2>2. Len(C) = 2 /\ \A i \in 1 .. 2 : Good(C[i])
    <3> HIDE DEF Good
    <3>1. QED
      BY <2>1, <1>1, <1>3
  <2>3. C \in Seq(Seq(Int))
    BY <2>1, <1>1, <1>3
  <2>4. QED
    BY <2>2, <2>3, <1>8
<1>9. QED
  BY <1>6, <1>7, <1>8

\* The items of a stream say which stream they are of, and how long they are.
LEMMA StreamShape ==
  ASSUME NEW b \in Boxes, NEW l, NEW id \in {Bridge} \cup Identities, NEW ch \in Channels
  PROVE  /\ Stream(b, l, id, ch) \in Seq(Seq(Int))
         /\ Len(Stream(b, l, id, ch)) =
              IF ch = Replies /\ id = Bridge /\ b = Master THEN 3 ELSE 2
         /\ \A i \in 1 .. Len(Stream(b, l, id, ch)) :
              /\ Stream(b, l, id, ch)[i] \in Seq(Int)
              /\ Stream(b, l, id, ch)[i][1] \in {QUERY, TEMP, STD}
              /\ Len(Stream(b, l, id, ch)[i]) =
                   fromDebugLinkSize(Stream(b, l, id, ch)[i][1])
              /\ ChannelOf(Stream(b, l, id, ch)[i]) = ch
              /\ ch = Replies <=> Stream(b, l, id, ch)[i][1] # STD
<1> DEFINE F == Stream(b, l, id, ch)
           Good(x) == /\ x \in Seq(Int) /\ x[1] \in {QUERY, TEMP, STD}
                      /\ Len(x) = fromDebugLinkSize(x[1])
                      /\ ChannelOf(x) = ch
                      /\ ch = Replies <=> x[1] # STD
<1>1. id \in Int
  BY IdentityShape DEF Bridge
<1>2. CASE ch = Replies
  <2>1. Good(Answer(id))
    <3>1. Answer(id) = <<QUERY, 1 + id>> /\ Answer(id)[1] = QUERY
      BY DEF Answer
    <3>2. QED
      BY <1>1, <1>2, <3>1, Codes DEF ChannelOf, QUERY, STD
  <2>2. Good(TempOut)
    <3>1. TempOut = <<TEMP, 160>> /\ TempOut[1] = TEMP
      BY DEF TempOut, Temperature
    <3>2. QED
      BY <1>2, <3>1, Codes DEF ChannelOf, TEMP, STD
  <2>3. CASE id = Bridge /\ b = Master
    <3>1. F = <<Answer(id), Answer(id), TempOut>>
      BY <1>2, <2>3 DEF Stream
    <3>2. Len(F) = 3 /\ \A i \in 1 .. 3 : Good(F[i])
      <4> HIDE DEF Good
      <4>1. QED
        BY <2>1, <2>2, <3>1
    <3>3. F \in Seq(Seq(Int))
      BY <2>1, <2>2, <3>1
    <3>4. QED
      BY <1>2, <2>3, <3>2, <3>3
  <2>4. CASE ~ (id = Bridge /\ b = Master)
    <3>1. F = <<Answer(id), TempOut>>
      BY <1>2, <2>4 DEF Stream
    <3>2. Len(F) = 2 /\ \A i \in 1 .. 2 : Good(F[i])
      <4> HIDE DEF Good
      <4>1. QED
        BY <2>1, <2>2, <3>1
    <3>3. F \in Seq(Seq(Int))
      BY <2>1, <2>2, <3>1
    <3>4. QED
      BY <1>2, <2>4, <3>2, <3>3
  <2>5. QED
    BY <2>3, <2>4
<1>3. CASE ch # Replies
  <2>1. ch \in Int /\ Text(b, l, ch)[1] \in Int /\ Text(b, l, ch)[2] \in Int
    <3>1. ch \in Int
      BY <1>3, Shape DEF Channels, Cores
    <3>2. \A x, y \in Int : x * y \in Int /\ x + y \in Int
      OBVIOUS
    <3>3. 97 + ch + NumCores * (b[1] + BoxMeshXLen * b[2]) \in Int
      BY <3>1, <3>2, BoxNumbers, Shape
    <3>4. QED
      BY <3>1, <3>3 DEF Text, NEWLINE
  <2>2. ASSUME NEW z \in Int PROVE Good(<<STD, 0, ch, z>>)
    <3>1. <<STD, 0, ch, z>>[1] = STD /\ <<STD, 0, ch, z>>[3] = ch
          /\ Len(<<STD, 0, ch, z>>) = 4
      OBVIOUS
    <3>2. <<STD, 0, ch, z>> \in Seq(Int)
      BY <2>1 DEF STD
    <3>3. QED
      BY <1>3, <3>1, <3>2, Codes DEF ChannelOf
  <2>3. F = <<<<STD, 0, ch, Text(b, l, ch)[1]>>, <<STD, 0, ch, Text(b, l, ch)[2]>>>>
    BY <1>3 DEF Stream
  <2>4. Good(<<STD, 0, ch, Text(b, l, ch)[1]>>) /\ Good(<<STD, 0, ch, Text(b, l, ch)[2]>>)
    BY <2>1, <2>2
  <2>5. Len(F) = 2 /\ \A i \in 1 .. 2 : Good(F[i])
    <3> HIDE DEF Good
    <3>1. QED
      BY <2>3, <2>4
  <2>6. F \in Seq(Seq(Int))
    BY <2>3, <2>4
  <2>7. QED
    BY <1>3, <2>5, <2>6
<1>4. QED
  BY <1>2, <1>3

\* Commands and streams with the link they are for or from.
LEMMA AddressedShape ==
  ASSUME NEW l \in Links, NEW F \in Seq(Seq(Int))
  PROVE  \A i \in 1 .. Len(F) : /\ Addressed(l, F)[i] = Packet(l, F[i])
                                /\ Addressed(l, F)[i].link = l
                                /\ Addressed(l, F)[i].bytes = F[i]
                                /\ Packet(l, F[i]) \in Packets
BY DEF Addressed, Packet, Packets

\* The places of a queue on a link, on a channel.
LEMMA PlacesAppend ==
  ASSUME NEW q \in Seq(Packets), NEW x \in Packets, NEW l, NEW ch
  PROVE  /\ OnLink(q, l) \subseteq 1 .. Len(q) /\ OnChannel(q, l, ch) \subseteq 1 .. Len(q)
         /\ OnLink(Append(q, x), l) =
              OnLink(q, l) \cup (IF x.link = l THEN {Len(q) + 1} ELSE {})
         /\ OnChannel(Append(q, x), l, ch) =
              OnChannel(q, l, ch)
                \cup (IF x.link = l /\ ChannelOf(x.bytes) = ch THEN {Len(q) + 1} ELSE {})
<1> DEFINE r == Append(q, x)
           N == Len(q)
<1>1. /\ N \in Nat /\ Len(r) = N + 1 /\ r[N + 1] = x /\ \A i \in 1 .. N : r[i] = q[i]
  BY AppendProperties
<1>2. 1 .. N + 1 = (1 .. N) \cup {N + 1}
  BY <1>1
<1> HIDE DEF r, N
<1>3. OnLink(r, l) = {k \in 1 .. N : q[k].link = l} \cup (IF x.link = l THEN {N + 1} ELSE {})
  BY <1>1, <1>2 DEF OnLink
<1>4. OnLink(q, l) = {k \in 1 .. N : q[k].link = l}
  BY DEF OnLink, N
<1>5. \A k \in OnLink(q, l) : k \in 1 .. N /\ r[k] = q[k]
  BY <1>1, <1>4
<1>6. OnChannel(r, l, ch) =
        OnChannel(q, l, ch)
          \cup (IF x.link = l /\ ChannelOf(x.bytes) = ch THEN {N + 1} ELSE {})
  BY <1>1, <1>3, <1>4, <1>5 DEF OnChannel
<1>7. QED
  BY <1>3, <1>4, <1>5, <1>6 DEF r, N, OnChannel

\* The places that a queue keeps when its first packet is taken.
LEMMA PlacesTail ==
  ASSUME NEW q \in Seq(Packets), q # <<>>, NEW l, NEW ch
  PROVE  /\ OnLink(q, l) \subseteq 1 .. Len(q) /\ OnChannel(q, l, ch) \subseteq 1 .. Len(q)
         /\ 1 \in OnLink(q, l) <=> Head(q).link = l
         /\ 1 \in OnChannel(q, l, ch) <=> Head(q).link = l /\ ChannelOf(Head(q).bytes) = ch
         /\ OnLink(Tail(q), l) = {k \in 1 .. Len(Tail(q)) : k + 1 \in OnLink(q, l)}
         /\ OnChannel(Tail(q), l, ch) =
              {k \in 1 .. Len(Tail(q)) : k + 1 \in OnChannel(q, l, ch)}
<1> DEFINE r == Tail(q)
           N == Len(r)
<1>1. /\ N \in Nat /\ Len(q) = N + 1 /\ q[1] = Head(q) /\ \A i \in 1 .. N : r[i] = q[i + 1]
  BY HeadTailProperties, EmptySeq
<1>2. \A k \in 1 .. N : k + 1 \in 1 .. N + 1
  BY <1>1
<1>3. 1 \in 1 .. N + 1
  BY <1>1
<1>4. N = Len(r)
  OBVIOUS
<1> HIDE DEF r, N
<1>5. QED
  BY <1>1, <1>2, <1>3, <1>4 DEF OnLink, OnChannel, r

\* The places of a channel in a sequence that grows.
LEMMA InAppend ==
  ASSUME NEW P \in Seq(Seq(Int)), NEW x \in Seq(Int), NEW ch
  PROVE  /\ InChannel(P, ch) \subseteq 1 .. Len(P)
         /\ InChannel(Append(P, x), ch) =
              InChannel(P, ch) \cup (IF ChannelOf(x) = ch THEN {Len(P) + 1} ELSE {})
<1> DEFINE r == Append(P, x)
           N == Len(P)
<1>1. /\ N \in Nat /\ Len(r) = N + 1 /\ r[N + 1] = x /\ \A i \in 1 .. N : r[i] = P[i]
  BY AppendProperties
<1>2. 1 .. N + 1 = (1 .. N) \cup {N + 1}
  BY <1>1
<1>3. N = Len(P)
  OBVIOUS
<1> HIDE DEF r, N
<1>4. QED
  BY <1>1, <1>2, <1>3 DEF InChannel, r

\* The places of a channel in a sequence without its first packet.
LEMMA InTail ==
  ASSUME NEW P \in Seq(Seq(Int)), P # <<>>, NEW ch
  PROVE  /\ InChannel(P, ch) \subseteq 1 .. Len(P)
         /\ 1 \in InChannel(P, ch) <=> ChannelOf(P[1]) = ch
         /\ InChannel(Tail(P), ch) = {k \in 1 .. Len(Tail(P)) : k + 1 \in InChannel(P, ch)}
<1> DEFINE r == Tail(P)
           N == Len(r)
<1>1. /\ N \in Nat /\ Len(P) = N + 1 /\ P[1] = Head(P) /\ \A i \in 1 .. N : r[i] = P[i + 1]
  BY HeadTailProperties, EmptySeq
<1>2. \A k \in 1 .. N : k + 1 \in 1 .. N + 1
  BY <1>1
<1>3. 1 \in 1 .. N + 1
  BY <1>1
<1>4. N = Len(r)
  OBVIOUS
<1> HIDE DEF r, N
<1>5. QED
  BY <1>1, <1>2, <1>3, <1>4 DEF InChannel, r

-----------------------------------------------------------------------------
(* Bytes that move on.                                                     *)

\* Bytes end to end.
LEMMA Joins ==
  /\ \A s, t \in Seq(Int) :
       /\ s \o t \in Seq(Int) /\ Len(s \o t) = Len(s) + Len(t)
       /\ s \o t = <<>> <=> s = <<>> /\ t = <<>>
       /\ \A i \in 1 .. Len(s) : (s \o t)[i] = s[i]
  /\ \A s \in Seq(Int) : /\ s \o <<>> = s /\ <<>> \o s = s
                         /\ Len(s) \in Nat /\ (s = <<>> <=> Len(s) = 0)
  /\ \A s \in Seq(Int), x \in Int :
       /\ Append(s, x) \in Seq(Int) /\ Len(Append(s, x)) = Len(s) + 1
       /\ Append(s, x) = s \o <<x>> /\ <<x>> \in Seq(Int)
<1>1. ASSUME NEW s \in Seq(Int), NEW t \in Seq(Int)
      PROVE  /\ s \o t \in Seq(Int) /\ Len(s \o t) = Len(s) + Len(t)
             /\ s \o t = <<>> <=> s = <<>> /\ t = <<>>
             /\ \A i \in 1 .. Len(s) : (s \o t)[i] = s[i]
  <2>1. s \o t \in Seq(Int) /\ Len(s \o t) = Len(s) + Len(t)
    BY ConcatProperties
  <2>2. s \o t = <<>> <=> s = <<>> /\ t = <<>>
    BY ConcatEqualIffEmpty
  <2>3. \A i \in 1 .. Len(s) : (s \o t)[i] = s[i]
    OBVIOUS
  <2>4. QED
    BY <2>1, <2>2, <2>3
<1>3. ASSUME NEW s \in Seq(Int)
      PROVE  /\ s \o <<>> = s /\ <<>> \o s = s
             /\ Len(s) \in Nat /\ (s = <<>> <=> Len(s) = 0)
  <2>1. s \o <<>> = s /\ <<>> \o s = s
    BY ConcatEmptySeq
  <2>2. Len(s) \in Nat /\ (s = <<>> <=> Len(s) = 0)
    OBVIOUS
  <2>3. QED
    BY <2>1, <2>2
<1>4. ASSUME NEW s \in Seq(Int), NEW x \in Int
      PROVE  /\ Append(s, x) \in Seq(Int) /\ Len(Append(s, x)) = Len(s) + 1
             /\ Append(s, x) = s \o <<x>> /\ <<x>> \in Seq(Int)
  <2>1. Append(s, x) = s \o <<x>>
    BY AppendIsConcat
  <2>2. QED
    BY <2>1, AppendProperties
<1>5. QED
  BY <1>1, <1>3, <1>4

\* Three queues in a row.
LEMMA Assoc ==
  ASSUME NEW s \in Seq(Int), NEW t \in Seq(Int), NEW u \in Seq(Int)
  PROVE  (s \o t) \o u = s \o (t \o u)
BY ConcatAssociative, SMTT(30)

\* The first byte of a queue moves to the end of the one before it.
LEMMA MoveByte ==
  ASSUME NEW r \in Seq(Int), NEW t \in Seq(Int), t # <<>>
  PROVE  /\ Head(t) \in Int /\ Tail(t) \in Seq(Int) /\ Append(r, Head(t)) \in Seq(Int)
         /\ Append(r, Head(t)) \o Tail(t) = r \o t
<1>1. Head(t) \in Int /\ Tail(t) \in Seq(Int) /\ Len(t) \in Nat \ {0}
  BY HeadTailProperties, EmptySeq
<1>2. Append(r, Head(t)) = r \o <<Head(t)>> /\ Append(r, Head(t)) \in Seq(Int)
      /\ <<Head(t)>> \in Seq(Int)
  BY <1>1, Joins
<1>3. (r \o <<Head(t)>>) \o Tail(t) = r \o (<<Head(t)>> \o Tail(t))
  BY <1>1, <1>2, Assoc, ZenonT(30)
<1>4. <<Head(t)>> \o Tail(t) = t
  <2>1. SubSeq(t, 1, Len(t)) = <<t[1]>> \o SubSeq(t, 1 + 1, Len(t))
    BY <1>1, SubSeqRecursiveFirst
  <2>2. SubSeq(t, 1, Len(t)) = t /\ Tail(t) = SubSeq(t, 2, Len(t))
    BY SubSeqFull, TailIsSubSeq
  <2>3. Head(t) = t[1] /\ 1 + 1 = 2
    OBVIOUS
  <2>4. QED
    BY <2>1, <2>2, <2>3
<1>5. QED
  BY <1>1, <1>2, <1>3, <1>4

\* Without a beginning, the rest.
LEMMA Rest ==
  ASSUME NEW r \in Seq(Int), NEW t \in Seq(Int)
  PROVE  SubSeq(r \o t, Len(r) + 1, Len(r \o t)) = t
<1>1. /\ r \o t \in Seq(Int) /\ Len(r \o t) = Len(r) + Len(t)
      /\ Len(r) \in Nat /\ Len(t) \in Nat
  BY ConcatProperties, LenProperties
<1>2. CASE t = <<>>
  <2>1. Len(r \o t) < Len(r) + 1
    BY <1>1, <1>2
  <2>2. QED
    BY <1>1, <1>2, <2>1, SubSeqEmpty
<1>3. CASE t # <<>>
  <2>1. Len(t) \in Nat \ {0}
    BY <1>3, EmptySeq
  <2>2. /\ Len(r) + 1 \in Len(r) + 1 .. Len(r) + Len(t)
        /\ Len(r) + Len(t) \in Len(r) + 1 .. Len(r) + Len(t)
        /\ (Len(r) + 1) - Len(r) = 1 /\ (Len(r) + Len(t)) - Len(r) = Len(t)
    BY <1>1, <2>1
  <2>3. SubSeq(r \o t, Len(r) + 1, Len(r) + Len(t))
          = SubSeq(t, (Len(r) + 1) - Len(r), (Len(r) + Len(t)) - Len(r))
    BY <2>2, SubSeqOfConcat2
  <2>4. SubSeq(t, 1, Len(t)) = t
    BY SubSeqFull
  <2>5. QED
    BY <1>1, <2>2, <2>3, <2>4
<1>4. QED
  BY <1>2, <1>3

\* The first bytes of a queue move to the end of the one before it.
LEMMA MoveBytes ==
  ASSUME NEW s \in Seq(Int), NEW t \in Seq(Int), NEW k \in 0 .. Len(t)
  PROVE  /\ SubSeq(t, 1, k) \in Seq(Int) /\ SubSeq(t, k + 1, Len(t)) \in Seq(Int)
         /\ Len(SubSeq(t, 1, k)) = k
         /\ (s \o SubSeq(t, 1, k)) \o SubSeq(t, k + 1, Len(t)) = s \o t
<1>1. Len(t) \in Nat /\ \A i \in 1 .. Len(t) : t[i] \in Int
  BY LenProperties, ElementOfSeq
<1>2. /\ SubSeq(t, 1, k) \in Seq(Int) /\ Len(SubSeq(t, 1, k)) = k
  <2>1. \A i \in 1 .. k : t[i] \in Int
    BY <1>1
  <2>2. 1 \in Int /\ k \in Int /\ (IF 1 <= k THEN k - 1 + 1 ELSE 0) = k
    BY <1>1
  <2>3. QED
    BY <2>1, <2>2, SubSeqProperties
<1>3. SubSeq(t, k + 1, Len(t)) \in Seq(Int)
  <2>1. \A i \in k + 1 .. Len(t) : t[i] \in Int
    BY <1>1
  <2>2. k + 1 \in Int /\ Len(t) \in Int
    BY <1>1
  <2>3. QED
    BY <2>1, <2>2, SubSeqProperties
<1>4. (s \o SubSeq(t, 1, k)) \o SubSeq(t, k + 1, Len(t))
        = s \o (SubSeq(t, 1, k) \o SubSeq(t, k + 1, Len(t)))
  BY <1>2, <1>3, Assoc, ZenonT(30)
<1>5. SubSeq(t, 1, k) \o SubSeq(t, k + 1, Len(t)) = SubSeq(t, 1, Len(t))
  <2>1. 1 \in 1 .. Len(t) + 1 /\ k \in 1 - 1 .. Len(t) /\ Len(t) \in k .. Len(t)
    BY <1>1
  <2>2. QED
    BY <2>1, ConcatAdjacentSubSeq
<1>6. SubSeq(t, 1, Len(t)) = t
  BY SubSeqFull
<1>7. QED
  BY <1>2, <1>3, <1>4, <1>5, <1>6

\* The next of a run of items, and the run one longer and one shorter.
LEMMA Runs ==
  ASSUME NEW C \in Seq(Seq(Int)), NEW e \in Nat, NEW m \in Nat, e <= m, m <= Len(C)
  PROVE  /\ SubSeq(C, e + 1, m) \in Seq(Seq(Int))
         /\ Len(SubSeq(C, e + 1, m)) = m - e
         /\ e = m <=> SubSeq(C, e + 1, m) = <<>>
         /\ m < Len(C) => SubSeq(C, e + 1, m + 1) = Append(SubSeq(C, e + 1, m), C[m + 1])
         /\ e < m => /\ SubSeq(C, e + 1, m)[1] = C[e + 1]
                     /\ Tail(SubSeq(C, e + 1, m)) = SubSeq(C, (e + 1) + 1, m)
<1>1. Len(C) \in Nat /\ \A i \in 1 .. Len(C) : C[i] \in Seq(Int)
  BY LenProperties, ElementOfSeq
<1>2. /\ SubSeq(C, e + 1, m) \in Seq(Seq(Int)) /\ Len(SubSeq(C, e + 1, m)) = m - e
      /\ e < m => SubSeq(C, e + 1, m)[1] = C[e + 1]
  <2>1. \A i \in e + 1 .. m : C[i] \in Seq(Int)
    BY <1>1
  <2>2. e + 1 \in Int /\ m \in Int
        /\ (IF e + 1 <= m THEN m - (e + 1) + 1 ELSE 0) = m - e
        /\ (e < m => 1 \in 1 .. m - (e + 1) + 1) /\ (e + 1) + 1 - 1 = e + 1
    OBVIOUS
  <2>3. QED
    BY <2>1, <2>2, SubSeqProperties
<1>3. e = m <=> SubSeq(C, e + 1, m) = <<>>
  <2>1. \A q \in Seq(Seq(Int)) : Len(q) \in Nat /\ (q = <<>> <=> Len(q) = 0)
    OBVIOUS
  <2>2. e = m <=> m - e = 0
    OBVIOUS
  <2>3. QED
    BY <1>2, <2>1, <2>2
<1>4. ASSUME m < Len(C)
      PROVE  SubSeq(C, e + 1, m + 1) = Append(SubSeq(C, e + 1, m), C[m + 1])
  <2>1. e + 1 \in 1 .. Len(C) /\ m + 1 \in e + 1 .. Len(C) /\ (m + 1) - 1 = m
        /\ m + 1 \in 1 .. Len(C)
    BY <1>1, <1>4
  <2>2. SubSeq(C, e + 1, m + 1) = SubSeq(C, e + 1, (m + 1) - 1) \o <<C[m + 1]>>
    BY <2>1, SubSeqRecursiveSecond
  <2>3. Append(SubSeq(C, e + 1, m), C[m + 1]) = SubSeq(C, e + 1, m) \o <<C[m + 1]>>
    BY <1>1, <1>2, <2>1, AppendIsConcat
  <2>4. QED
    BY <2>1, <2>2, <2>3
<1>5. ASSUME e < m
      PROVE  Tail(SubSeq(C, e + 1, m)) = SubSeq(C, (e + 1) + 1, m)
  <2>1. e + 1 \in 1 .. Len(C) /\ m \in e + 1 .. Len(C)
    BY <1>1, <1>5
  <2>2. QED
    BY <2>1, HeadTailOfSubSeq
<1>6. QED
  BY <1>2, <1>3, <1>4, <1>5

-----------------------------------------------------------------------------
(* Commands on their way to a board.                                       *)

\* The bytes below boardctrld are none when its queue, the UART and the
\* interpreter hold none.
LEMMA BelowType ==
  ASSUME NEW bd \in BoardType, NEW ua \in UartType, NEW buf \in BufferType
  PROVE  /\ bd.recv \in Seq(Int) /\ ua.to \in Seq(Int) /\ buf.out \in Seq(Int)
         /\ Below(bd, ua, buf) \in Seq(Int)
         /\ Below(bd, ua, buf) = bd.recv \o (ua.to \o buf.out)
         /\ Below(bd, ua, buf) = <<>> <=> bd.recv = <<>> /\ ua.to = <<>> /\ buf.out = <<>>
<1>1. bd.recv \in Seq(Int) /\ ua.to \in Seq(Int) /\ buf.out \in Seq(Int)
  BY DEF BoardType, UartType, BufferType
<1>2. bd.recv \o ua.to \in Seq(Int) /\ ua.to \o buf.out \in Seq(Int)
  BY <1>1, Joins
<1>3. Below(bd, ua, buf) = bd.recv \o (ua.to \o buf.out)
  BY <1>1, Assoc DEF Below
<1>4. Below(bd, ua, buf) \in Seq(Int)
  BY <1>1, <1>2, Joins DEF Below
<1>5. Below(bd, ua, buf) = <<>> <=> bd.recv \o ua.to = <<>> /\ buf.out = <<>>
  BY <1>1, <1>2, Joins DEF Below
<1>6. bd.recv \o ua.to = <<>> <=> bd.recv = <<>> /\ ua.to = <<>>
  BY <1>1, Joins
<1>7. QED
  BY <1>1, <1>3, <1>4, <1>5, <1>6

\* Nothing sent yet.
LEMMA DownQuiet ==
  ASSUME NEW b \in Boxes, NEW l \in Links, NEW id, NEW up \in Seq(Packets),
         NEW bd \in BoardType, NEW ua \in UartType, NEW buf \in BufferType,
         OnLink(up, l) = {}, ~ Some(Below(bd, ua, buf))
  PROVE  Down(b, l, id, up, buf, ua, bd, 0, 0, 0)
<1> DEFINE C == Commands(b, id)
           s == Below(bd, ua, buf)
<1>1. C \in Seq(Seq(Int)) /\ Len(C) \in Nat
  BY CommandShape, LenProperties
<1>2. s \in Seq(Int) /\ (s = <<>> <=> bd.recv = <<>> /\ ua.to = <<>> /\ buf.out = <<>>)
  BY BelowType
<1>3. OnLink(up, l) = {} /\ s = <<>>
  BY DEF Some
<1>4. Carry(up, OnLink(up, l), Addressed(l, C), 0, 0)
  BY <1>3, CarryNone
<1>5. SubSeq(C, 0 + 1, 0) = <<>>
  BY SubSeqEmpty
<1>6. Cut(s, SubSeq(C, 0 + 1, 0))
  BY <1>3, <1>5, CutNone, EmptySeq
<1>7. bd.recv = <<>>
  BY <1>2, <1>3
<1> HIDE DEF C, s
<1>8. 0 <= 0 /\ 0 <= Len(C)
  BY <1>1
<1>9. QED
  BY <1>4, <1>6, <1>7, <1>8 DEF Down, C, s

\* All done.
LEMMA DownEnded ==
  ASSUME NEW b \in Boxes, NEW l \in Links, NEW id, NEW up \in Seq(Packets),
         NEW bd \in BoardType, NEW ua \in UartType, NEW buf \in BufferType,
         NEW n \in Nat, NEW e \in Nat, NEW m \in Nat,
         Down(b, l, id, up, buf, ua, bd, n, e, m), e = n
  PROVE  OnLink(up, l) = {} /\ ~ Some(Below(bd, ua, buf)) /\ m = n
<1> DEFINE C == Commands(b, id)
           s == Below(bd, ua, buf)
<1>1. C \in Seq(Seq(Int)) /\ Len(C) \in Nat
  BY CommandShape, LenProperties
<1>2. s \in Seq(Int) /\ (s = <<>> <=> bd.recv = <<>> /\ ua.to = <<>> /\ buf.out = <<>>)
  BY BelowType
<1>4. /\ e <= m /\ m <= n /\ n <= Len(C) /\ Cut(s, SubSeq(C, e + 1, m))
      /\ Carry(up, OnLink(up, l), Addressed(l, C), m, n)
  BY DEF Down
<1>5. m = n /\ e = m
  BY <1>4
<1>6. SubSeq(C, e + 1, m) = <<>>
  BY <1>1, <1>4, <1>5, Runs
<1>7. s = <<>>
  BY <1>2, <1>4, <1>6, CutNone
<1>8. OnLink(up, l) = {}
  BY <1>4, <1>5, CarryNone
<1>9. QED
  BY <1>5, <1>7, <1>8 DEF Some

\* The program sends a packet.
LEMMA DownSend ==
  ASSUME NEW b \in Boxes, NEW l \in Links, NEW id, NEW up \in Seq(Packets), NEW buf,
         NEW ua, NEW bd, NEW n \in Nat, NEW e \in Nat, NEW m \in Nat, NEW x \in Packets,
         Down(b, l, id, up, buf, ua, bd, n, e, m)
  PROVE  /\ x.link # l => Down(b, l, id, Append(up, x), buf, ua, bd, n, e, m)
         /\ n < Len(Commands(b, id)) /\ x = Packet(l, Commands(b, id)[n + 1])
              => Down(b, l, id, Append(up, x), buf, ua, bd, n + 1, e, m)
<1> DEFINE C == Commands(b, id)
           F == Addressed(l, C)
           K == OnLink(up, l)
<1>1. C \in Seq(Seq(Int)) /\ Len(C) \in Nat
  BY CommandShape, LenProperties
<1>2. K \in SUBSET (1 .. Len(up)) /\ Carry(up, K, F, m, n) /\ m <= n
      /\ OnLink(Append(up, x), l) = K \cup (IF x.link = l THEN {Len(up) + 1} ELSE {})
  BY PlacesAppend DEF Down
<1>3. Carry(Append(up, x), K, F, m, n)
      /\ (x = F[n + 1] => Carry(Append(up, x), K \cup {Len(up) + 1}, F, m, n + 1))
  <2> HIDE DEF K, F
  <2>1. QED
    BY <1>2, CarryAppend
<1>4. ASSUME x.link # l
      PROVE  Down(b, l, id, Append(up, x), buf, ua, bd, n, e, m)
  <2>1. OnLink(Append(up, x), l) = K
    BY <1>2, <1>4
  <2>2. QED
    BY <1>3, <2>1 DEF Down
<1>5. ASSUME n < Len(C), x = Packet(l, C[n + 1])
      PROVE  Down(b, l, id, Append(up, x), buf, ua, bd, n + 1, e, m)
  <2>1. n + 1 \in 1 .. Len(C)
    BY <1>1, <1>5
  <2>2. x = F[n + 1] /\ x.link = l
    BY <1>1, <1>5, <2>1, AddressedShape DEF Packet
  <2>3. Carry(Append(up, x), OnLink(Append(up, x), l), F, m, n + 1)
    BY <1>2, <1>3, <2>2
  <2>4. m <= n + 1 /\ n + 1 <= Len(C)
    BY <1>1, <1>2, <1>5
  <2>5. QED
    BY <2>3, <2>4 DEF Down
<1>6. QED
  BY <1>4, <1>5

\* boardctrld passes a packet on to a board.
LEMMA DownForward ==
  ASSUME NEW b \in Boxes, NEW l \in Links, NEW id, NEW up \in Seq(Packets), up # <<>>,
         NEW buf \in BufferType, NEW ua \in UartType, NEW bd \in BoardType,
         NEW n \in Nat, NEW e \in Nat, NEW m \in Nat,
         Down(b, l, id, up, buf, ua, bd, n, e, m)
  PROVE  /\ Head(up).link # l => Down(b, l, id, Tail(up), buf, ua, bd, n, e, m)
         /\ Head(up).link = l =>
              LET x == Head(up).bytes
                  y == SubSeq(x, 1, toDebugLinkSize(x[1])) IN
              /\ y \in Seq(Int)
              /\ \A q \in BufferType : q.out = buf.out \o y =>
                   Down(b, l, id, Tail(up), q, ua, bd, n, e, m + 1)
<1> DEFINE C == Commands(b, id)
           F == Addressed(l, C)
           K == OnLink(up, l)
<1>1. C \in Seq(Seq(Int)) /\ Len(C) \in Nat
  BY CommandShape, LenProperties
<1>2. /\ K \in SUBSET (1 .. Len(up)) /\ Carry(up, K, F, m, n) /\ m <= n
      /\ (1 \in K <=> Head(up).link = l)
      /\ OnLink(Tail(up), l) = {k \in 1 .. Len(Tail(up)) : k + 1 \in K}
      /\ e <= m /\ n <= Len(C) /\ Cut(Below(bd, ua, buf), SubSeq(C, e + 1, m))
      /\ bd.recv /= <<>> => e < m /\ Len(bd.recv) < Len(C[e + 1])
  BY PlacesTail DEF Down
<1>3. /\ 1 \in K => /\ m < n /\ Head(up) = F[m + 1]
                    /\ Carry(Tail(up), OnLink(Tail(up), l), F, m + 1, n)
      /\ 1 \notin K => Carry(Tail(up), OnLink(Tail(up), l), F, m, n)
  <2>1. OnLink(Tail(up), l) = {k \in 1 .. Len(Tail(up)) : k + 1 \in K}
    BY <1>2
  <2>2. K \in SUBSET (1 .. Len(up)) /\ Carry(up, K, F, m, n) /\ m <= n
    BY <1>2
  <2> HIDE DEF K, F
  <2>3. /\ 1 \in K => /\ m < n /\ Head(up) = F[m + 1]
                      /\ Carry(Tail(up), {k \in 1 .. Len(Tail(up)) : k + 1 \in K}, F, m + 1, n)
        /\ 1 \notin K =>
             Carry(Tail(up), {k \in 1 .. Len(Tail(up)) : k + 1 \in K}, F, m, n)
    BY <2>2, CarryTail
  <2>4. QED
    BY <2>1, <2>3
<1>4. ASSUME Head(up).link # l
      PROVE  Down(b, l, id, Tail(up), buf, ua, bd, n, e, m)
  BY <1>2, <1>3, <1>4 DEF Down
<1>5. ASSUME Head(up).link = l
      PROVE  LET x == Head(up).bytes
                 y == SubSeq(x, 1, toDebugLinkSize(x[1])) IN
             /\ y \in Seq(Int)
             /\ \A q \in BufferType : q.out = buf.out \o y =>
                  Down(b, l, id, Tail(up), q, ua, bd, n, e, m + 1)
  <2>a. m < n /\ n <= Len(C)
    BY <1>2, <1>3, <1>5
  <2>1. m < n /\ m + 1 \in 1 .. Len(C) /\ m < Len(C) /\ m <= Len(C)
    BY <1>1, <2>a
  <2>2. Head(up) = F[m + 1] /\ Head(up).bytes = C[m + 1]
    <3>1. Head(up) = F[m + 1]
      <4>1. 1 \in K
        BY <1>2, <1>5
      <4>2. QED
        BY <1>3, <4>1
    <3>2. C \in Seq(Seq(Int)) /\ m + 1 \in 1 .. Len(C) /\ F = Addressed(l, C)
      BY <1>1, <2>1
    <3> HIDE DEF C, F
    <3>3. F[m + 1].bytes = C[m + 1]
      BY <3>2, AddressedShape
    <3>4. QED
      BY <3>1, <3>3
  <2>3. C[m + 1] \in Seq(Int) /\ Len(C[m + 1]) = toDebugLinkSize(C[m + 1][1])
    BY <2>1, CommandShape
  <2>4. SubSeq(C[m + 1], 1, toDebugLinkSize(C[m + 1][1])) = C[m + 1]
    BY <2>3, SubSeqFull
  <2>5. ASSUME NEW q \in BufferType, q.out = buf.out \o C[m + 1]
        PROVE  Down(b, l, id, Tail(up), q, ua, bd, n, e, m + 1)
    <3>1. Below(bd, ua, q) = Below(bd, ua, buf) \o C[m + 1]
      <4>1. bd.recv \o ua.to \in Seq(Int) /\ buf.out \in Seq(Int)
        BY BelowType, Joins
      <4> HIDE DEF C
      <4>2. ((bd.recv \o ua.to) \o buf.out) \o C[m + 1]
              = (bd.recv \o ua.to) \o (buf.out \o C[m + 1])
        BY <2>3, <4>1, Assoc, ZenonT(30)
      <4>3. QED
        BY <2>5, <4>2 DEF Below
    <3>2. SubSeq(C, e + 1, m + 1) = Append(SubSeq(C, e + 1, m), C[m + 1])
          /\ SubSeq(C, e + 1, m) \in Seq(Seq(Int))
      <4>1. e \in Nat /\ m \in Nat /\ e <= m /\ m <= Len(C) /\ m < Len(C)
        BY <1>2, <2>1
      <4>2. C \in Seq(Seq(Int))
        BY <1>1
      <4> HIDE DEF C
      <4>3. SubSeq(C, e + 1, m + 1) = Append(SubSeq(C, e + 1, m), C[m + 1])
        BY <4>1, <4>2, Runs
      <4>4. SubSeq(C, e + 1, m) \in Seq(Seq(Int))
        BY <4>1, <4>2, Runs
      <4>5. QED
        BY <4>3, <4>4
    <3>3. Cut(Below(bd, ua, q), SubSeq(C, e + 1, m + 1))
      BY <1>2, <2>3, <3>1, <3>2, BelowType, CutAppend
    <3>4. Carry(Tail(up), OnLink(Tail(up), l), F, m + 1, n)
      BY <1>2, <1>3, <1>5
    <3>5. e <= m + 1 /\ m + 1 <= n /\ (e < m => e < m + 1)
      BY <1>2, <2>1
    <3>6. QED
      BY <1>2, <3>3, <3>4, <3>5 DEF Down
  <2>6. QED
    BY <2>2, <2>3, <2>4, <2>5
<1>6. QED
  BY <1>4, <1>5

\* Bytes move on towards the board.
LEMMA DownMove ==
  ASSUME NEW b, NEW l, NEW id, NEW up, NEW buf, NEW ua, NEW bd, NEW n, NEW e, NEW m,
         NEW buf2, NEW ua2, NEW bd2,
         Down(b, l, id, up, buf, ua, bd, n, e, m),
         Below(bd2, ua2, buf2) = Below(bd, ua, buf), bd2.recv = bd.recv
  PROVE  Down(b, l, id, up, buf2, ua2, bd2, n, e, m)
BY DEF Down

\* A byte of a command reaches the board.
LEMMA DownByte ==
  ASSUME NEW b \in Boxes, NEW l \in Links, NEW id, NEW up \in Seq(Packets),
         NEW buf \in BufferType, NEW ua \in UartType, NEW bd \in BoardType,
         NEW n \in Nat, NEW e \in Nat, NEW m \in Nat,
         Down(b, l, id, up, buf, ua, bd, n, e, m), Some(ua.to),
         NEW ua2 \in UartType, ua2.to = Tail(ua.to)
  PROVE  /\ Partly(Coming(bd, ua)) => \A bd2 \in BoardType :
              bd2.recv = Coming(bd, ua) => Down(b, l, id, up, buf, ua2, bd2, n, e, m)
         /\ ~ Partly(Coming(bd, ua)) =>
              /\ e < n /\ Command(b, id, e, Coming(bd, ua))
              /\ \A bd2 \in BoardType :
                   ~ Some(bd2.recv) => Down(b, l, id, up, buf, ua2, bd2, n, e + 1, m)
         /\ \E i \in 1 .. Len(Commands(b, id)) : Coming(bd, ua)[1] = Commands(b, id)[i][1]
<1> DEFINE C == Commands(b, id)
           s == Below(bd, ua, buf)
           pkt == Append(bd.recv, Head(ua.to))
           rest == Tail(ua.to) \o buf.out
           D == SubSeq(C, e + 1, m)
<1>0. ua.to # <<>>
  BY DEF Some
<1>1. C \in Seq(Seq(Int)) /\ Len(C) \in Nat
  BY CommandShape, LenProperties
<1>2. /\ e <= m /\ m <= n /\ n <= Len(C) /\ Cut(s, D)
      /\ Carry(up, OnLink(up, l), Addressed(l, C), m, n)
      /\ bd.recv /= <<>> => e < m /\ Len(bd.recv) < Len(C[e + 1])
  BY DEF Down
<1>3. /\ bd.recv \in Seq(Int) /\ ua.to \in Seq(Int) /\ buf.out \in Seq(Int) /\ s \in Seq(Int)
      /\ s # <<>> /\ s = bd.recv \o (ua.to \o buf.out)
  BY <1>0, BelowType
<1>4. /\ pkt \in Seq(Int) /\ Tail(ua.to) \in Seq(Int) /\ Head(ua.to) \in Int
      /\ pkt \o Tail(ua.to) = bd.recv \o ua.to
      /\ Len(pkt) = Len(bd.recv) + 1 /\ Len(bd.recv) \in Nat /\ Len(pkt) \in Nat
  <2>1. /\ pkt \in Seq(Int) /\ Tail(ua.to) \in Seq(Int) /\ Head(ua.to) \in Int
        /\ pkt \o Tail(ua.to) = bd.recv \o ua.to
    BY <1>0, <1>3, MoveByte
  <2>2. Len(pkt) = Len(bd.recv) + 1 /\ Len(bd.recv) \in Nat
    BY <1>3, <2>1, Joins
  <2>3. Len(pkt) \in Nat
    BY <2>2
  <2> HIDE DEF pkt
  <2>4. QED
    BY <2>1, <2>2, <2>3
<1>5. rest \in Seq(Int) /\ s = pkt \o rest
  <2>1. s = (bd.recv \o ua.to) \o buf.out
    BY DEF Below
  <2>2. (pkt \o Tail(ua.to)) \o buf.out = pkt \o rest
    <3>1. pkt \in Seq(Int) /\ Tail(ua.to) \in Seq(Int) /\ buf.out \in Seq(Int)
      BY <1>3, <1>4
    <3> HIDE DEF pkt
    <3>2. (pkt \o Tail(ua.to)) \o buf.out = pkt \o (Tail(ua.to) \o buf.out)
      BY <3>1, Assoc, ZenonT(30)
    <3>3. QED
      BY <3>2
  <2>3. rest \in Seq(Int)
    BY <1>3, <1>4, Joins
  <2>4. QED
    BY <1>4, <2>1, <2>2, <2>3
<1>6. e < m
  <2>1. SUFFICES ASSUME e = m PROVE FALSE
    BY <1>2
  <2>2. D = <<>>
    BY <1>1, <1>2, <2>1, Runs
  <2>3. s = <<>>
    BY <1>2, <1>3, <2>2, CutNone
  <2>4. QED
    BY <1>3, <2>3
<1>7. /\ D \in Seq(Seq(Int)) /\ D # <<>> /\ D[1] = C[e + 1]
      /\ Tail(D) = SubSeq(C, (e + 1) + 1, m)
  <2>1. m <= Len(C) /\ e <= m /\ e # m
    BY <1>1, <1>2, <1>6
  <2> HIDE DEF C
  <2>2. /\ SubSeq(C, e + 1, m) \in Seq(Seq(Int)) /\ SubSeq(C, e + 1, m) # <<>>
        /\ SubSeq(C, e + 1, m)[1] = C[e + 1]
        /\ Tail(SubSeq(C, e + 1, m)) = SubSeq(C, (e + 1) + 1, m)
    <3>1. C \in Seq(Seq(Int)) /\ e <= m /\ m <= Len(C) /\ e < m
      BY <1>1, <1>6, <2>1
    <3>2. /\ SubSeq(C, e + 1, m) \in Seq(Seq(Int))
          /\ e = m <=> SubSeq(C, e + 1, m) = <<>>
          /\ e < m => /\ SubSeq(C, e + 1, m)[1] = C[e + 1]
                      /\ Tail(SubSeq(C, e + 1, m)) = SubSeq(C, (e + 1) + 1, m)
      <4> HIDE DEF D, s, pkt, rest
      <4>1. SubSeq(C, e + 1, m) \in Seq(Seq(Int))
        BY <3>1, Runs
      <4>2. e = m <=> SubSeq(C, e + 1, m) = <<>>
        BY <3>1, Runs
      <4>3. SubSeq(C, e + 1, m)[1] = C[e + 1]
        BY <3>1, Runs
      <4>4. Tail(SubSeq(C, e + 1, m)) = SubSeq(C, (e + 1) + 1, m)
        BY <3>1, Runs
      <4>5. QED
        BY <4>1, <4>2, <4>3, <4>4
    <3>3. QED
      BY <2>1, <3>1, <3>2
  <2>3. QED
    BY <2>2
<1>8. e + 1 \in 1 .. Len(C)
  BY <1>1, <1>2, <1>6
<1>9. /\ C[e + 1] \in Seq(Int) /\ Len(C[e + 1]) >= 1 /\ Len(C[e + 1]) \in Nat
      /\ Len(C[e + 1]) = toDebugLinkSize(C[e + 1][1])
  BY <1>8, CommandShape, LenProperties
<1> HIDE DEF s, D
<1>10. /\ Len(C[e + 1]) <= Len(s) /\ \A j \in 1 .. Len(C[e + 1]) : s[j] = C[e + 1][j]
       /\ Cut(SubSeq(s, Len(C[e + 1]) + 1, Len(s)), Tail(D))
  <2>1. Cut(s, D)
    BY <1>2
  <2>2. /\ Len(D[1]) <= Len(s) /\ \A j \in 1 .. Len(D[1]) : s[j] = D[1][j]
        /\ Cut(SubSeq(s, Len(D[1]) + 1, Len(s)), Tail(D))
    BY <1>3, <1>7, <2>1, CutHead
  <2>3. QED
    BY <1>7, <2>2
<1> HIDE DEF pkt, rest, C
<1>11. Len(pkt) <= Len(C[e + 1])
  <2>1. CASE bd.recv = <<>>
    BY <1>4, <1>9, <2>1
  <2>2. CASE bd.recv # <<>>
    <3>1. Len(bd.recv) < Len(C[e + 1])
      BY <1>2, <2>2
    <3>2. \A x, y \in Nat : x < y => x + 1 <= y
      OBVIOUS
    <3>3. QED
      BY <1>4, <1>9, <3>1, <3>2
  <2>3. QED
    BY <2>1, <2>2
<1>12. \A j \in 1 .. Len(pkt) : pkt[j] = C[e + 1][j]
  <2>1. SUFFICES ASSUME NEW j \in 1 .. Len(pkt) PROVE pkt[j] = C[e + 1][j]
    OBVIOUS
  <2>2. s[j] = pkt[j]
    BY <1>4, <1>5, Joins
  <2>3. j \in 1 .. Len(C[e + 1])
    <3>1. Len(pkt) \in Nat /\ Len(C[e + 1]) \in Nat
      BY <1>4, <1>9
    <3>2. QED
      BY <1>11, <3>1
  <2>4. QED
    BY <1>10, <2>2, <2>3
<1>13. pkt[1] = C[e + 1][1]
  BY <1>4, <1>12
<1>14. ASSUME Len(pkt) < Len(C[e + 1]), NEW bd2 \in BoardType, bd2.recv = pkt
       PROVE  Down(b, l, id, up, buf, ua2, bd2, n, e, m)
  <2>1. Below(bd2, ua2, buf) = s
    BY <1>3, <1>4, <1>14 DEF Below, s
  <2>2. QED
    BY <1>2, <1>6, <1>14, <2>1 DEF Down, s, D, C
<1>15. ASSUME ~ (Len(pkt) < Len(C[e + 1]))
       PROVE  /\ pkt = C[e + 1]
              /\ \A bd2 \in BoardType :
                   bd2.recv = <<>> => Down(b, l, id, up, buf, ua2, bd2, n, e + 1, m)
  <2>1. Len(pkt) = Len(C[e + 1])
    <3>1. Len(pkt) \in Nat /\ Len(C[e + 1]) \in Nat
      BY <1>4, <1>9
    <3>2. QED
      BY <1>11, <1>15, <3>1
  <2>2. pkt = C[e + 1]
    BY <1>4, <1>9, <1>12, <2>1, SeqEqual
  <2>3. SUFFICES ASSUME NEW bd2 \in BoardType, bd2.recv = <<>>
                 PROVE  Down(b, l, id, up, buf, ua2, bd2, n, e + 1, m)
    BY <2>2
  <2>4. Below(bd2, ua2, buf) = rest
    <3>1. Below(bd2, ua2, buf) = <<>> \o (ua2.to \o buf.out)
      BY <2>3, BelowType
    <3>2. <<>> \o rest = rest
      BY <1>5, Joins
    <3>3. QED
      BY <3>1, <3>2 DEF rest
  <2>5. SubSeq(s, Len(C[e + 1]) + 1, Len(s)) = rest
    BY <1>4, <1>5, <2>1, Rest
  <2>6. Cut(Below(bd2, ua2, buf), SubSeq(C, (e + 1) + 1, m))
    BY <1>7, <1>10, <2>4, <2>5
  <2>7. e + 1 <= m
    BY <1>6
  <2>8. QED
    BY <1>2, <2>3, <2>6, <2>7 DEF Down, C
<1>16. Len(C[e + 1]) = toDebugLinkSize(pkt[1])
  BY <1>9, <1>13
<1>17. Partly(pkt) <=> Len(pkt) < Len(C[e + 1])
  BY <1>16 DEF Partly
<1>18. pkt = Coming(bd, ua)
  BY DEF pkt, Coming
<1>19. ASSUME ~ Partly(pkt)
       PROVE  Command(b, id, e, pkt) /\ e < n /\ \A bd2 \in BoardType :
                ~ Some(bd2.recv) => Down(b, l, id, up, buf, ua2, bd2, n, e + 1, m)
  <2>1. pkt = C[e + 1]
    BY <1>15, <1>17, <1>19
  <2>2. Command(b, id, e, pkt)
    BY <1>8, <2>1 DEF Command, C
  <2>3. ASSUME NEW bd2 \in BoardType, ~ Some(bd2.recv)
        PROVE  Down(b, l, id, up, buf, ua2, bd2, n, e + 1, m)
    <3>1. bd2.recv = <<>>
      BY <2>3 DEF Some
    <3>2. QED
      BY <1>15, <1>17, <1>19, <3>1
  <2>4. QED
    BY <1>2, <1>6, <2>2, <2>3
<1>20. \E i \in 1 .. Len(Commands(b, id)) : Coming(bd, ua)[1] = Commands(b, id)[i][1]
  BY <1>8, <1>13, <1>18 DEF C
<1>21. QED
  BY <1>14, <1>17, <1>18, <1>19, <1>20

\* The commands a bridge is sent begin so.
BridgeCodes == {QUERY, EN_IDLE, TEMP}

LEMMA BridgeCommands ==
  ASSUME NEW b \in Boxes, NEW i \in 1 .. Len(Commands(b, Bridge))
  PROVE  Commands(b, Bridge)[i][1] \in BridgeCodes
<1>1. /\ QueryIn(b)[1] = QUERY /\ EnableIn[1] = EN_IDLE /\ <<TEMP>>[1] = TEMP
  BY DEF QueryIn, EnableIn
<1>2. CASE b = Master
  <2>1. Commands(b, Bridge) = <<QueryIn(b), EnableIn, <<TEMP>>>>
    BY <1>2 DEF Commands
  <2>2. i = 1 \/ i = 2 \/ i = 3
    BY <2>1
  <2>3. QED
    BY <1>1, <2>1, <2>2 DEF BridgeCodes
<1>3. CASE b # Master
  <2>1. Commands(b, Bridge) = <<QueryIn(b), <<TEMP>>>>
    BY <1>3 DEF Commands
  <2>2. i = 1 \/ i = 2
    BY <2>1
  <2>3. QED
    BY <1>1, <2>1, <2>2 DEF BridgeCodes
<1>4. QED
  BY <1>2, <1>3

\* Of those a bridge takes as many bytes as boardctrld passes on.
LEMMA SizeKnown ==
  ASSUME NEW b \in Boxes, NEW l \in Links, NEW id \in {Bridge} \cup Identities,
         chain[b][l] = id, NEW up \in Seq(Packets),
         NEW buf \in BufferType, NEW ua \in UartType, NEW bd \in BoardType,
         NEW n \in Nat, NEW e \in Nat, NEW m \in Nat,
         Down(b, l, id, up, buf, ua, bd, n, e, m), Some(ua.to)
  PROVE  CommandSize(b, l, Coming(bd, ua)[1]) = toDebugLinkSize(Coming(bd, ua)[1])
<1>1. CASE id # Bridge
  BY <1>1 DEF CommandSize, IsBridge
<1>2. CASE id = Bridge
  <2> DEFINE ua2 == [ua EXCEPT !.to = Tail(@)]
  <2>1. ua2 \in UartType /\ ua2.to = Tail(ua.to)
    <3>1. ua.to \in Seq(Int) /\ ua.to # <<>>
      BY DEF UartType, Some
    <3>2. Tail(ua.to) \in Seq(Int)
      BY <3>1
    <3>3. QED
      BY <3>2 DEF UartType
  <2> HIDE DEF ua2
  <2>2. \E i \in 1 .. Len(Commands(b, id)) : Coming(bd, ua)[1] = Commands(b, id)[i][1]
    BY <2>1, DownByte
  <2>3. Coming(bd, ua)[1] \in BridgeCodes
    BY <1>2, <2>2, BridgeCommands
  <2>4. QED
    BY <1>2, <2>3, Codes DEF CommandSize, IsBridge, BridgeCodes, QUERY, EN_IDLE, TEMP
<1>3. QED
  BY <1>1, <1>2

\* A whole command for a bridge.
ToBridge(x) == x[1] \in BridgeCodes /\ Len(x) = toDebugLinkSize(x[1])

\* What is on its way to boardctrld for a bridge.
LEMMA UpKnown ==
  ASSUME NEW b \in Boxes, NEW l \in Links, NEW up \in Seq(Packets),
         NEW buf, NEW ua, NEW bd, NEW n \in Nat, NEW e \in Nat, NEW m \in Nat,
         Down(b, l, Bridge, up, buf, ua, bd, n, e, m), NEW k \in OnLink(up, l)
  PROVE  ToBridge(up[k].bytes)
<1> DEFINE C == Commands(b, Bridge)
<1>1. C \in Seq(Seq(Int)) /\ Len(C) \in Nat
  BY CommandShape, LenProperties
<1>2. PICK p : Places(up, OnLink(up, l), Addressed(l, C), m, n, p)
  BY DEF Down, Carry
<1>3. n <= Len(C)
  BY DEF Down
<1> HIDE DEF C
<1>4. PICK i \in m + 1 .. n : p[i] = k
  BY <1>2 DEF Places
<1>5. up[k] = Addressed(l, C)[i]
  BY <1>2, <1>4 DEF Places
<1>6. i \in 1 .. Len(C)
  BY <1>1, <1>3, <1>4
<1>7. up[k].bytes = C[i]
  BY <1>5, <1>6 DEF Addressed, Packet
<1>8. C[i][1] \in BridgeCodes
  BY <1>6, BridgeCommands DEF C
<1>9. Len(C[i]) = toDebugLinkSize(C[i][1])
  BY <1>6, CommandShape DEF C
<1>10. QED
  BY <1>7, <1>8, <1>9 DEF ToBridge

-----------------------------------------------------------------------------
(* Replies and characters on their way to the program.                     *)

\* The board makes a packet.
LEMMA FlowMade ==
  ASSUME NEW F, NEW l, NEW ch, NEW down, NEW P \in Seq(Seq(Int)),
         NEW i, NEW j, NEW n, Flows(F, l, ch, down, P, i, j, n),
         NEW x \in Seq(Int)
  PROVE  /\ ChannelOf(x) # ch => Flows(F, l, ch, down, Append(P, x), i, j, n)
         /\ n < Len(F) /\ x = Item(F, n) /\ ChannelOf(x) = ch
              => Flows(F, l, ch, down, Append(P, x), i, j, n + 1)
<1> DEFINE K == InChannel(P, ch)
           Q == Append(P, x)
<1>1. /\ F \in Seq(Seq(Int)) /\ i \in Nat /\ j \in Nat /\ n \in Nat
      /\ i <= j /\ j <= n /\ n <= Len(F) /\ Len(F) \in Nat
      /\ Carry(down, OnChannel(down, l, ch), Addressed(l, F), i, j)
      /\ Carry(P, K, F, j, n)
  BY LenProperties DEF Flows
<1>2. K \in SUBSET (1 .. Len(P))
      /\ InChannel(Q, ch) = K \cup (IF ChannelOf(x) = ch THEN {Len(P) + 1} ELSE {})
  BY InAppend
<1> HIDE DEF K
<1>3. Carry(Q, K, F, j, n)
  BY <1>1, <1>2, CarryAppend
<1>4. x = Item(F, n) => Carry(Q, K \cup {Len(P) + 1}, F, j, n + 1)
  BY <1>1, <1>2, CarryAppend DEF Item
<1> HIDE DEF Q
<1>5. ASSUME ChannelOf(x) # ch PROVE Flows(F, l, ch, down, Q, i, j, n)
  <2>1. InChannel(Q, ch) = K
    BY <1>2, <1>5
  <2>2. QED
    BY <1>1, <1>3, <2>1 DEF Flows
<1>6. ASSUME n < Len(F), x = Item(F, n), ChannelOf(x) = ch
      PROVE  Flows(F, l, ch, down, Q, i, j, n + 1)
  <2>1. InChannel(Q, ch) = K \cup {Len(P) + 1}
    BY <1>2, <1>6
  <2>2. j <= n + 1 /\ n + 1 <= Len(F)
    BY <1>1, <1>6
  <2>3. QED
    BY <1>1, <1>4, <1>6, <2>1, <2>2 DEF Flows
<1>7. QED
  BY <1>5, <1>6 DEF Q

\* A packet of another link or channel comes to the program's connection.
LEMMA FlowArrive ==
  ASSUME NEW F, NEW l, NEW ch, NEW down \in Seq(Packets), NEW P,
         NEW i, NEW j, NEW n, Flows(F, l, ch, down, P, i, j, n),
         NEW x \in Packets, ~ (x.link = l /\ ChannelOf(x.bytes) = ch)
  PROVE  Flows(F, l, ch, Append(down, x), P, i, j, n)
<1> DEFINE K == OnChannel(down, l, ch)
           A == Addressed(l, F)
<1>1. /\ F \in Seq(Seq(Int)) /\ i \in Nat /\ j \in Nat /\ n \in Nat
      /\ i <= j /\ j <= n /\ Carry(down, K, A, i, j)
  BY DEF Flows
<1>2. K \in SUBSET (1 .. Len(down)) /\ OnChannel(Append(down, x), l, ch) = K
  <2>1. K \subseteq 1 .. Len(down)
    BY PlacesAppend
  <2>2. OnChannel(Append(down, x), l, ch) =
          K \cup (IF x.link = l /\ ChannelOf(x.bytes) = ch THEN {Len(down) + 1} ELSE {})
    BY PlacesAppend
  <2>3. QED
    BY <2>1, <2>2
<1> HIDE DEF K, A
<1>3. Carry(Append(down, x), K, A, i, j)
  BY <1>1, <1>2, CarryAppend
<1>4. QED
  BY <1>2, <1>3 DEF Flows, A

\* boardctrld takes the first packet, which is the next of its channel, and
\* sends it to the program.
LEMMA FlowSent ==
  ASSUME NEW F, NEW l \in Links, NEW ch, NEW down \in Seq(Packets),
         NEW P \in Seq(Seq(Int)), Some(P),
         NEW i, NEW j, NEW n, Flows(F, l, ch, down, P, i, j, n)
  PROVE  /\ ChannelOf(First(P)) # ch => Flows(F, l, ch, down, Tail(P), i, j, n)
         /\ ChannelOf(First(P)) = ch =>
              /\ j < n /\ Follows(P, F, j) /\ j + 1 \in 1 .. Len(F)
              /\ Flows(F, l, ch, Append(down, Packet(l, First(P))), Tail(P), i, j + 1, n)
<1> DEFINE K == InChannel(P, ch)
           Q == Tail(P)
           L == OnChannel(down, l, ch)
           A == Addressed(l, F)
           x == Packet(l, First(P))
<1>1. /\ F \in Seq(Seq(Int)) /\ i \in Nat /\ j \in Nat /\ n \in Nat
      /\ i <= j /\ j <= n /\ n <= Len(F) /\ Len(F) \in Nat
      /\ Carry(down, L, A, i, j)
      /\ Carry(P, K, F, j, n)
  BY LenProperties DEF Flows
<1>2. /\ K \in SUBSET (1 .. Len(P)) /\ (1 \in K <=> ChannelOf(First(P)) = ch)
      /\ InChannel(Q, ch) = {k \in 1 .. Len(Q) : k + 1 \in K}
  BY InTail DEF First, Some
<1>3. Head(P) = First(P) /\ First(P) \in Seq(Int)
  BY HeadTailProperties DEF First, Some
<1>x. x \in Packets /\ x.link = l /\ x.bytes = First(P)
  BY <1>3 DEF Packet, Packets
<1>4. L \in SUBSET (1 .. Len(down))
      /\ (ChannelOf(First(P)) = ch => OnChannel(Append(down, x), l, ch) = L \cup {Len(down) + 1})
  BY <1>x, PlacesAppend
<1> HIDE DEF K, L, A, x
<1>5. ASSUME 1 \in K
      PROVE  /\ j < n /\ Head(P) = F[j + 1]
             /\ Carry(Q, {k \in 1 .. Len(Q) : k + 1 \in K}, F, j + 1, n)
  BY <1>1, <1>2, <1>5, CarryTail DEF Some
<1>6. ASSUME 1 \notin K
      PROVE  Carry(Q, {k \in 1 .. Len(Q) : k + 1 \in K}, F, j, n)
  BY <1>1, <1>2, <1>6, CarryTail DEF Some
<1> HIDE DEF Q
<1>7. ASSUME ChannelOf(First(P)) # ch PROVE Flows(F, l, ch, down, Q, i, j, n)
  <2>1. Carry(Q, InChannel(Q, ch), F, j, n)
    BY <1>2, <1>6, <1>7
  <2>2. QED
    BY <1>1, <2>1 DEF Flows, L, A
<1>8. ASSUME ChannelOf(First(P)) = ch
      PROVE  /\ j < n /\ Follows(P, F, j) /\ j + 1 \in 1 .. Len(F)
             /\ Flows(F, l, ch, Append(down, x), Q, i, j + 1, n)
  <2>1. /\ j < n /\ First(P) = F[j + 1] /\ Carry(Q, InChannel(Q, ch), F, j + 1, n)
    BY <1>2, <1>3, <1>5, <1>8
  <2>2. j + 1 \in 1 .. Len(F) /\ j + 1 <= n /\ i <= j + 1
    BY <1>1, <2>1
  <2>3. A[j + 1] = x
    <3>1. PICK u \in 1 .. Len(F) : u = j + 1
      BY <2>2
    <3>2. A[u] = Packet(l, F[u])
      BY <1>1, AddressedShape DEF A
    <3>3. QED
      BY <2>1, <3>1, <3>2 DEF x
  <2>4. Carry(Append(down, x), L \cup {Len(down) + 1}, A, i, j + 1)
    BY <1>1, <1>4, <1>x, <2>3, CarryAppend
  <2>5. Carry(Append(down, x), OnChannel(Append(down, x), l, ch), A, i, j + 1)
    BY <1>4, <1>8, <2>4
  <2>6. QED
    BY <1>1, <2>1, <2>2, <2>5 DEF Flows, A, First, Follows
<1>9. QED
  BY <1>7, <1>8 DEF Q, x

\* A packet of a channel is the next of its stream.
LEMMA FlowHead ==
  ASSUME NEW F, NEW l \in Links, NEW ch, NEW down \in Seq(Packets),
         NEW P \in Seq(Seq(Int)), Some(P),
         NEW i, NEW j, NEW n, Flows(F, l, ch, down, P, i, j, n), ChannelOf(First(P)) = ch
  PROVE  Follows(P, F, j) /\ j + 1 \in 1 .. Len(F)
BY FlowSent

\* The program takes the first packet in its connection, of another channel.
LEMMA FlowPass ==
  ASSUME NEW F, NEW l, NEW ch, NEW down \in Seq(Packets),
         Some(down), NEW P,
         NEW i, NEW j, NEW n, Flows(F, l, ch, down, P, i, j, n),
         ~ (Head(down).link = l /\ ChannelOf(Head(down).bytes) = ch)
  PROVE  Flows(F, l, ch, Tail(down), P, i, j, n)
<1> DEFINE K == OnChannel(down, l, ch)
           r == Tail(down)
           A == Addressed(l, F)
<1>1. /\ F \in Seq(Seq(Int)) /\ i \in Nat /\ j \in Nat /\ n \in Nat
      /\ i <= j /\ Carry(down, K, A, i, j)
  BY DEF Flows
<1>2. /\ K \in SUBSET (1 .. Len(down)) /\ 1 \notin K
      /\ OnChannel(r, l, ch) = {k \in 1 .. Len(r) : k + 1 \in K}
  BY PlacesTail DEF Some
<1> HIDE DEF K, A
<1>3. Carry(r, {k \in 1 .. Len(r) : k + 1 \in K}, A, i, j)
  BY <1>1, <1>2, CarryTail DEF Some
<1> HIDE DEF r
<1>4. Flows(F, l, ch, r, P, i, j, n)
  BY <1>2, <1>3 DEF Flows, A
<1>5. QED
  BY <1>4 DEF r

\* It is the next of its channel.
LEMMA FlowGot ==
  ASSUME NEW F, NEW l \in Links, NEW ch, NEW down \in Seq(Packets),
         Some(down), NEW P,
         NEW i, NEW j, NEW n, Flows(F, l, ch, down, P, i, j, n),
         Belongs(Head(down), l, ch)
  PROVE  /\ i + 1 \in 1 .. Len(F) /\ i < n
         /\ Head(down) = Packet(l, Item(F, i))
         /\ Flows(F, l, ch, Tail(down), P, i + 1, j, n)
<1> DEFINE K == OnChannel(down, l, ch)
           r == Tail(down)
           A == Addressed(l, F)
<1>1. /\ F \in Seq(Seq(Int)) /\ i \in Nat /\ j \in Nat /\ n \in Nat
      /\ i <= j /\ j <= n /\ n <= Len(F) /\ Len(F) \in Nat
      /\ Carry(down, K, A, i, j)
      /\ Carry(P, InChannel(P, ch), F, j, n)
  BY LenProperties DEF Flows
<1>2. /\ K \in SUBSET (1 .. Len(down)) /\ 1 \in K
      /\ OnChannel(r, l, ch) = {k \in 1 .. Len(r) : k + 1 \in K}
  BY PlacesTail DEF Belongs, Some
<1> HIDE DEF K, A
<1>3. /\ i < j /\ Head(down) = A[i + 1]
      /\ Carry(r, {k \in 1 .. Len(r) : k + 1 \in K}, A, i + 1, j)
  BY <1>1, <1>2, CarryTail DEF Some
<1> HIDE DEF r
<1>4. i + 1 <= j /\ i + 1 \in 1 .. Len(F) /\ i < n
  BY <1>1, <1>3
<1>5. Head(down) = Packet(l, Item(F, i))
  <2>1. PICK u \in 1 .. Len(F) : u = i + 1
    BY <1>4
  <2>2. A[u] = Packet(l, F[u])
    BY <1>1, AddressedShape DEF A
  <2>3. QED
    BY <1>3, <2>1, <2>2 DEF Item
<1>6. Carry(r, OnChannel(r, l, ch), A, i + 1, j)
  BY <1>2, <1>3
<1>7. Flows(F, l, ch, r, P, i + 1, j, n)
  BY <1>1, <1>4, <1>6 DEF Flows, A
<1>8. QED
  BY <1>4, <1>5, <1>7 DEF r

-----------------------------------------------------------------------------
(* Packets on their way from a board.                                      *)

\* The same for the bytes on their way up.
LEMMA AboveType ==
  ASSUME NEW bd \in BoardType, NEW ua \in UartType, NEW buf \in BufferType
  PROVE  /\ bd.respond \in Seq(Int) /\ bd.send \in Seq(Int)
         /\ ua.from \in Seq(Int) /\ buf.in \in Seq(Int)
         /\ Above(bd, ua, buf) \in Seq(Int)
         /\ Above(bd, ua, buf) = buf.in \o (ua.from \o (bd.respond \o bd.send))
         /\ Above(bd, ua, buf) = <<>> <=>
              bd.respond = <<>> /\ bd.send = <<>> /\ ua.from = <<>> /\ buf.in = <<>>
<1>1. bd.respond \in Seq(Int) /\ bd.send \in Seq(Int)
      /\ ua.from \in Seq(Int) /\ buf.in \in Seq(Int)
  BY DEF BoardType, UartType, BufferType
<1> DEFINE r == bd.respond
           s == bd.send
           f == ua.from
           i == buf.in
<1>2. r \in Seq(Int) /\ s \in Seq(Int) /\ f \in Seq(Int) /\ i \in Seq(Int)
  BY <1>1
<1>3. Above(bd, ua, buf) = ((i \o f) \o r) \o s
  BY DEF Above
<1> HIDE DEF r, s, f, i
<1>4. /\ i \o f \in Seq(Int) /\ r \o s \in Seq(Int) /\ f \o (r \o s) \in Seq(Int)
      /\ (i \o f) \o r \in Seq(Int) /\ ((i \o f) \o r) \o s \in Seq(Int)
  BY <1>2, Joins
<1>5. ((i \o f) \o r) \o s = (i \o f) \o (r \o s)
  <2> DEFINE h == i \o f
  <2>1. h \in Seq(Int)
    BY <1>4
  <2> HIDE DEF h
  <2>2. (h \o r) \o s = h \o (r \o s)
    BY <1>2, <2>1, Assoc, ZenonT(30)
  <2>3. QED
    BY <2>2 DEF h
<1>6. (i \o f) \o (r \o s) = i \o (f \o (r \o s))
  <2> DEFINE h == r \o s
  <2>1. h \in Seq(Int)
    BY <1>4
  <2> HIDE DEF h
  <2>2. (i \o f) \o h = i \o (f \o h)
    BY <1>2, <2>1, Assoc, ZenonT(30)
  <2>3. QED
    BY <2>2 DEF h
<1>7. ((i \o f) \o r) \o s = <<>> <=> r = <<>> /\ s = <<>> /\ f = <<>> /\ i = <<>>
  BY <1>2, <1>4, Joins
<1>8. QED
  BY <1>2, <1>3, <1>4, <1>5, <1>6, <1>7 DEF r, s, f, i

\* How much of a stream a board has made is a number.
LEMMA MadeType ==
  ASSUME NEW b \in Boxes, NEW l, NEW id \in {Bridge} \cup Identities,
         NEW pr \in [Cores -> Nat], NEW e \in Nat
  PROVE  /\ Replies \in Channels
         /\ \A ch \in Channels : Stream(b, l, id, ch) \in Seq(Seq(Int))
                                 /\ Made(b, l, id, pr, e, ch) \in Nat
<1>1. Replies \in Channels
  BY DEF Channels
<1>2. ASSUME NEW ch \in Channels
      PROVE  Stream(b, l, id, ch) \in Seq(Seq(Int)) /\ Made(b, l, id, pr, e, ch) \in Nat
  <2>1. Stream(b, l, id, ch) \in Seq(Seq(Int)) /\ Stream(b, l, id, Replies) \in Seq(Seq(Int))
    BY <1>1, StreamShape
  <2>2. Len(Stream(b, l, id, Replies)) \in Nat
    BY <2>1, LenProperties
  <2>3. ch # Replies => pr[ch] \in Nat
    BY DEF Channels
  <2>4. QED
    BY <2>1, <2>2, <2>3 DEF Made
<1>3. QED
  BY <1>1, <1>2

\* The bytes go on, or something else happens to the board: its packets
\* stay what they are.
LEMMA UpMove ==
  ASSUME NEW b, NEW l, NEW id, NEW down, NEW buf, NEW ua, NEW bd, NEW pr, NEW e,
         NEW g, NEW a, NEW P, Up(b, l, id, down, buf, ua, bd, pr, e, g, a, P),
         NEW buf2, NEW ua2, NEW bd2, NEW pr2 \in [Cores -> Nat], NEW e2 \in Nat,
         Above(bd2, ua2, buf2) = Above(bd, ua, buf),
         \A ch \in Channels : Made(b, l, id, pr2, e2, ch) = Made(b, l, id, pr, e, ch),
         OneAtATime(bd2)
  PROVE  Up(b, l, id, down, buf2, ua2, bd2, pr2, e2, g, a, P)
BY DEF Up

\* The board makes a packet.
LEMMA UpMade ==
  ASSUME NEW b \in Boxes, NEW l, NEW id \in {Bridge} \cup Identities, NEW down,
         NEW buf \in BufferType, NEW ua \in UartType, NEW bd \in BoardType,
         NEW pr, NEW e, NEW g, NEW a, NEW P,
         Up(b, l, id, down, buf, ua, bd, pr, e, g, a, P),
         NEW x \in Seq(Int), NEW buf2, NEW ua2, NEW bd2,
         NEW pr2 \in [Cores -> Nat], NEW e2 \in Nat,
         Adds(bd, ua, buf, bd2, ua2, buf2, x), Grows(b, l, id, pr, e, pr2, e2, x),
         Sound(x, id), OneAtATime(bd2)
  PROVE  Rises(b, l, id, down, buf2, ua2, bd2, pr2, e2, g)
<1>0. /\ pr \in [Cores -> Nat] /\ e \in Nat
      /\ g \in [Channels -> Nat] /\ a \in [Channels -> Nat] /\ P \in Seq(Seq(Int))
  BY DEF Up
<1> USE <1>0
<1> DEFINE Q == Append(P, x)
           M(ch) == Made(b, l, id, pr, e, ch)
           M2(ch) == Made(b, l, id, pr2, e2, ch)
           S(ch) == Stream(b, l, id, ch)
<1>1. Cut(Above(bd2, ua2, buf2), Q)
  <2>1. Above(bd, ua, buf) \in Seq(Int)
    BY AboveType
  <2>2. Cut(Above(bd, ua, buf), P)
    BY DEF Up
  <2>3. QED
    BY <2>1, <2>2, CutAppend DEF Adds
<1>2. ASSUME NEW ch \in Channels
      PROVE  Flows(S(ch), l, ch, down, Q, g[ch], a[ch], M2(ch))
  <2>1. Flows(S(ch), l, ch, down, P, g[ch], a[ch], M(ch))
    BY DEF Up
  <2>2. S(ch) \in Seq(Seq(Int)) /\ M(ch) \in Nat /\ g[ch] \in Nat /\ a[ch] \in Nat
    BY MadeType
  <2>3. IF ChannelOf(x) = ch
        THEN M(ch) < Len(S(ch)) /\ x = Item(S(ch), M(ch)) /\ M2(ch) = M(ch) + 1
        ELSE M2(ch) = M(ch)
    BY DEF Grows
  <2> HIDE DEF Q, M, M2, S
  <2>4. ASSUME ChannelOf(x) = ch PROVE Flows(S(ch), l, ch, down, Q, g[ch], a[ch], M2(ch))
    <3>1. M(ch) < Len(S(ch)) /\ x = Item(S(ch), M(ch))
      BY <2>3, <2>4
    <3>2. Flows(S(ch), l, ch, down, Append(P, x), g[ch], a[ch], M(ch) + 1)
      BY <2>1, <2>2, <2>4, <3>1, FlowMade
    <3>3. QED
      BY <2>3, <2>4, <3>2 DEF Q
  <2>5. ASSUME ChannelOf(x) # ch PROVE Flows(S(ch), l, ch, down, Q, g[ch], a[ch], M2(ch))
    <3>2. Flows(S(ch), l, ch, down, Append(P, x), g[ch], a[ch], M(ch))
      BY <2>1, <2>2, <2>5, FlowMade
    <3>3. QED
      BY <2>3, <2>5, <3>2 DEF Q
  <2>6. QED
    BY <2>4, <2>5
<1>3. ASSUME NEW k \in 1 .. Len(Q)
      PROVE  ChannelOf(Q[k]) \in Channels \/ (id # Bridge /\ Q[k] = HeatOut)
  <2>1. Len(Q) = Len(P) + 1 /\ Len(P) \in Nat
        /\ Q[Len(P) + 1] = x /\ (k <= Len(P) => Q[k] = P[k])
    BY AppendProperties
  <2>2. k \in 1 .. Len(P) \/ k = Len(P) + 1
    BY <2>1
  <2>3. CASE k \in 1 .. Len(P)
    BY <2>1, <2>3 DEF Up
  <2>4. CASE k = Len(P) + 1
    BY <2>1, <2>4 DEF Sound
  <2>5. QED
    BY <2>2, <2>3, <2>4
<1>4. Q \in Seq(Seq(Int))
  BY AppendProperties
<1>5. Up(b, l, id, down, buf2, ua2, bd2, pr2, e2, g, a, Q)
  BY <1>1, <1>2, <1>3, <1>4 DEF Up
<1>6. QED
  BY <1>5 DEF Rises

\* A packet of another link, or of no channel, comes to the program's
\* connection.
LEMMA UpArrive ==
  ASSUME NEW b \in Boxes, NEW l, NEW id \in {Bridge} \cup Identities,
         NEW down \in Seq(Packets), NEW buf, NEW ua, NEW bd,
         NEW pr, NEW e, NEW g, NEW a, NEW P,
         Up(b, l, id, down, buf, ua, bd, pr, e, g, a, P),
         NEW x \in Packets, x.link # l \/ ChannelOf(x.bytes) \notin Channels
  PROVE  Up(b, l, id, Append(down, x), buf, ua, bd, pr, e, g, a, P)
<1>0. /\ pr \in [Cores -> Nat] /\ e \in Nat
      /\ g \in [Channels -> Nat] /\ a \in [Channels -> Nat] /\ P \in Seq(Seq(Int))
  BY DEF Up
<1> USE <1>0
<1>1. ASSUME NEW ch \in Channels
      PROVE  Flows(Stream(b, l, id, ch), l, ch, Append(down, x), P, g[ch], a[ch],
                   Made(b, l, id, pr, e, ch))
  <2>1. Flows(Stream(b, l, id, ch), l, ch, down, P, g[ch], a[ch], Made(b, l, id, pr, e, ch))
    BY DEF Up
  <2>2. /\ Stream(b, l, id, ch) \in Seq(Seq(Int)) /\ Made(b, l, id, pr, e, ch) \in Nat
        /\ g[ch] \in Nat /\ a[ch] \in Nat
    BY MadeType
  <2>3. ~ (x.link = l /\ ChannelOf(x.bytes) = ch)
    OBVIOUS
  <2>4. QED
    BY <2>1, <2>2, <2>3, FlowArrive
<1>2. QED
  BY <1>1 DEF Up

\* The program takes the first packet in its connection, of another board.
LEMMA UpPass ==
  ASSUME NEW b \in Boxes, NEW l \in Links, NEW id \in {Bridge} \cup Identities,
         NEW down \in Seq(Packets), Some(down), NEW buf, NEW ua, NEW bd,
         NEW pr, NEW e, NEW g, NEW a, NEW P,
         Up(b, l, id, down, buf, ua, bd, pr, e, g, a, P),
         \A ch \in Channels : ~ Belongs(Head(down), l, ch)
  PROVE  Up(b, l, id, Tail(down), buf, ua, bd, pr, e, g, a, P)
<1>1. ASSUME NEW ch \in Channels
      PROVE  Flows(Stream(b, l, id, ch), l, ch, Tail(down), P, g[ch], a[ch],
                   Made(b, l, id, pr, e, ch))
  <2> DEFINE M == Made(b, l, id, pr, e, ch)
             S == Stream(b, l, id, ch)
  <2>1. Flows(S, l, ch, down, P, g[ch], a[ch], M)
    BY DEF Up
  <2>2. ~ (Head(down).link = l /\ ChannelOf(Head(down).bytes) = ch)
    BY DEF Belongs
  <2> HIDE DEF M, S
  <2>3. Flows(S, l, ch, Tail(down), P, g[ch], a[ch], M)
    BY <2>1, <2>2, FlowPass
  <2>4. QED
    BY <2>3 DEF M, S
<1>2. QED
  BY <1>1 DEF Up

\* The same, of this board.
LEMMA UpGot ==
  ASSUME NEW b \in Boxes, NEW l \in Links, NEW id \in {Bridge} \cup Identities,
         NEW down \in Seq(Packets), Some(down), NEW buf, NEW ua, NEW bd,
         NEW pr, NEW e, NEW g, NEW a, NEW P,
         Up(b, l, id, down, buf, ua, bd, pr, e, g, a, P),
         NEW c \in Channels, Belongs(Head(down), l, c)
  PROVE  /\ g[c] + 1 \in 1 .. Len(Stream(b, l, id, c))
         /\ Carries(Head(down), Stream(b, l, id, c), g[c])
         /\ Up(b, l, id, Tail(down), buf, ua, bd, pr, e, [g EXCEPT ![c] = @ + 1], a, P)
<1>0. /\ pr \in [Cores -> Nat] /\ e \in Nat
      /\ g \in [Channels -> Nat] /\ a \in [Channels -> Nat] /\ P \in Seq(Seq(Int))
  BY DEF Up
<1> USE <1>0
<1> DEFINE M(ch) == Made(b, l, id, pr, e, ch)
           S(ch) == Stream(b, l, id, ch)
           g2 == [g EXCEPT ![c] = @ + 1]
<1>1. \A ch \in Channels : Flows(S(ch), l, ch, down, P, g[ch], a[ch], M(ch))
  BY DEF Up
<1> HIDE DEF M, S
<1>2. g[c] + 1 \in 1 .. Len(S(c))
  BY <1>1, FlowGot
<1>3. Carries(Head(down), S(c), g[c])
  <2>1. Head(down) = Packet(l, Item(S(c), g[c]))
    BY <1>1, FlowGot
  <2>2. QED
    BY <2>1 DEF Packet, Carries
<1>4. ASSUME NEW ch \in Channels
      PROVE  Flows(S(ch), l, ch, Tail(down), P, g2[ch], a[ch], M(ch))
  <2>0. Flows(S(ch), l, ch, down, P, g[ch], a[ch], M(ch))
    BY <1>1
  <2>1. CASE ch = c
    <3>1. Belongs(Head(down), l, ch)
      BY <2>1
    <3>2. Flows(S(ch), l, ch, Tail(down), P, g[ch] + 1, a[ch], M(ch))
      BY <2>0, <3>1, FlowGot
    <3>3. g2[ch] = g[ch] + 1
      BY <2>1
    <3>4. QED
      BY <3>2, <3>3
  <2>2. CASE ch # c
    <3>1. ~ (Head(down).link = l /\ ChannelOf(Head(down).bytes) = ch)
      BY <2>2 DEF Belongs
    <3>2. Flows(S(ch), l, ch, Tail(down), P, g[ch], a[ch], M(ch))
      BY <2>0, <3>1, FlowPass
    <3>3. g2[ch] = g[ch]
      BY <2>2
    <3>4. QED
      BY <3>2, <3>3
  <2>3. QED
    BY <2>1, <2>2
<1>5. g2 \in [Channels -> Nat]
  OBVIOUS
<1>6. Up(b, l, id, Tail(down), buf, ua, bd, pr, e, g2, a, P)
  <2> HIDE DEF g2
  <2>1. QED
    BY <1>4, <1>5 DEF Up, M, S
<1>7. QED
  BY <1>2, <1>3, <1>6 DEF S

\* The first bytes of a queue go, whatever follows it.
LEMMA DropFront ==
  ASSUME NEW s \in Seq(Int), NEW t \in Seq(Int), NEW k \in 0 .. Len(s)
  PROVE  SubSeq(s \o t, k + 1, Len(s \o t)) = SubSeq(s, k + 1, Len(s)) \o t
<1> DEFINE u == SubSeq(s, 1, k)
           v == SubSeq(s, k + 1, Len(s))
<1>1. /\ u \in Seq(Int) /\ v \in Seq(Int) /\ Len(u) = k
      /\ (<<>> \o u) \o v = <<>> \o s
  <2>1. <<>> \in Seq(Int)
    OBVIOUS
  <2>2. QED
    BY <2>1, MoveBytes
<1> HIDE DEF u, v
<1>2. u \o v = s
  BY <1>1, Joins
<1>3. s \o t = u \o (v \o t)
  BY <1>1, <1>2, Assoc, ZenonT(30)
<1>4. v \o t \in Seq(Int)
  BY <1>1, Joins
<1> DEFINE w == v \o t
<1> HIDE DEF w
<1>5. w \in Seq(Int) /\ s \o t = u \o w
  BY <1>3, <1>4 DEF w
<1>6. SubSeq(u \o w, Len(u) + 1, Len(u \o w)) = w
  BY <1>1, <1>5, Rest
<1>7. SubSeq(s \o t, k + 1, Len(s \o t)) = w
  BY <1>1, <1>5, <1>6
<1>8. QED
  BY <1>7 DEF v, w

\* Nothing has been sent, got or made.
LEMMA UpStart ==
  ASSUME NEW b \in Boxes, NEW l \in Links, NEW id \in {Bridge} \cup Identities, NEW down,
         NEW buf \in BufferType, NEW ua \in UartType, NEW bd \in BoardType,
         \A ch \in Channels : OnChannel(down, l, ch) = {},
         Above(bd, ua, buf) = <<>>
  PROVE  Up(b, l, id, down, buf, ua, bd, NothingPrinted, 0,
            [ch \in Channels |-> 0], [ch \in Channels |-> 0], <<>>)
<1> DEFINE z == [ch \in Channels |-> 0]
           S(ch) == Stream(b, l, id, ch)
           M(ch) == Made(b, l, id, NothingPrinted, 0, ch)
<1>1. NothingPrinted \in [Cores -> Nat]
  BY DEF NothingPrinted
<1>2. ASSUME NEW ch \in Channels
      PROVE  Flows(S(ch), l, ch, down, <<>>, z[ch], z[ch], M(ch))
  <2>1. S(ch) \in Seq(Seq(Int)) /\ Len(S(ch)) \in Nat
    BY <1>1, MadeType, LenProperties
  <2>2. Len(Stream(b, l, id, Replies)) \in {2, 3}
    <3>1. Replies \in Channels
      BY DEF Channels
    <3>2. Len(Stream(b, l, id, Replies)) =
            IF Replies = Replies /\ id = Bridge /\ b = Master THEN 3 ELSE 2
      BY <3>1, StreamShape
    <3>3. QED
      BY <3>2
  <2>3. M(ch) = 0
    <3>1. CASE ch = Replies
      BY <2>2, <3>1 DEF Made
    <3>2. CASE ch # Replies
      BY <3>2 DEF Made, NothingPrinted, Channels
    <3>3. QED
      BY <3>1, <3>2
  <2>4. InChannel(<<>>, ch) = {}
    <3>1. Len(<<>>) = 0
      OBVIOUS
    <3>2. 1 .. Len(<<>>) = {}
      BY <3>1
    <3>3. QED
      BY <3>2 DEF InChannel
  <2> HIDE DEF S, M
  <2>5. Carry(down, OnChannel(down, l, ch), Addressed(l, S(ch)), 0, 0)
    BY CarryNone
  <2>6. Carry(<<>>, InChannel(<<>>, ch), S(ch), 0, 0)
    BY <2>4, CarryNone
  <2>7. z[ch] = 0
    OBVIOUS
  <2> HIDE DEF z
  <2>8. QED
    BY <2>1, <2>3, <2>5, <2>6, <2>7 DEF Flows
<1>3. Cut(Above(bd, ua, buf), <<>>)
  <2>1. <<>> \in Seq(Int)
    OBVIOUS
  <2>2. Cut(<<>>, <<>>)
    BY <2>1, CutNone
  <2>3. QED
    BY <2>2
<1>4. bd.respond = <<>>
  BY AboveType
<1>5. 1 .. Len(<<>>) = {}
  <2>1. Len(<<>>) = 0
    OBVIOUS
  <2>2. QED
    BY <2>1
<1>6. z \in [Channels -> Nat] /\ <<>> \in Seq(Seq(Int))
  OBVIOUS
<1>7. QED
  BY <1>1, <1>2, <1>3, <1>4, <1>5, <1>6 DEF Up, OneAtATime

\* A bridge all of whose replies have come is quiet.
LEMMA UpQuiet ==
  ASSUME NEW b \in Boxes, NEW l \in Links, NEW down \in Seq(Packets),
         NEW buf \in BufferType, NEW ua \in UartType, NEW bd \in BoardType,
         NEW pr, NEW e, NEW g, NEW a, NEW P,
         Up(b, l, Bridge, down, buf, ua, bd, pr, e, g, a, P),
         \A ch \in Channels : Made(b, l, Bridge, pr, e, ch) = g[ch]
  PROVE  Above(bd, ua, buf) = <<>>
<1>0. /\ pr \in [Cores -> Nat] /\ e \in Nat
      /\ g \in [Channels -> Nat] /\ a \in [Channels -> Nat] /\ P \in Seq(Seq(Int))
  BY DEF Up
<1> USE <1>0
<1>1. ASSUME NEW ch \in Channels
      PROVE  InChannel(P, ch) = {}
  <2>1. Flows(Stream(b, l, Bridge, ch), l, ch, down, P, g[ch], a[ch],
              Made(b, l, Bridge, pr, e, ch))
    BY DEF Up
  <2>p. PICK i \in Nat, j \in Nat :
          \E F : i <= j /\ j <= i /\ Carry(P, InChannel(P, ch), F, j, i)
    BY <2>1 DEF Flows
  <2>2. PICK F : i <= j /\ j <= i /\ Carry(P, InChannel(P, ch), F, j, i)
    BY <2>p
  <2>3. QED
    BY <2>2, CarryNone
<1>2. ASSUME NEW k \in 1 .. Len(P)
      PROVE  FALSE
  <2>1. ChannelOf(P[k]) \in Channels
    BY DEF Up
  <2>2. k \in InChannel(P, ChannelOf(P[k]))
    BY DEF InChannel
  <2>3. QED
    BY <1>1, <2>1, <2>2
<1>3. P = <<>>
  <2>1. Len(P) \in Nat
    BY LenProperties
  <2>2. Len(P) = 0
    BY <1>2, <2>1
  <2>3. QED
    BY <2>2, EmptySeq
<1>4. Above(bd, ua, buf) \in Seq(Int) /\ Cut(Above(bd, ua, buf), <<>>)
  BY <1>3, AboveType DEF Up
<1>5. QED
  BY <1>4, CutNone

\* The bytes at the head of a board's queue to the client begin the first of
\* the packets on their way.
LEMMA UpFirst ==
  ASSUME NEW b \in Boxes, NEW l \in Links, NEW id \in {Bridge} \cup Identities,
         NEW down \in Seq(Packets),
         NEW buf \in BufferType, NEW ua \in UartType, NEW bd \in BoardType,
         NEW pr, NEW e, NEW g, NEW a, NEW P,
         Up(b, l, id, down, buf, ua, bd, pr, e, g, a, P), Some(buf.in)
  PROVE  /\ Some(P) /\ Proper(First(P), id) /\ Begins(First(P), buf.in)
         /\ Cut(SubSeq(Above(bd, ua, buf), Len(First(P)) + 1, Len(Above(bd, ua, buf))), Tail(P))
<1>0. /\ pr \in [Cores -> Nat] /\ e \in Nat
      /\ g \in [Channels -> Nat] /\ a \in [Channels -> Nat] /\ P \in Seq(Seq(Int))
  BY DEF Up
<1> USE <1>0
<1> DEFINE s == Above(bd, ua, buf)
           r == ua.from \o (bd.respond \o bd.send)
           f == buf.in
<1>1. s \in Seq(Int) /\ f \in Seq(Int) /\ r \in Seq(Int) /\ s = f \o r
  <2>1. s \in Seq(Int) /\ f \in Seq(Int) /\ s = f \o r
    BY AboveType
  <2>2. bd.respond \in Seq(Int) /\ bd.send \in Seq(Int) /\ ua.from \in Seq(Int)
    BY AboveType
  <2>3. bd.respond \o bd.send \in Seq(Int)
    BY <2>2, Joins
  <2>4. r \in Seq(Int)
    BY <2>2, <2>3, Joins
  <2>5. QED
    BY <2>1, <2>4
<1>2. Cut(s, P)
  BY DEF Up
<1>3. f # <<>>
  BY DEF Some
<1> HIDE DEF s, r, f
<1>4. s # <<>> /\ Len(f) \in Nat /\ \A i \in 1 .. Len(f) : s[i] = f[i]
  <2>1. Len(f) \in Nat
    BY <1>1, Joins
  <2>2. \A i \in 1 .. Len(f) : (f \o r)[i] = f[i]
    BY <1>1, Joins
  <2>3. f \o r # <<>>
    BY <1>1, <1>3, Joins
  <2>4. QED
    BY <1>1, <2>1, <2>2, <2>3
<1>5. P # <<>>
  BY <1>1, <1>2, <1>4, CutNone
<1>6. /\ First(P) \in Seq(Int) /\ \A j \in 1 .. Len(First(P)) : s[j] = First(P)[j]
      /\ Cut(SubSeq(s, Len(First(P)) + 1, Len(s)), Tail(P))
  BY <1>1, <1>2, <1>5, CutHead DEF First
<1>7. 1 \in 1 .. Len(P) /\ Some(P)
  BY <1>5, EmptySeq, LenProperties DEF Some
<1>8. ChannelOf(First(P)) \in Channels \/ (id # Bridge /\ First(P) = HeatOut)
  BY <1>7 DEF Up, First
<1>9. Proper(First(P), id)
  <2>1. CASE ChannelOf(First(P)) \in Channels
    <3>1. PICK c \in Channels : ChannelOf(First(P)) = c
      BY <2>1
    <3>2. Flows(Stream(b, l, id, c), l, c, down, P, g[c], a[c], Made(b, l, id, pr, e, c))
      BY DEF Up
    <3>p. Follows(P, Stream(b, l, id, c), a[c]) /\ a[c] + 1 \in 1 .. Len(Stream(b, l, id, c))
      BY <1>7, <3>1, <3>2, FlowHead
    <3>3. Follows(P, Stream(b, l, id, c), a[c])
      BY <3>p
    <3>4. a[c] + 1 \in 1 .. Len(Stream(b, l, id, c))
      BY <3>p
    <3>5. PICK k \in 1 .. Len(Stream(b, l, id, c)) : First(P) = Stream(b, l, id, c)[k]
      BY <3>3, <3>4 DEF Follows, First
    <3>6. First(P)[1] \in {QUERY, TEMP, STD} /\ Len(First(P)) = fromDebugLinkSize(First(P)[1])
      <4>1. \A i \in 1 .. Len(Stream(b, l, id, c)) :
              /\ Stream(b, l, id, c)[i][1] \in {QUERY, TEMP, STD}
              /\ Len(Stream(b, l, id, c)[i]) = fromDebugLinkSize(Stream(b, l, id, c)[i][1])
        BY StreamShape
      <4>2. QED
        BY <3>5, <4>1
    <3>a. First(P)[1] # OVERHEAT
      <4>1. \A v \in {QUERY, TEMP, STD} : v # OVERHEAT
        BY DEF OVERHEAT, QUERY, TEMP, STD
      <4>2. QED
        BY <3>6, <4>1
    <3>b. Len(First(P)) \in {2, 4}
      BY <3>6, Codes
    <3>7. Len(First(P)) \in Nat \ {0} /\ First(P)[1] # OVERHEAT
      BY <3>a, <3>b
    <3>8. QED
      BY <1>6, <2>1, <3>6, <3>7 DEF Proper
  <2>2. CASE id # Bridge /\ First(P) = HeatOut
    <3>1. HeatOut \in Seq(Int) /\ Len(HeatOut) = 1 /\ HeatOut[1] = OVERHEAT
      BY DEF HeatOut, OVERHEAT
    <3>2. QED
      BY <2>2, <3>1, Codes DEF Proper
  <2>3. QED
    BY <1>8, <2>1, <2>2
<1>10. Begins(First(P), f)
  <2>1. Len(First(P)) \in Nat
    BY <1>6, LenProperties
  <2>2. QED
    BY <1>4, <1>6, <2>1 DEF Begins
<1>11. QED
  BY <1>6, <1>7, <1>9, <1>10 DEF f, s

\* boardctrld takes the first bytes of the queue, a packet.
LEMMA AboveDropped ==
  ASSUME NEW buf \in BufferType, NEW ua \in UartType, NEW bd \in BoardType,
         NEW k \in 0 .. Len(buf.in), NEW buf2 \in BufferType,
         buf2.in = SubSeq(buf.in, k + 1, Len(buf.in))
  PROVE  SubSeq(Above(bd, ua, buf), k + 1, Len(Above(bd, ua, buf))) = Above(bd, ua, buf2)
<1> DEFINE r == ua.from \o (bd.respond \o bd.send)
           f == buf.in
<1>1. f \in Seq(Int) /\ Above(bd, ua, buf) = f \o r /\ Above(bd, ua, buf2) = buf2.in \o r
  BY AboveType
<1>2. r \in Seq(Int)
  <2>1. bd.respond \in Seq(Int) /\ bd.send \in Seq(Int) /\ ua.from \in Seq(Int)
    BY AboveType
  <2>2. bd.respond \o bd.send \in Seq(Int)
    BY <2>1, Joins
  <2>3. QED
    BY <2>1, <2>2, Joins
<1>3. k \in 0 .. Len(f) /\ buf2.in = SubSeq(f, k + 1, Len(f))
  OBVIOUS
<1> HIDE DEF r, f
<1>4. SubSeq(f \o r, k + 1, Len(f \o r)) = SubSeq(f, k + 1, Len(f)) \o r
  BY <1>1, <1>2, <1>3, DropFront
<1>5. QED
  BY <1>1, <1>3, <1>4

\* boardctrld sends the packet at the head of the queue to the program.
LEMMA UpToClient ==
  ASSUME NEW b \in Boxes, NEW l \in Links, NEW id \in {Bridge} \cup Identities,
         NEW down \in Seq(Packets),
         NEW buf \in BufferType, NEW ua \in UartType, NEW bd \in BoardType,
         NEW pr, NEW e, NEW g, NEW a, NEW P,
         Up(b, l, id, down, buf, ua, bd, pr, e, g, a, P),
         WholePacket(buf.in), buf.in[1] # OVERHEAT,
         NEW x, Whole(x, l, buf.in), NEW buf2 \in BufferType,
         buf2.in = Dropped(buf.in, fromDebugLinkSize(buf.in[1]))
  PROVE  /\ x \in Packets /\ ChannelOf(x.bytes) \in Channels
         /\ Rises(b, l, id, Append(down, x), buf2, ua, bd, pr, e, g)
<1> DEFINE n == fromDebugLinkSize(buf.in[1])
<1>0. /\ pr \in [Cores -> Nat] /\ e \in Nat
      /\ g \in [Channels -> Nat] /\ a \in [Channels -> Nat] /\ P \in Seq(Seq(Int))
  BY DEF Up
<1> USE <1>0
<1>1. Some(buf.in) /\ Len(buf.in) >= n
  BY DEF WholePacket, Some
<1>a. Some(P) /\ Proper(First(P), id)
  BY <1>1, UpFirst
<1>b. Begins(First(P), buf.in)
  BY <1>1, UpFirst
<1>c. Cut(SubSeq(Above(bd, ua, buf), Len(First(P)) + 1, Len(Above(bd, ua, buf))), Tail(P))
  BY <1>1, UpFirst
<1>d. buf.in \in Seq(Int) /\ Len(buf.in) \in Nat \ {0}
  <2>1. buf.in \in Seq(Int)
    BY AboveType
  <2>2. QED
    BY <1>1, <2>1, EmptySeq, LenProperties DEF Some
<1>2. /\ Some(P) /\ First(P) \in Seq(Int) /\ Len(First(P)) = n /\ n \in Nat \ {0}
      /\ ChannelOf(First(P)) \in Channels
      /\ Cut(SubSeq(Above(bd, ua, buf), n + 1, Len(Above(bd, ua, buf))), Tail(P))
  <2>1. /\ First(P) \in Seq(Int) /\ Len(First(P)) \in Nat \ {0}
        /\ Len(First(P)) = fromDebugLinkSize(First(P)[1])
    BY <1>a DEF Proper
  <2>2. First(P)[1] = buf.in[1]
    <3>1. Len(First(P)) \in Nat \ {0} /\ Len(buf.in) \in Nat \ {0}
      BY <1>d, <2>1
    <3>2. 1 \in 1 .. Len(First(P)) /\ 1 <= Len(buf.in)
      BY <3>1
    <3>3. QED
      BY <1>b, <3>2 DEF Begins
  <2>3. Len(First(P)) = n
    BY <2>1, <2>2
  <2>4. ChannelOf(First(P)) \in Channels
    BY <1>a, <2>2 DEF Proper
  <2>5. QED
    BY <1>a, <1>c, <2>1, <2>3, <2>4
<1>3. Len(buf.in) \in Nat /\ n \in 0 .. Len(buf.in)
  <2>1. buf.in \in Seq(Int)
    BY AboveType
  <2>2. QED
    BY <1>1, <1>2, <2>1, LenProperties
<1>4. Cut(Above(bd, ua, buf2), Tail(P))
  <2>1. buf2.in = SubSeq(buf.in, n + 1, Len(buf.in))
    BY DEF Dropped
  <2>2. SubSeq(Above(bd, ua, buf), n + 1, Len(Above(bd, ua, buf))) = Above(bd, ua, buf2)
    BY <1>3, <2>1, AboveDropped
  <2>3. QED
    BY <1>2, <2>2
<1>5. [j \in 1 .. n |-> buf.in[j]] = First(P)
  <2>1. First(P) \in [1 .. n -> Int]
    BY <1>2
  <2>2. \A j \in 1 .. n : First(P)[j] = buf.in[j]
    BY <1>2, <1>3, <1>b DEF Begins
  <2>3. QED
    BY <2>1, <2>2
<1> DEFINE c == ChannelOf(First(P))
           a2 == [a EXCEPT ![c] = @ + 1]
           S(ch) == Stream(b, l, id, ch)
           M(ch) == Made(b, l, id, pr, e, ch)
<1>e. x = Packet(l, First(P))
  BY <1>5 DEF Whole
<1>6. x \in Packets /\ x.link = l /\ x.bytes = First(P)
  BY <1>2, <1>e DEF Packet, Packets
<1>7. ASSUME NEW ch \in Channels
      PROVE  Flows(S(ch), l, ch, Append(down, x), Tail(P), g[ch], a2[ch], M(ch))
  <2>1. Flows(S(ch), l, ch, down, P, g[ch], a[ch], M(ch))
    BY DEF Up
  <2>2. CASE ch = c
    <3>1. Flows(S(ch), l, ch, Append(down, Packet(l, First(P))), Tail(P), g[ch], a[ch] + 1, M(ch))
      <4> HIDE DEF S, M
      <4>1. QED
        BY <1>2, <1>e, <2>1, <2>2, FlowSent
    <3>2. a2[ch] = a[ch] + 1
      BY <2>2
    <3>3. QED
      BY <1>e, <3>1, <3>2
  <2>3. CASE ch # c
    <3>1. Flows(S(ch), l, ch, down, Tail(P), g[ch], a[ch], M(ch))
      <4> HIDE DEF S, M
      <4>1. QED
        BY <1>2, <2>1, <2>3, FlowSent
    <3>2. a2[ch] = a[ch]
      BY <2>3
    <3>3. ~ (x.link = l /\ ChannelOf(x.bytes) = ch)
      BY <1>6, <2>3
    <3>4. Flows(S(ch), l, ch, Append(down, x), Tail(P), g[ch], a[ch], M(ch))
      <4> HIDE DEF S, M
      <4>1. QED
        BY <1>6, <3>1, <3>3, FlowArrive
    <3>5. QED
      BY <3>2, <3>4
  <2>4. QED
    BY <2>2, <2>3
<1>8. Tail(P) \in Seq(Seq(Int)) /\ Len(Tail(P)) \in Nat
      /\ \A k \in 1 .. Len(Tail(P)) : Tail(P)[k] = P[k + 1] /\ k + 1 \in 1 .. Len(P)
  BY <1>2, HeadTailProperties, LenProperties DEF Some
<1>9. ASSUME NEW k \in 1 .. Len(Tail(P))
      PROVE  ChannelOf(Tail(P)[k]) \in Channels
               \/ (id # Bridge /\ Tail(P)[k] = HeatOut)
  <2>1. PICK j \in 1 .. Len(P) : Tail(P)[k] = P[j]
    BY <1>8
  <2>2. QED
    BY <2>1 DEF Up
<1>10. OneAtATime(bd)
  BY DEF Up
<1>11. Up(b, l, id, Append(down, x), buf2, ua, bd, pr, e, g, a2, Tail(P))
  <2>1. a2 \in [Channels -> Nat]
    BY <1>2
  <2>2. QED
    BY <1>4, <1>7, <1>8, <1>9, <1>10, <2>1 DEF Up
<1>12. QED
  BY <1>2, <1>6, <1>11 DEF Rises

\* boardctrld drops an overheat report.
LEMMA UpReport ==
  ASSUME NEW b \in Boxes, NEW l \in Links, NEW id \in {Bridge} \cup Identities,
         NEW down \in Seq(Packets),
         NEW buf \in BufferType, NEW ua \in UartType, NEW bd \in BoardType,
         NEW pr, NEW e, NEW g, NEW a, NEW P,
         Up(b, l, id, down, buf, ua, bd, pr, e, g, a, P),
         Some(buf.in), Head(buf.in) = OVERHEAT,
         NEW buf2 \in BufferType, buf2.in = Tail(buf.in)
  PROVE  Up(b, l, id, down, buf2, ua, bd, pr, e, g, a, Tail(P))
<1>0. /\ pr \in [Cores -> Nat] /\ e \in Nat
      /\ g \in [Channels -> Nat] /\ a \in [Channels -> Nat] /\ P \in Seq(Seq(Int))
  BY DEF Up
<1> USE <1>0
<1>1. buf.in \in Seq(Int)
  BY AboveType
<1>2. buf.in[1] = OVERHEAT /\ Len(buf.in) \in Nat \ {0}
      /\ Tail(buf.in) = SubSeq(buf.in, 2, Len(buf.in))
  BY <1>1, HeadTailProperties, EmptySeq, LenProperties DEF Some
<1>a. Some(P) /\ Proper(First(P), id)
  BY UpFirst
<1>b. Begins(First(P), buf.in)
  BY UpFirst
<1>c. Cut(SubSeq(Above(bd, ua, buf), Len(First(P)) + 1, Len(Above(bd, ua, buf))), Tail(P))
  BY UpFirst
<1>3. First(P) = HeatOut
  <2>1. Len(First(P)) \in Nat \ {0}
    BY <1>a DEF Proper
  <2>2. First(P)[1] = buf.in[1]
    BY <1>2, <1>b, <2>1 DEF Begins
  <2>3. QED
    BY <1>2, <1>a, <2>2 DEF Proper
<1>4. Len(First(P)) = 1 /\ ChannelOf(First(P)) \notin Channels
  BY <1>3 DEF ChannelOf, HeatOut, OVERHEAT, QUERY, TEMP, STD, Channels, Replies, Cores
<1>5. Cut(Above(bd, ua, buf2), Tail(P))
  <2>1. 1 \in 0 .. Len(buf.in) /\ buf2.in = SubSeq(buf.in, 1 + 1, Len(buf.in))
    BY <1>2
  <2>2. SubSeq(Above(bd, ua, buf), 1 + 1, Len(Above(bd, ua, buf))) = Above(bd, ua, buf2)
    BY <2>1, AboveDropped
  <2>3. QED
    BY <1>c, <1>4, <2>2
<1>6. ASSUME NEW ch \in Channels
      PROVE  Flows(Stream(b, l, id, ch), l, ch, down, Tail(P), g[ch], a[ch],
                   Made(b, l, id, pr, e, ch))
  <2>1. Flows(Stream(b, l, id, ch), l, ch, down, P, g[ch], a[ch], Made(b, l, id, pr, e, ch))
    BY DEF Up
  <2>2. ChannelOf(First(P)) # ch
    BY <1>4
  <2>3. QED
    BY <1>a, <2>1, <2>2, FlowSent
<1>7. /\ Tail(P) \in Seq(Seq(Int)) /\ Len(Tail(P)) \in Nat
      /\ \A k \in 1 .. Len(Tail(P)) : Tail(P)[k] = P[k + 1] /\ k + 1 \in 1 .. Len(P)
  BY <1>a, HeadTailProperties, LenProperties DEF Some
<1>8. ASSUME NEW k \in 1 .. Len(Tail(P))
      PROVE  ChannelOf(Tail(P)[k]) \in Channels
               \/ (id # Bridge /\ Tail(P)[k] = HeatOut)
  <2>1. PICK j \in 1 .. Len(P) : Tail(P)[k] = P[j]
    BY <1>7
  <2>2. QED
    BY <2>1 DEF Up
<1>9. OneAtATime(bd)
  BY DEF Up
<1>10. QED
  BY <1>5, <1>6, <1>7, <1>8, <1>9 DEF Up

-----------------------------------------------------------------------------
(* The registers of a board.                                               *)

\* What a board does with a command.
Exec(b, l, bd, pkt) ==
  IF IsBridge(b, l) THEN BridgeExec(b, l, [bd EXCEPT !.recv = <<>>], pkt)
  ELSE WorkerExec(b, l, [bd EXCEPT !.recv = <<>>], pkt)

\* The next command of a board that has done e: its reply is ready.
Does(b, l, bd, x, bd2) == bd2 = Exec(b, l, bd, x)

\* What a command makes of the registers and of the replies.
Replied(b, l, id, bd, bd2, e) ==
  /\ bd2.send = bd.send
  /\ IF e < Len(Stream(b, l, id, Replies))
     THEN bd2.respond = Item(Stream(b, l, id, Replies), e) /\ ~ Some(bd.send)
     ELSE bd2.respond = <<>>
  /\ id = Bridge /\ b = Master /\ (bd.idle => e >= 2) => (bd2.idle => e + 1 >= 2)

\* A board that does the next command has the registers of one command more.
LEMMA Executed ==
  ASSUME NEW b \in Boxes, NEW l \in Links, NEW bd \in BoardType, NEW pr, NEW e \in Nat,
         NEW id \in {Bridge} \cup Identities, chain[b][l] = id,
         Registers(b, id, bd, pr, e), NEW x, Command(b, id, e, x),
         ~ Some(bd.respond), NEW q, Does(b, l, bd, x, q)
  PROVE  /\ q \in BoardType /\ ~ Some(q.recv) /\ Registers(b, id, q, pr, e + 1)
         /\ Replied(b, l, id, bd, q, e)
<1>a. e + 1 \in 1 .. Len(Commands(b, id)) /\ bd.respond = <<>>
  BY DEF Command, Some
<1> USE <1>a
<1> DEFINE bd2 == Exec(b, l, bd, Commands(b, id)[e + 1])
           bd0 == [bd EXCEPT !.recv = <<>>]
           S == Stream(b, l, id, Replies)
           Done == /\ bd2 \in BoardType /\ bd2.recv = <<>> /\ bd2.send = bd.send
                   /\ Registers(b, id, bd2, pr, e + 1)
                   /\ IF e < Len(S) THEN bd2.respond = S[e + 1] /\ bd.send = <<>>
                      ELSE bd2.respond = <<>>
                   /\ id = Bridge /\ b = Master /\ (bd.idle => e >= 2)
                        => (bd2.idle => e + 1 >= 2)
<1>0. /\ bd0 \in BoardType /\ bd0.recv = <<>> /\ bd0.send = bd.send /\ bd0.respond = <<>>
      /\ bd0.offset = bd.offset /\ bd0.linkEn = bd.linkEn /\ bd0.destCore = bd.destCore
      /\ bd0.idle = bd.idle /\ bd0.started = bd.started
  BY DEF BoardType
<1>1. OffsetOf(b) \in Nat /\ id \in Int
  BY BoxNumbers, IdentityShape DEF Bridge
<1>2. ASSUME id # Bridge PROVE Done
  <2>1. e \in 0 .. 3
    <3>1. Len(Commands(b, id)) = 4
      BY <1>2, CommandShape
    <3>2. QED
      BY <3>1
  <2>2. S = <<<<QUERY, 1 + id>>, TempOut>> /\ Len(S) = 2
    BY <1>2 DEF Stream, Answer
  <2> DEFINE C == Commands(b, id)
  <2>a. C = <<QueryIn(b), <<TEMP>>, <<SET_DEST, 0, BROADCAST>>, <<STD, 0>>>>
    BY <1>2 DEF Commands
  <2>3. bd2 = WorkerExec(b, l, bd0, C[e + 1])
    BY <1>2 DEF Exec, IsBridge
  <2> HIDE DEF C
  <2>4. /\ bd.offset = IF e >= 1 THEN <<OffsetOf(b)>> ELSE <<>>
        /\ bd.linkEn = IF e >= 1 THEN LinkEn(id, EdgesOf(b)) ELSE {}
        /\ bd.destCore = IF e >= 3 THEN BROADCAST ELSE 0
        /\ bd.started = IF e >= 4 THEN Cores ELSE {}
        /\ bd.idle = FALSE
        /\ e < 4 => bd.send = <<>>
    BY <1>2 DEF Registers
  <2> HIDE DEF bd2, bd0, S
  <2>5. CASE e = 0
    <3>1. bd2 = [bd0 EXCEPT !.offset = <<OffsetOf(b)>>, !.respond = <<QUERY, 1 + id>>,
                            !.linkEn = LinkEn(id, EdgesOf(b))]
      <4>1. C[e + 1] = QueryIn(b)
        BY <2>5, <2>a
      <4>2. /\ C[e + 1][1] = QUERY /\ C[e + 1][2] = OffsetOf(b) /\ C[e + 1][3] = EdgesOf(b)
        BY <4>1 DEF QueryIn
      <4>3. WorkerExec(b, l, bd0, C[e + 1])
              = [bd0 EXCEPT !.offset = <<C[e + 1][2]>>, !.respond = QueryOut(b, l),
                            !.linkEn = LinkEn(chain[b][l], C[e + 1][3])]
        BY <4>2 DEF WorkerExec, TEMP, QUERY, SET_DEST, STD
      <4>4. QED
        BY <2>3, <4>2, <4>3 DEF QueryOut
    <3>2. /\ <<OffsetOf(b)>> \in Seq(Int) /\ <<QUERY, 1 + id>> \in Seq(Int)
          /\ LinkEn(id, EdgesOf(b)) \in SUBSET {"N", "S", "E", "W"}
      BY <1>1 DEF QUERY, LinkEn
    <3>3. /\ bd2 \in BoardType /\ bd2.recv = <<>> /\ bd2.send = bd.send
          /\ bd2.respond = <<QUERY, 1 + id>> /\ bd2.offset = <<OffsetOf(b)>>
          /\ bd2.linkEn = LinkEn(id, EdgesOf(b)) /\ bd2.destCore = bd.destCore
          /\ bd2.started = bd.started /\ bd2.idle = bd.idle
      BY <1>0, <3>1, <3>2 DEF BoardType
    <3>4. Registers(b, id, bd2, pr, e + 1)
      BY <1>2, <2>4, <2>5, <3>3 DEF Registers
    <3>5. e < Len(S) /\ bd2.respond = S[e + 1] /\ bd.send = <<>>
      BY <2>2, <2>4, <2>5, <3>3
    <3>6. QED
      BY <1>2, <3>3, <3>4, <3>5 DEF bd2, S
  <2>6. CASE e = 1
    <3>1. bd2 = [bd0 EXCEPT !.respond = TempOut]
      <4>1. C[e + 1] = <<TEMP>>
        BY <2>6, <2>a
      <4>2. C[e + 1][1] = TEMP
        BY <4>1
      <4>3. WorkerExec(b, l, bd0, C[e + 1]) = [bd0 EXCEPT !.respond = TempOut]
        BY <4>2 DEF WorkerExec, TEMP, QUERY, SET_DEST, STD
      <4>4. QED
        BY <2>3, <4>3
    <3>2. TempOut \in Seq(Int)
      BY DEF TempOut, TEMP, Temperature
    <3>3. /\ bd2 \in BoardType /\ bd2.recv = <<>> /\ bd2.send = bd.send
          /\ bd2.respond = TempOut /\ bd2.offset = bd.offset
          /\ bd2.linkEn = bd.linkEn /\ bd2.destCore = bd.destCore
          /\ bd2.started = bd.started /\ bd2.idle = bd.idle
      BY <1>0, <3>1, <3>2 DEF BoardType
    <3>4. Registers(b, id, bd2, pr, e + 1)
      BY <1>2, <2>4, <2>6, <3>3 DEF Registers
    <3>5. e < Len(S) /\ bd2.respond = S[e + 1] /\ bd.send = <<>>
      BY <2>2, <2>4, <2>6, <3>3
    <3>6. QED
      BY <1>2, <3>3, <3>4, <3>5 DEF bd2, S
  <2>7. CASE e = 2
    <3>1. bd2 = [bd0 EXCEPT !.destCore = BROADCAST]
      <4>1. C[e + 1] = <<SET_DEST, 0, BROADCAST>>
        BY <2>7, <2>a
      <4>2. C[e + 1][1] = SET_DEST /\ C[e + 1][3] = BROADCAST
        BY <4>1
      <4>3. WorkerExec(b, l, bd0, C[e + 1]) = [bd0 EXCEPT !.destCore = C[e + 1][3]]
        BY <4>2 DEF WorkerExec, TEMP, QUERY, SET_DEST, STD
      <4>4. QED
        BY <2>3, <4>2, <4>3
    <3>3. /\ bd2 \in BoardType /\ bd2.recv = <<>> /\ bd2.send = bd.send
          /\ bd2.respond = <<>> /\ bd2.offset = bd.offset
          /\ bd2.linkEn = bd.linkEn /\ bd2.destCore = BROADCAST
          /\ bd2.started = bd.started /\ bd2.idle = bd.idle
      <4>1. BROADCAST \in Int
        BY DEF BROADCAST
      <4>2. QED
        BY <1>0, <3>1, <4>1 DEF BoardType
    <3>4. Registers(b, id, bd2, pr, e + 1)
      BY <1>2, <2>4, <2>7, <3>3 DEF Registers
    <3>5. ~ (e < Len(S))
      BY <2>2, <2>7
    <3>6. QED
      BY <1>2, <3>3, <3>4, <3>5 DEF bd2, S
  <2>8. CASE e = 3
    <3>1. bd2 = [bd0 EXCEPT !.started = Cores]
      <4>1. bd0.destCore = BROADCAST /\ bd0.started = {}
        BY <1>0, <2>4, <2>8
      <4>2. bd0.destCore >= BROADCAST
        BY <4>1 DEF BROADCAST
      <4>3. bd2 = [bd0 EXCEPT !.started = @ \cup Cores]
        <5>1. C[e + 1] = <<STD, 0>>
          BY <2>8, <2>a
        <5>2. C[e + 1][1] = STD
          BY <5>1
        <5>3. WorkerExec(b, l, bd0, C[e + 1])
                = [bd0 EXCEPT !.started = @ \cup (IF bd0.destCore >= BROADCAST THEN Cores
                                                  ELSE {bd0.destCore})]
          BY <5>2 DEF WorkerExec, TEMP, QUERY, SET_DEST, STD
        <5>4. QED
          BY <2>3, <4>2, <5>3
      <4>4. bd2 = [bd0 EXCEPT !.started = {} \cup Cores]
        BY <4>1, <4>3
      <4>5. QED
        BY <4>4
    <3>3. /\ bd2 \in BoardType /\ bd2.recv = <<>> /\ bd2.send = bd.send
          /\ bd2.respond = <<>> /\ bd2.offset = bd.offset
          /\ bd2.linkEn = bd.linkEn /\ bd2.destCore = bd.destCore
          /\ bd2.started = Cores /\ bd2.idle = bd.idle
      BY <1>0, <3>1 DEF BoardType
    <3>4. Registers(b, id, bd2, pr, e + 1)
      BY <1>2, <2>4, <2>8, <3>3 DEF Registers
    <3>5. ~ (e < Len(S))
      BY <2>2, <2>8
    <3>6. QED
      BY <1>2, <3>3, <3>4, <3>5 DEF bd2, S
  <2>9. QED
    BY <2>1, <2>5, <2>6, <2>7, <2>8
<1>3. ASSUME id = Bridge PROVE Done
  <2>1. bd.started = {} /\ bd.send = <<>> /\ pr = NothingPrinted
    BY <1>3 DEF Registers
  <2>2. bd2 = IF Commands(b, id)[e + 1][1] = TEMP THEN [bd0 EXCEPT !.respond = TempOut]
              ELSE [bd0 EXCEPT !.respond = <<QUERY, 1 + id>>,
                               !.idle = @ \/ Commands(b, id)[e + 1][1] # QUERY]
    BY <1>3 DEF Exec, IsBridge, BridgeExec, QueryOut
  <2>3. e < Len(S)
        /\ IF Commands(b, id)[e + 1][1] = TEMP THEN S[e + 1] = TempOut
           ELSE S[e + 1] = <<QUERY, 1 + id>> /\ (Commands(b, id)[e + 1][1] = QUERY \/ e + 1 >= 2)
    <3>1. QueryIn(b)[1] = QUERY /\ EnableIn[1] = EN_IDLE /\ <<TEMP>>[1] = TEMP
          /\ QUERY # TEMP /\ EN_IDLE # TEMP
      BY DEF QueryIn, EnableIn, QUERY, TEMP, EN_IDLE
    <3>2. CASE b = Master
      <4>1. Commands(b, id) = <<QueryIn(b), EnableIn, <<TEMP>>>>
        BY <1>3, <3>2 DEF Commands
      <4>2. S = <<<<QUERY, 1 + id>>, <<QUERY, 1 + id>>, TempOut>>
        BY <1>3, <3>2 DEF Stream, Answer
      <4> HIDE DEF S
      <4>3. Len(Commands(b, id)) = 3 /\ Len(S) = 3
        BY <4>1, <4>2
      <4>4. e \in {0, 1, 2}
        BY <4>3
      <4>5. QED
        BY <3>1, <4>1, <4>2, <4>3, <4>4
    <3>3. CASE b # Master
      <4>1. Commands(b, id) = <<QueryIn(b), <<TEMP>>>>
        BY <1>3, <3>3 DEF Commands
      <4>2. S = <<<<QUERY, 1 + id>>, TempOut>>
        BY <1>3, <3>3 DEF Stream, Answer
      <4> HIDE DEF S
      <4>3. Len(Commands(b, id)) = 2 /\ Len(S) = 2
        BY <4>1, <4>2
      <4>4. e \in {0, 1}
        BY <4>3
      <4>5. QED
        BY <3>1, <4>1, <4>2, <4>3, <4>4
    <3>4. QED
      BY <3>2, <3>3
  <2> HIDE DEF bd2, bd0, S
  <2>4. TempOut \in Seq(Int) /\ <<QUERY, 1 + id>> \in Seq(Int)
    BY <1>1 DEF TempOut, TEMP, Temperature, QUERY
  <2>5. bd0.idle \in BOOLEAN
    BY <1>0 DEF BoardType
  <2>6. CASE Commands(b, id)[e + 1][1] = TEMP
    <3>1. bd2 = [bd0 EXCEPT !.respond = TempOut]
      BY <2>2, <2>6
    <3>2. /\ bd2 \in BoardType /\ bd2.recv = <<>> /\ bd2.send = bd.send
          /\ bd2.respond = TempOut /\ bd2.started = bd.started /\ bd2.idle = bd.idle
      BY <1>0, <2>4, <3>1 DEF BoardType
    <3>3. Registers(b, id, bd2, pr, e + 1)
      BY <1>3, <2>1, <3>2 DEF Registers
    <3>4. bd2.respond = S[e + 1] /\ (bd.idle => e >= 2) => (bd2.idle => e + 1 >= 2)
      BY <2>3, <2>6, <3>2
    <3>5. QED
      BY <2>1, <2>3, <2>6, <3>2, <3>3, <3>4 DEF bd2, S
  <2>7. CASE Commands(b, id)[e + 1][1] # TEMP
    <3>1. bd2 = [bd0 EXCEPT !.respond = <<QUERY, 1 + id>>,
                            !.idle = @ \/ Commands(b, id)[e + 1][1] # QUERY]
      BY <2>2, <2>7
    <3>2. /\ bd2 \in BoardType /\ bd2.recv = <<>> /\ bd2.send = bd.send
          /\ bd2.respond = <<QUERY, 1 + id>> /\ bd2.started = bd.started
          /\ bd2.idle = (bd.idle \/ Commands(b, id)[e + 1][1] # QUERY)
      BY <1>0, <2>4, <2>5, <3>1 DEF BoardType
    <3>3. Registers(b, id, bd2, pr, e + 1)
      BY <1>3, <2>1, <3>2 DEF Registers
    <3>4. bd2.respond = S[e + 1] /\ ((bd.idle => e >= 2) => (bd2.idle => e + 1 >= 2))
      <4>1. S[e + 1] = <<QUERY, 1 + id>> /\ (Commands(b, id)[e + 1][1] = QUERY \/ e + 1 >= 2)
        BY <2>3, <2>7
      <4>2. bd2.respond = S[e + 1]
        BY <3>2, <4>1
      <4>3. bd2.idle => bd.idle \/ e + 1 >= 2
        BY <3>2, <4>1
      <4>4. QED
        BY <4>2, <4>3
    <3>5. QED
      BY <2>1, <2>3, <2>7, <3>2, <3>3, <3>4 DEF bd2, S
  <2>8. QED
    BY <2>6, <2>7
<1>4. Done
  BY <1>2, <1>3
<1>5. q = bd2
  BY DEF Does, Command
<1> HIDE DEF bd2, bd0, S
<1>6. Replied(b, l, id, bd, bd2, e)
  BY <1>4 DEF Replied, Item, Some, S
<1>7. QED
  BY <1>4, <1>5, <1>6 DEF Some

-----------------------------------------------------------------------------
(* The steps, as one board sees them.                                      *)

\* Nothing has been sent.
LEMMA LiveStart ==
  ASSUME NEW b \in Boxes, NEW l \in Links, NEW id \in {Bridge} \cup Identities,
         NEW v \in ViewType,
         OnLink(v.up, l) = {}, ~ Some(Below(v.bd, v.ua, v.buf)),
         \A ch \in Channels : OnChannel(v.down, l, ch) = {},
         Above(v.bd, v.ua, v.buf) = <<>>,
         v.pr = NothingPrinted, Registers(b, id, v.bd, v.pr, 0),
         id = Bridge /\ b = Master /\ v.at = "serve" => ~ v.bd.idle
  PROVE  Live(b, l, id, v, 0, [ch \in Channels |-> 0]) /\ Lone(b, l, id, v)
<1>1. /\ v.up \in Seq(Packets) /\ v.buf \in BufferType /\ v.ua \in UartType
      /\ v.bd \in BoardType
  BY DEF ViewType
<1>2. Down(b, l, id, v.up, v.buf, v.ua, v.bd, 0, 0, 0)
  BY <1>1, DownQuiet
<1>3. Up(b, l, id, v.down, v.buf, v.ua, v.bd, v.pr, 0,
         [ch \in Channels |-> 0], [ch \in Channels |-> 0], <<>>)
  BY <1>1, UpStart
<1>4. QED
  BY <1>2, <1>3 DEF Live, Lone

\* A quiet bridge.
LEMMA LoneBridge ==
  ASSUME NEW b \in Boxes, NEW l \in Links, NEW v \in ViewType, Lone(b, l, Bridge, v)
  PROVE  /\ OnLink(v.up, l) = {} /\ ~ Some(Below(v.bd, v.ua, v.buf))
         /\ Above(v.bd, v.ua, v.buf) = <<>> /\ v.pr = NothingPrinted
         /\ v.bd.started = {} /\ v.bd.send = <<>>
<1>1. /\ v.up \in Seq(Packets) /\ v.buf \in BufferType /\ v.ua \in UartType
      /\ v.bd \in BoardType
  BY DEF ViewType
<1>2. PICK n \in Nat, m \in Nat :
        /\ Down(b, l, Bridge, v.up, v.buf, v.ua, v.bd, n, n, m)
        /\ Registers(b, Bridge, v.bd, v.pr, n)
        /\ Above(v.bd, v.ua, v.buf) = <<>>
  BY DEF Lone
<1>3. Down(b, l, Bridge, v.up, v.buf, v.ua, v.bd, n, n, m)
  BY <1>2
<1>3a. OnLink(v.up, l) = {}
  BY <1>1, <1>3, DownEnded
<1>3b. ~ Some(Below(v.bd, v.ua, v.buf))
  BY <1>1, <1>3, DownEnded
<1>4. QED
  BY <1>2, <1>3a, <1>3b DEF Registers, Some

\* How far a board has got.
LEMMA LiveBounds ==
  ASSUME NEW b \in Boxes, NEW l \in Links, NEW id \in {Bridge} \cup Identities,
         NEW v \in ViewType, NEW n \in Nat, NEW g, Live(b, l, id, v, n, g)
  PROVE  /\ g \in [Channels -> Nat]
         /\ \E e \in Nat :
              /\ g[Replies] <= e /\ e <= n /\ n <= Len(Commands(b, id))
              /\ Registers(b, id, v.bd, v.pr, e)
              /\ \A c \in Cores : g[c] <= v.pr[c] /\ g[c] <= 2
              /\ id = Bridge /\ b = Master /\ v.at = "serve" /\ v.bd.idle => e >= 2
<1>p. PICK e \in Nat, m \in Nat : \E a, P :
        /\ Down(b, l, id, v.up, v.buf, v.ua, v.bd, n, e, m)
        /\ Registers(b, id, v.bd, v.pr, e)
        /\ Up(b, l, id, v.down, v.buf, v.ua, v.bd, v.pr, e, g, a, P)
        /\ id = Bridge /\ b = Master /\ v.at = "serve" /\ v.bd.idle => e >= 2
  BY DEF Live
<1>1. PICK a, P :
        /\ Down(b, l, id, v.up, v.buf, v.ua, v.bd, n, e, m)
        /\ Registers(b, id, v.bd, v.pr, e)
        /\ Up(b, l, id, v.down, v.buf, v.ua, v.bd, v.pr, e, g, a, P)
        /\ id = Bridge /\ b = Master /\ v.at = "serve" /\ v.bd.idle => e >= 2
  BY <1>p
<1>2. /\ v.pr \in [Cores -> Nat] /\ g \in [Channels -> Nat]
  BY <1>1 DEF Up
<1>3. ASSUME NEW ch \in Channels
      PROVE  g[ch] <= Made(b, l, id, v.pr, e, ch)
             /\ Made(b, l, id, v.pr, e, ch) <= Len(Stream(b, l, id, ch))
  <2>1. PICK i \in Nat, j \in Nat, k \in Nat :
          /\ i = g[ch] /\ i <= j /\ j <= k /\ k = Made(b, l, id, v.pr, e, ch)
          /\ k <= Len(Stream(b, l, id, ch))
    BY <1>1 DEF Up, Flows
  <2>2. QED
    BY <2>1
<1>4. g[Replies] <= e
  <2>1. Replies \in Channels
    BY DEF Channels
  <2>2. g[Replies] <= Made(b, l, id, v.pr, e, Replies) /\ g[Replies] \in Nat
    BY <1>2, <1>3, <2>1
  <2>3. Len(Stream(b, l, id, Replies)) \in {2, 3}
    BY <2>1, StreamShape
  <2>4. Made(b, l, id, v.pr, e, Replies) \in Nat /\ Made(b, l, id, v.pr, e, Replies) <= e
    BY <2>3 DEF Made
  <2>5. QED
    BY <2>2, <2>4
<1>5. ASSUME NEW c \in Cores
      PROVE  g[c] <= v.pr[c] /\ g[c] <= 2
  <2>1. c \in Channels /\ c # Replies
    BY DEF Channels, Replies, Cores
  <2>2. Made(b, l, id, v.pr, e, c) = v.pr[c]
    BY <2>1 DEF Made
  <2>3. Len(Stream(b, l, id, c)) = 2
    BY <2>1, StreamShape
  <2>4. g[c] \in Nat /\ v.pr[c] \in Nat
    BY <1>2, <2>1
  <2>5. g[c] <= v.pr[c] /\ v.pr[c] <= 2
    BY <1>3, <2>1, <2>2, <2>3
  <2>6. QED
    BY <2>4, <2>5
<1>6. e <= n /\ n <= Len(Commands(b, id))
  <2>1. PICK x \in Nat : x = Len(Commands(b, id))
    BY CommandShape, LenProperties
  <2>2. e <= m /\ m <= n /\ n <= x
    BY <1>1, <2>1 DEF Down
  <2>3. QED
    BY <2>1, <2>2
<1>7. QED
  BY <1>1, <1>2, <1>4, <1>5, <1>6

\* The program leaves.
LEMMA LiveLone ==
  ASSUME NEW b \in Boxes, NEW l \in Links, NEW id \in {Bridge} \cup Identities,
         NEW v \in ViewType, NEW n \in Nat, NEW g, Live(b, l, id, v, n, g),
         id = Bridge => g[Replies] = n,
         NEW v2 \in ViewType, v2.up = v.up, v2.buf = v.buf, v2.ua = v.ua, v2.bd = v.bd,
         v2.pr = v.pr
  PROVE  Lone(b, l, id, v2)
<1>p. PICK e \in Nat, m \in Nat : \E a, P :
        /\ Down(b, l, id, v.up, v.buf, v.ua, v.bd, n, e, m)
        /\ Registers(b, id, v.bd, v.pr, e)
        /\ Up(b, l, id, v.down, v.buf, v.ua, v.bd, v.pr, e, g, a, P)
  BY DEF Live
<1>1. PICK a, P :
        /\ Down(b, l, id, v.up, v.buf, v.ua, v.bd, n, e, m)
        /\ Registers(b, id, v.bd, v.pr, e)
        /\ Up(b, l, id, v.down, v.buf, v.ua, v.bd, v.pr, e, g, a, P)
  BY <1>p
<1>2. ASSUME id = Bridge
      PROVE  e = n /\ Above(v.bd, v.ua, v.buf) = <<>>
  <2>0. /\ v.pr \in [Cores -> Nat] /\ g \in [Channels -> Nat]
        /\ a \in [Channels -> Nat] /\ P \in Seq(Seq(Int))
    BY <1>1 DEF Up
  <2>a. /\ v.down \in Seq(Packets) /\ v.buf \in BufferType /\ v.ua \in UartType
        /\ v.bd \in BoardType
    BY DEF ViewType
  <2>1. v.pr = NothingPrinted
    BY <1>1, <1>2 DEF Registers
  <2>2. PICK x \in Nat : x = Len(Commands(b, id))
    BY CommandShape, LenProperties
  <2>3. e <= n
    BY <1>1, <2>2 DEF Down
  <2>4. ASSUME NEW ch \in Channels
        PROVE  /\ g[ch] <= Made(b, l, id, v.pr, e, ch) /\ g[ch] \in Nat
               /\ Made(b, l, id, v.pr, e, ch) \in Nat
    <3>1. PICK i \in Nat, j \in Nat, k \in Nat :
            i = g[ch] /\ i <= j /\ j <= k /\ k = Made(b, l, id, v.pr, e, ch)
      BY <1>1 DEF Up, Flows
    <3>2. QED
      BY <3>1
  <2>5. Replies \in Channels /\ Len(Stream(b, l, id, Replies)) \in {2, 3}
    <3>1. Replies \in Channels
      BY DEF Channels
    <3>2. QED
      BY <3>1, StreamShape
  <2>6. Made(b, l, id, v.pr, e, Replies) <= e
    BY <2>5 DEF Made
  <2>7. e = n /\ Made(b, l, id, v.pr, e, Replies) = g[Replies]
    <3>1. g[Replies] = n /\ g[Replies] <= Made(b, l, id, v.pr, e, Replies)
          /\ Made(b, l, id, v.pr, e, Replies) \in Nat
      BY <1>2, <2>4, <2>5
    <3>2. QED
      BY <2>3, <2>6, <3>1
  <2>8. ASSUME NEW ch \in Channels
        PROVE  Made(b, l, id, v.pr, e, ch) = g[ch]
    <3>1. CASE ch = Replies
      BY <2>7, <3>1
    <3>2. CASE ch # Replies
      <4>1. Made(b, l, id, v.pr, e, ch) = 0
        BY <2>1, <3>2 DEF Made, NothingPrinted, Channels
      <4>2. QED
        BY <2>4, <4>1
    <3>3. QED
      BY <3>1, <3>2
  <2>9. Above(v.bd, v.ua, v.buf) = <<>>
    BY <1>1, <1>2, <2>a, <2>8, UpQuiet
  <2>10. QED
    BY <2>7, <2>9
<1>3. QED
  BY <1>1, <1>2 DEF Lone

-----------------------------------------------------------------------------
(* The steps that move packets.                                            *)

\* The program sends a packet to the box.
LEMMA LiveSend ==
  ASSUME NEW b \in Boxes, NEW l \in Links, NEW id \in {Bridge} \cup Identities,
         NEW v \in ViewType, NEW v2 \in ViewType, NEW n \in Nat, NEW g,
         Live(b, l, id, v, n, g), NEW x \in Packets, v2.up = Append(v.up, x),
         v2.down = v.down, v2.at = v.at, v2.buf = v.buf, v2.ua = v.ua, v2.bd = v.bd,
         v2.pr = v.pr
  PROVE  /\ x.link # l => Live(b, l, id, v2, n, g)
         /\ n < Len(Commands(b, id)) /\ x = Packet(l, Commands(b, id)[n + 1])
              => Live(b, l, id, v2, n + 1, g)
<1>0. v.up \in Seq(Packets)
  BY DEF ViewType
<1>p. PICK e \in Nat, m \in Nat : \E a, P :
        /\ Down(b, l, id, v.up, v.buf, v.ua, v.bd, n, e, m)
        /\ Registers(b, id, v.bd, v.pr, e)
        /\ Up(b, l, id, v.down, v.buf, v.ua, v.bd, v.pr, e, g, a, P)
        /\ id = Bridge /\ b = Master /\ v.at = "serve" /\ v.bd.idle => e >= 2
  BY DEF Live
<1>1. PICK a, P :
        /\ Down(b, l, id, v.up, v.buf, v.ua, v.bd, n, e, m)
        /\ Registers(b, id, v.bd, v.pr, e)
        /\ Up(b, l, id, v.down, v.buf, v.ua, v.bd, v.pr, e, g, a, P)
        /\ id = Bridge /\ b = Master /\ v.at = "serve" /\ v.bd.idle => e >= 2
  BY <1>p
<1>2. ASSUME x.link # l
      PROVE  Live(b, l, id, v2, n, g)
  <2>1. Down(b, l, id, v2.up, v2.buf, v2.ua, v2.bd, n, e, m)
    BY <1>0, <1>1, <1>2, DownSend
  <2>2. QED
    BY <1>1, <2>1 DEF Live
<1>3. ASSUME n < Len(Commands(b, id)), x = Packet(l, Commands(b, id)[n + 1])
      PROVE  Live(b, l, id, v2, n + 1, g)
  <2>1. Down(b, l, id, v2.up, v2.buf, v2.ua, v2.bd, n + 1, e, m)
    BY <1>0, <1>1, <1>3, DownSend
  <2>2. QED
    BY <1>1, <2>1 DEF Live
<1>4. QED
  BY <1>2, <1>3

\* The program gets a packet of another board of the box.
LEMMA LivePass ==
  ASSUME NEW b \in Boxes, NEW l \in Links, NEW id \in {Bridge} \cup Identities,
         NEW v \in ViewType, NEW v2 \in ViewType, NEW n \in Nat, NEW g,
         Live(b, l, id, v, n, g), Some(v.down), v2.down = Tail(v.down),
         v2.up = v.up, v2.at = v.at, v2.buf = v.buf, v2.ua = v.ua, v2.bd = v.bd,
         v2.pr = v.pr, \A ch \in Channels : ~ Belongs(Head(v.down), l, ch)
  PROVE  Live(b, l, id, v2, n, g)
<1>0. v.down \in Seq(Packets)
  BY DEF ViewType
<1>p. PICK e \in Nat, m \in Nat : \E a, P :
        /\ Down(b, l, id, v.up, v.buf, v.ua, v.bd, n, e, m)
        /\ Registers(b, id, v.bd, v.pr, e)
        /\ Up(b, l, id, v.down, v.buf, v.ua, v.bd, v.pr, e, g, a, P)
        /\ id = Bridge /\ b = Master /\ v.at = "serve" /\ v.bd.idle => e >= 2
  BY DEF Live
<1>1. PICK a, P :
        /\ Down(b, l, id, v.up, v.buf, v.ua, v.bd, n, e, m)
        /\ Registers(b, id, v.bd, v.pr, e)
        /\ Up(b, l, id, v.down, v.buf, v.ua, v.bd, v.pr, e, g, a, P)
        /\ id = Bridge /\ b = Master /\ v.at = "serve" /\ v.bd.idle => e >= 2
  BY <1>p
<1>2. Up(b, l, id, v2.down, v2.buf, v2.ua, v2.bd, v2.pr, e, g, a, P)
  BY <1>0, <1>1, UpPass
<1>3. QED
  BY <1>1, <1>2 DEF Live

\* The program gets a packet of the board.
LEMMA LiveGot ==
  ASSUME NEW b \in Boxes, NEW l \in Links, NEW id \in {Bridge} \cup Identities,
         NEW v \in ViewType, NEW v2 \in ViewType, NEW n \in Nat, NEW g,
         Live(b, l, id, v, n, g), Some(v.down), v2.down = Tail(v.down),
         v2.up = v.up, v2.at = v.at, v2.buf = v.buf, v2.ua = v.ua, v2.bd = v.bd,
         v2.pr = v.pr, NEW c \in Channels, Belongs(Head(v.down), l, c)
  PROVE  /\ g[c] + 1 \in 1 .. Len(Stream(b, l, id, c))
         /\ Carries(Head(v.down), Stream(b, l, id, c), g[c])
         /\ Live(b, l, id, v2, n, [g EXCEPT ![c] = @ + 1])
<1>0. v.down \in Seq(Packets)
  BY DEF ViewType
<1>p. PICK e \in Nat, m \in Nat : \E a, P :
        /\ Down(b, l, id, v.up, v.buf, v.ua, v.bd, n, e, m)
        /\ Registers(b, id, v.bd, v.pr, e)
        /\ Up(b, l, id, v.down, v.buf, v.ua, v.bd, v.pr, e, g, a, P)
        /\ id = Bridge /\ b = Master /\ v.at = "serve" /\ v.bd.idle => e >= 2
  BY DEF Live
<1>1. PICK a, P :
        /\ Down(b, l, id, v.up, v.buf, v.ua, v.bd, n, e, m)
        /\ Registers(b, id, v.bd, v.pr, e)
        /\ Up(b, l, id, v.down, v.buf, v.ua, v.bd, v.pr, e, g, a, P)
        /\ id = Bridge /\ b = Master /\ v.at = "serve" /\ v.bd.idle => e >= 2
  BY <1>p
<1>2. Up(b, l, id, Tail(v.down), v.buf, v.ua, v.bd, v.pr, e, [g EXCEPT ![c] = @ + 1], a, P)
  BY <1>0, <1>1, UpGot
<1>3. Live(b, l, id, v2, n, [g EXCEPT ![c] = @ + 1])
  BY <1>1, <1>2 DEF Live
<1>4. g[c] + 1 \in 1 .. Len(Stream(b, l, id, c))
  BY <1>0, <1>1, UpGot
<1>5. Carries(Head(v.down), Stream(b, l, id, c), g[c])
  BY <1>0, <1>1, UpGot
<1>6. QED
  BY <1>3, <1>4, <1>5

\* Something else arrives at the program.
LEMMA LiveArrive ==
  ASSUME NEW b \in Boxes, NEW l \in Links, NEW id \in {Bridge} \cup Identities,
         NEW v \in ViewType, NEW v2 \in ViewType, NEW n \in Nat, NEW g,
         Live(b, l, id, v, n, g), NEW x \in Packets, x.link # l,
         v2.down = Append(v.down, x),
         v2.up = v.up, v2.at = v.at, v2.buf = v.buf, v2.ua = v.ua, v2.bd = v.bd,
         v2.pr = v.pr
  PROVE  Live(b, l, id, v2, n, g)
<1>0. v.down \in Seq(Packets)
  BY DEF ViewType
<1>p. PICK e \in Nat, m \in Nat : \E a, P :
        /\ Down(b, l, id, v.up, v.buf, v.ua, v.bd, n, e, m)
        /\ Registers(b, id, v.bd, v.pr, e)
        /\ Up(b, l, id, v.down, v.buf, v.ua, v.bd, v.pr, e, g, a, P)
        /\ id = Bridge /\ b = Master /\ v.at = "serve" /\ v.bd.idle => e >= 2
  BY DEF Live
<1>1. PICK a, P :
        /\ Down(b, l, id, v.up, v.buf, v.ua, v.bd, n, e, m)
        /\ Registers(b, id, v.bd, v.pr, e)
        /\ Up(b, l, id, v.down, v.buf, v.ua, v.bd, v.pr, e, g, a, P)
        /\ id = Bridge /\ b = Master /\ v.at = "serve" /\ v.bd.idle => e >= 2
  BY <1>p
<1>2. Up(b, l, id, v2.down, v2.buf, v2.ua, v2.bd, v2.pr, e, g, a, P)
  BY <1>0, <1>1, UpArrive
<1>3. QED
  BY <1>1, <1>2 DEF Live

\* boardctrld takes a packet from the program, for this board or another.
LEMMA Forwarded ==
  ASSUME NEW b \in Boxes, NEW l \in Links, NEW id \in {Bridge} \cup Identities,
         NEW v \in ViewType, NEW v2 \in ViewType, Some(v.up), v2.up = Tail(v.up),
         v2.down = v.down, v2.at = v.at, v2.ua = v.ua, v2.bd = v.bd, v2.pr = v.pr,
         Head(v.up).link # l => v2.buf = v.buf,
         Head(v.up).link = l => /\ v2.buf.in = v.buf.in
           /\ v2.buf.out = v.buf.out \o
                SubSeq(Head(v.up).bytes, 1, toDebugLinkSize(Head(v.up).bytes[1]))
  PROVE  /\ \A n \in Nat, e \in Nat, m \in Nat :
              Down(b, l, id, v.up, v.buf, v.ua, v.bd, n, e, m) =>
                \E m2 \in Nat : Down(b, l, id, v2.up, v2.buf, v2.ua, v2.bd, n, e, m2)
         /\ Above(v2.bd, v2.ua, v2.buf) = Above(v.bd, v.ua, v.buf)
<1>0. /\ v.up \in Seq(Packets) /\ v.buf \in BufferType /\ v.ua \in UartType
      /\ v.bd \in BoardType /\ v2.buf \in BufferType
  BY DEF ViewType
<1>1. Above(v2.bd, v2.ua, v2.buf) = Above(v.bd, v.ua, v.buf)
  BY DEF Above
<1>2. ASSUME NEW n \in Nat, NEW e \in Nat, NEW m \in Nat,
             Down(b, l, id, v.up, v.buf, v.ua, v.bd, n, e, m)
      PROVE  \E m2 \in Nat : Down(b, l, id, v2.up, v2.buf, v2.ua, v2.bd, n, e, m2)
  <2> DEFINE u == v.up
             x == Head(u).bytes
             y == SubSeq(x, 1, toDebugLinkSize(x[1]))
  <2>1. u # <<>>
    BY DEF Some
  <2>2. CASE Head(u).link # l
    <3>1. Down(b, l, id, Tail(u), v.buf, v.ua, v.bd, n, e, m)
      BY <1>0, <1>2, <2>1, <2>2, DownForward
    <3>2. QED
      BY <2>2, <3>1
  <2>3. CASE Head(u).link = l
    <3>1. \A q \in BufferType : q.out = v.buf.out \o y =>
            Down(b, l, id, Tail(u), q, v.ua, v.bd, n, e, m + 1)
      BY <1>0, <1>2, <2>1, <2>3, DownForward
    <3>2. v2.buf.out = v.buf.out \o y
      BY <2>3
    <3> HIDE DEF y
    <3>3. Down(b, l, id, Tail(u), v2.buf, v.ua, v.bd, n, e, m + 1)
      BY <1>0, <3>1, <3>2
    <3>4. QED
      BY <3>3
  <2>4. QED
    BY <2>2, <2>3
<1>3. QED
  BY <1>1, <1>2

\* So for a board the program is connected to,
LEMMA LiveForward ==
  ASSUME NEW b \in Boxes, NEW l \in Links, NEW id \in {Bridge} \cup Identities,
         NEW v \in ViewType, NEW v2 \in ViewType, Some(v.up), v2.up = Tail(v.up),
         v2.down = v.down, v2.at = v.at, v2.ua = v.ua, v2.bd = v.bd, v2.pr = v.pr,
         Head(v.up).link # l => v2.buf = v.buf,
         Head(v.up).link = l => /\ v2.buf.in = v.buf.in
           /\ v2.buf.out = v.buf.out \o
                SubSeq(Head(v.up).bytes, 1, toDebugLinkSize(Head(v.up).bytes[1])),
         NEW n \in Nat, NEW g, Live(b, l, id, v, n, g)
  PROVE  Live(b, l, id, v2, n, g)
<1>p. PICK e \in Nat, m \in Nat : \E a, P :
        /\ Down(b, l, id, v.up, v.buf, v.ua, v.bd, n, e, m)
        /\ Registers(b, id, v.bd, v.pr, e)
        /\ Up(b, l, id, v.down, v.buf, v.ua, v.bd, v.pr, e, g, a, P)
        /\ id = Bridge /\ b = Master /\ v.at = "serve" /\ v.bd.idle => e >= 2
  BY DEF Live
<1>1. PICK a, P :
        /\ Down(b, l, id, v.up, v.buf, v.ua, v.bd, n, e, m)
        /\ Registers(b, id, v.bd, v.pr, e)
        /\ Up(b, l, id, v.down, v.buf, v.ua, v.bd, v.pr, e, g, a, P)
        /\ id = Bridge /\ b = Master /\ v.at = "serve" /\ v.bd.idle => e >= 2
  BY <1>p
<1>2. /\ \A i \in Nat, j \in Nat, k \in Nat :
           Down(b, l, id, v.up, v.buf, v.ua, v.bd, i, j, k) =>
             \E m2 \in Nat : Down(b, l, id, v2.up, v2.buf, v2.ua, v2.bd, i, j, m2)
      /\ Above(v2.bd, v2.ua, v2.buf) = Above(v.bd, v.ua, v.buf)
  BY Forwarded
<1>3. PICK m2 \in Nat : Down(b, l, id, v2.up, v2.buf, v2.ua, v2.bd, n, e, m2)
  BY <1>1, <1>2
<1>4. v2.pr \in [Cores -> Nat] /\ OneAtATime(v2.bd)
  BY <1>1 DEF Up
<1>5. Up(b, l, id, v2.down, v2.buf, v2.ua, v2.bd, v2.pr, e, g, a, P)
  <2>1. Up(b, l, id, v.down, v2.buf, v2.ua, v2.bd, v.pr, e, g, a, P)
    BY <1>1, <1>2, <1>4 DEF Up
  <2>2. QED
    BY <2>1
<1>6. QED
  BY <1>1, <1>3, <1>5 DEF Live

\* and for one it is not.
LEMMA LoneForward ==
  ASSUME NEW b \in Boxes, NEW l \in Links, NEW id \in {Bridge} \cup Identities,
         NEW v \in ViewType, NEW v2 \in ViewType, Some(v.up), v2.up = Tail(v.up),
         v2.down = v.down, v2.at = v.at, v2.ua = v.ua, v2.bd = v.bd, v2.pr = v.pr,
         Head(v.up).link # l => v2.buf = v.buf,
         Head(v.up).link = l => /\ v2.buf.in = v.buf.in
           /\ v2.buf.out = v.buf.out \o
                SubSeq(Head(v.up).bytes, 1, toDebugLinkSize(Head(v.up).bytes[1])),
         Lone(b, l, id, v)
  PROVE  Lone(b, l, id, v2)
<1>1. PICK n \in Nat, e \in Nat, m \in Nat :
        /\ Down(b, l, id, v.up, v.buf, v.ua, v.bd, n, e, m)
        /\ Registers(b, id, v.bd, v.pr, e)
        /\ id = Bridge => e = n /\ Above(v.bd, v.ua, v.buf) = <<>>
  BY DEF Lone
<1>2. /\ \A i \in Nat, j \in Nat, k \in Nat :
           Down(b, l, id, v.up, v.buf, v.ua, v.bd, i, j, k) =>
             \E m2 \in Nat : Down(b, l, id, v2.up, v2.buf, v2.ua, v2.bd, i, j, m2)
      /\ Above(v2.bd, v2.ua, v2.buf) = Above(v.bd, v.ua, v.buf)
  BY Forwarded
<1>3. PICK m2 \in Nat : Down(b, l, id, v2.up, v2.buf, v2.ua, v2.bd, n, e, m2)
  BY <1>1, <1>2
<1>4. QED
  BY <1>1, <1>2, <1>3 DEF Lone

\* That leaves the bytes of the two as they were.
LEMMA Shifted ==
  ASSUME NEW s \in Seq(Int), NEW t \in Seq(Int), NEW s2, NEW t2, Shift(s, t, s2, t2)
  PROVE  Joined(s2, t2) = Joined(s, t)
<1>1. PICK k \in 0 .. Len(t) : s2 = s \o SubSeq(t, 1, k) /\ t2 = SubSeq(t, k + 1, Len(t))
  BY DEF Shift
<1>2. (s \o SubSeq(t, 1, k)) \o SubSeq(t, k + 1, Len(t)) = s \o t
  BY MoveBytes
<1>3. QED
  BY <1>1, <1>2 DEF Joined

\* Bytes go between boardctrld's queues and the UART.
LEMMA Moved ==
  ASSUME NEW b \in Boxes, NEW l \in Links, NEW id \in {Bridge} \cup Identities,
         NEW v \in ViewType, NEW v2 \in ViewType,
         Shift(v.ua.to, v.buf.out, v2.ua.to, v2.buf.out),
         Shift(v.buf.in, v.ua.from, v2.buf.in, v2.ua.from), v2.bd = v.bd
  PROVE  /\ Below(v2.bd, v2.ua, v2.buf) = Below(v.bd, v.ua, v.buf)
         /\ Above(v2.bd, v2.ua, v2.buf) = Above(v.bd, v.ua, v.buf)
<1>0. /\ v.buf \in BufferType /\ v.ua \in UartType /\ v.bd \in BoardType
      /\ v2.buf \in BufferType /\ v2.ua \in UartType
  BY DEF ViewType
<1>1. Below(v2.bd, v2.ua, v2.buf) = Below(v.bd, v.ua, v.buf)
  <2> DEFINE r == v.bd.recv
             t == v.ua.to
             o == v.buf.out
             t2 == v2.ua.to
             o2 == v2.buf.out
  <2>1. r \in Seq(Int) /\ t \in Seq(Int) /\ o \in Seq(Int)
    BY <1>0, BelowType
  <2>2. t2 \in Seq(Int) /\ o2 \in Seq(Int)
    BY <1>0, BelowType
  <2>3. t2 \o o2 = t \o o
    <3>1. Shift(t, o, t2, o2)
      OBVIOUS
    <3> HIDE DEF t, o, t2, o2
    <3>2. Joined(t2, o2) = Joined(t, o)
      BY <2>1, <3>1, Shifted
    <3>3. QED
      BY <3>2 DEF Joined
  <2>4. Below(v2.bd, v2.ua, v2.buf) = (r \o t2) \o o2 /\ Below(v.bd, v.ua, v.buf) = (r \o t) \o o
    BY DEF Below
  <2> HIDE DEF r, t, o, t2, o2
  <2>5. (r \o t2) \o o2 = r \o (t2 \o o2)
    BY <2>1, <2>2, Assoc, ZenonT(30)
  <2>6. (r \o t) \o o = r \o (t \o o)
    BY <2>1, Assoc, ZenonT(30)
  <2>7. QED
    BY <2>3, <2>4, <2>5, <2>6
<1>2. Above(v2.bd, v2.ua, v2.buf) = Above(v.bd, v.ua, v.buf)
  <2> DEFINE s == v.buf.in
             f == v.ua.from
             s2 == v2.buf.in
             f2 == v2.ua.from
  <2>1. s \in Seq(Int) /\ f \in Seq(Int)
    BY <1>0, AboveType
  <2>2. s2 \o f2 = s \o f
    <3>1. Shift(s, f, s2, f2)
      OBVIOUS
    <3> HIDE DEF s, f, s2, f2
    <3>2. Joined(s2, f2) = Joined(s, f)
      BY <2>1, <3>1, Shifted
    <3>3. QED
      BY <3>2 DEF Joined
  <2>3. /\ Above(v2.bd, v2.ua, v2.buf) = ((s2 \o f2) \o v.bd.respond) \o v.bd.send
        /\ Above(v.bd, v.ua, v.buf) = ((s \o f) \o v.bd.respond) \o v.bd.send
    BY DEF Above
  <2>4. QED
    BY <2>2, <2>3
<1>3. QED
  BY <1>1, <1>2

\* So for a board the program is connected to,
LEMMA LiveMoved ==
  ASSUME NEW b \in Boxes, NEW l \in Links, NEW id \in {Bridge} \cup Identities,
         NEW v \in ViewType, NEW v2 \in ViewType,
         v2.up = v.up, v2.down = v.down, v2.at = v.at, v2.bd = v.bd, v2.pr = v.pr,
         Below(v2.bd, v2.ua, v2.buf) = Below(v.bd, v.ua, v.buf),
         Above(v2.bd, v2.ua, v2.buf) = Above(v.bd, v.ua, v.buf),
         NEW n \in Nat, NEW g, Live(b, l, id, v, n, g)
  PROVE  Live(b, l, id, v2, n, g)
<1>p. PICK e \in Nat, m \in Nat : \E a, P :
        /\ Down(b, l, id, v.up, v.buf, v.ua, v.bd, n, e, m)
        /\ Registers(b, id, v.bd, v.pr, e)
        /\ Up(b, l, id, v.down, v.buf, v.ua, v.bd, v.pr, e, g, a, P)
        /\ id = Bridge /\ b = Master /\ v.at = "serve" /\ v.bd.idle => e >= 2
  BY DEF Live
<1>1. PICK a, P :
        /\ Down(b, l, id, v.up, v.buf, v.ua, v.bd, n, e, m)
        /\ Registers(b, id, v.bd, v.pr, e)
        /\ Up(b, l, id, v.down, v.buf, v.ua, v.bd, v.pr, e, g, a, P)
        /\ id = Bridge /\ b = Master /\ v.at = "serve" /\ v.bd.idle => e >= 2
  BY <1>p
<1>2. Down(b, l, id, v2.up, v2.buf, v2.ua, v2.bd, n, e, m)
  BY <1>1 DEF Down
<1>3. Up(b, l, id, v2.down, v2.buf, v2.ua, v2.bd, v2.pr, e, g, a, P)
  BY <1>1 DEF Up
<1>4. QED
  BY <1>1, <1>2, <1>3 DEF Live

\* and for one it is not.
LEMMA LoneMoved ==
  ASSUME NEW b \in Boxes, NEW l \in Links, NEW id \in {Bridge} \cup Identities,
         NEW v \in ViewType, NEW v2 \in ViewType,
         v2.up = v.up, v2.bd = v.bd, v2.pr = v.pr,
         Below(v2.bd, v2.ua, v2.buf) = Below(v.bd, v.ua, v.buf),
         Above(v2.bd, v2.ua, v2.buf) = Above(v.bd, v.ua, v.buf),
         Lone(b, l, id, v)
  PROVE  Lone(b, l, id, v2)
<1>1. PICK n \in Nat, e \in Nat, m \in Nat :
        /\ Down(b, l, id, v.up, v.buf, v.ua, v.bd, n, e, m)
        /\ Registers(b, id, v.bd, v.pr, e)
        /\ id = Bridge => e = n /\ Above(v.bd, v.ua, v.buf) = <<>>
  BY DEF Lone
<1>2. Down(b, l, id, v2.up, v2.buf, v2.ua, v2.bd, n, e, m)
  BY <1>1 DEF Down
<1>3. QED
  BY <1>1, <1>2 DEF Lone

\* boardctrld sends the program a packet of the board.
LEMMA LiveToClient ==
  ASSUME NEW b \in Boxes, NEW l \in Links, NEW id \in {Bridge} \cup Identities,
         NEW v \in ViewType, NEW v2 \in ViewType, NEW n \in Nat, NEW g,
         Live(b, l, id, v, n, g), WholePacket(v.buf.in), v.buf.in[1] # OVERHEAT,
         v2.buf.in = Dropped(v.buf.in, fromDebugLinkSize(v.buf.in[1])),
         v2.buf.out = v.buf.out, NEW x, Whole(x, l, v.buf.in),
         v2.down = Append(v.down, x), v2.up = v.up, v2.at = v.at, v2.ua = v.ua,
         v2.bd = v.bd, v2.pr = v.pr
  PROVE  /\ Live(b, l, id, v2, n, g)
         /\ x \in Packets /\ ChannelOf(x.bytes) \in Channels
<1>0. /\ v.down \in Seq(Packets) /\ v.buf \in BufferType /\ v.ua \in UartType
      /\ v.bd \in BoardType /\ v2.buf \in BufferType
  BY DEF ViewType
<1>p. PICK e \in Nat, m \in Nat : \E a, P :
        /\ Down(b, l, id, v.up, v.buf, v.ua, v.bd, n, e, m)
        /\ Registers(b, id, v.bd, v.pr, e)
        /\ Up(b, l, id, v.down, v.buf, v.ua, v.bd, v.pr, e, g, a, P)
        /\ id = Bridge /\ b = Master /\ v.at = "serve" /\ v.bd.idle => e >= 2
  BY DEF Live
<1>1. PICK a, P :
        /\ Down(b, l, id, v.up, v.buf, v.ua, v.bd, n, e, m)
        /\ Registers(b, id, v.bd, v.pr, e)
        /\ Up(b, l, id, v.down, v.buf, v.ua, v.bd, v.pr, e, g, a, P)
        /\ id = Bridge /\ b = Master /\ v.at = "serve" /\ v.bd.idle => e >= 2
  BY <1>p
<1>2. /\ x \in Packets /\ ChannelOf(x.bytes) \in Channels
      /\ Rises(b, l, id, Append(v.down, x), v2.buf, v.ua, v.bd, v.pr, e, g)
  <2> DEFINE d == v.down
             q == v.buf
             q2 == v2.buf
             u == v.ua
             r == v.bd
             w == v.pr
  <2>1. /\ d \in Seq(Packets) /\ q \in BufferType /\ u \in UartType /\ r \in BoardType
        /\ q2 \in BufferType /\ Up(b, l, id, d, q, u, r, w, e, g, a, P)
    BY <1>0, <1>1
  <2>2. /\ WholePacket(q.in) /\ q.in[1] # OVERHEAT /\ Whole(x, l, q.in)
        /\ q2.in = Dropped(q.in, fromDebugLinkSize(q.in[1]))
    OBVIOUS
  <2> HIDE DEF d, q, q2, u, r, w
  <2>3. /\ x \in Packets /\ ChannelOf(x.bytes) \in Channels
        /\ Rises(b, l, id, Append(d, x), q2, u, r, w, e, g)
    BY <2>1, <2>2, UpToClient
  <2>4. QED
    BY <2>3 DEF d, q, q2, u, r, w
<1>3. PICK a2, P2 : Up(b, l, id, Append(v.down, x), v2.buf, v.ua, v.bd, v.pr, e, g, a2, P2)
  BY <1>2 DEF Rises
<1>7. Up(b, l, id, v2.down, v2.buf, v2.ua, v2.bd, v2.pr, e, g, a2, P2)
  BY <1>3
<1>8. Down(b, l, id, v2.up, v2.buf, v2.ua, v2.bd, n, e, m)
  BY <1>1 DEF Down, Below
<1>9. Live(b, l, id, v2, n, g)
  BY <1>1, <1>7, <1>8 DEF Live
<1>10. QED
  BY <1>2, <1>9

\* boardctrld sends an email for a report of heat,
LEMMA LiveReport ==
  ASSUME NEW b \in Boxes, NEW l \in Links, NEW id \in {Bridge} \cup Identities,
         NEW v \in ViewType, NEW v2 \in ViewType, NEW n \in Nat, NEW g,
         Live(b, l, id, v, n, g), Some(v.buf.in), Head(v.buf.in) = OVERHEAT,
         v2.buf.in = Tail(v.buf.in), v2.buf.out = v.buf.out,
         v2.down = v.down, v2.up = v.up, v2.at = v.at, v2.ua = v.ua,
         v2.bd = v.bd, v2.pr = v.pr
  PROVE  Live(b, l, id, v2, n, g)
<1>0. /\ v.down \in Seq(Packets) /\ v.buf \in BufferType /\ v.ua \in UartType
      /\ v.bd \in BoardType /\ v2.buf \in BufferType
  BY DEF ViewType
<1>p. PICK e \in Nat, m \in Nat : \E a, P :
        /\ Down(b, l, id, v.up, v.buf, v.ua, v.bd, n, e, m)
        /\ Registers(b, id, v.bd, v.pr, e)
        /\ Up(b, l, id, v.down, v.buf, v.ua, v.bd, v.pr, e, g, a, P)
        /\ id = Bridge /\ b = Master /\ v.at = "serve" /\ v.bd.idle => e >= 2
  BY DEF Live
<1>1. PICK a, P :
        /\ Down(b, l, id, v.up, v.buf, v.ua, v.bd, n, e, m)
        /\ Registers(b, id, v.bd, v.pr, e)
        /\ Up(b, l, id, v.down, v.buf, v.ua, v.bd, v.pr, e, g, a, P)
        /\ id = Bridge /\ b = Master /\ v.at = "serve" /\ v.bd.idle => e >= 2
  BY <1>p
<1>2. Up(b, l, id, v.down, v2.buf, v.ua, v.bd, v.pr, e, g, a, Tail(P))
  BY <1>0, <1>1, UpReport
<1>3. Up(b, l, id, v2.down, v2.buf, v2.ua, v2.bd, v2.pr, e, g, a, Tail(P))
  BY <1>2
<1>4. Down(b, l, id, v2.up, v2.buf, v2.ua, v2.bd, n, e, m)
  BY <1>1 DEF Down, Below
<1>5. QED
  BY <1>1, <1>3, <1>4 DEF Live

\* which a board may have made that the program is not connected to.
LEMMA LoneReport ==
  ASSUME NEW b \in Boxes, NEW l \in Links, NEW id \in {Bridge} \cup Identities,
         NEW v \in ViewType, NEW v2 \in ViewType, Lone(b, l, id, v), Some(v.buf.in),
         v2.buf.out = v.buf.out, v2.up = v.up, v2.ua = v.ua, v2.bd = v.bd, v2.pr = v.pr
  PROVE  Lone(b, l, id, v2)
<1>0. /\ v.buf \in BufferType /\ v.ua \in UartType /\ v.bd \in BoardType
  BY DEF ViewType
<1>1. PICK n \in Nat, e \in Nat, m \in Nat :
        /\ Down(b, l, id, v.up, v.buf, v.ua, v.bd, n, e, m)
        /\ Registers(b, id, v.bd, v.pr, e)
        /\ id = Bridge => e = n /\ Above(v.bd, v.ua, v.buf) = <<>>
  BY DEF Lone
<1>2. id # Bridge
  BY <1>0, <1>1, AboveType DEF Some
<1>3. Down(b, l, id, v2.up, v2.buf, v2.ua, v2.bd, n, e, m)
  BY <1>1 DEF Down, Below
<1>4. QED
  BY <1>1, <1>2, <1>3 DEF Lone

-----------------------------------------------------------------------------
(* The steps of a board.                                                   *)

\* A byte that does not end a command,
LEMMA DownPart ==
  ASSUME NEW b \in Boxes, NEW l \in Links, NEW id, NEW up \in Seq(Packets),
         NEW buf \in BufferType, NEW ua \in UartType, NEW bd \in BoardType,
         NEW n \in Nat, NEW e \in Nat, NEW m \in Nat,
         Down(b, l, id, up, buf, ua, bd, n, e, m), Some(ua.to),
         NEW ua2 \in UartType, ua2.to = Tail(ua.to),
         NEW bd2 \in BoardType, Partly(Coming(bd, ua)), bd2.recv = Coming(bd, ua)
  PROVE  Down(b, l, id, up, buf, ua2, bd2, n, e, m)
<1>1. \A x \in BoardType :
        x.recv = Coming(bd, ua) => Down(b, l, id, up, buf, ua2, x, n, e, m)
  BY DownByte, ZenonT(60)
<1>2. QED
  BY <1>1

\* and one that does.
LEMMA DownWhole ==
  ASSUME NEW b \in Boxes, NEW l \in Links, NEW id, NEW up \in Seq(Packets),
         NEW buf \in BufferType, NEW ua \in UartType, NEW bd \in BoardType,
         NEW n \in Nat, NEW e \in Nat, NEW m \in Nat,
         Down(b, l, id, up, buf, ua, bd, n, e, m), Some(ua.to),
         NEW ua2 \in UartType, ua2.to = Tail(ua.to),
         NEW bd2 \in BoardType, ~ Partly(Coming(bd, ua)), ~ Some(bd2.recv)
  PROVE  /\ Down(b, l, id, up, buf, ua2, bd2, n, e + 1, m)
         /\ e < n /\ Command(b, id, e, Coming(bd, ua))
<1>1. /\ e < n /\ Command(b, id, e, Coming(bd, ua))
      /\ \A x \in BoardType : ~ Some(x.recv) => Down(b, l, id, up, buf, ua2, x, n, e + 1, m)
  BY DownByte, ZenonT(60)
<1>2. QED
  BY <1>1

\* The byte that ends a command ends the next one.
LEMMA DownNext ==
  ASSUME NEW b \in Boxes, NEW l \in Links, NEW id, NEW up \in Seq(Packets),
         NEW buf \in BufferType, NEW ua \in UartType, NEW bd \in BoardType,
         NEW n \in Nat, NEW e \in Nat, NEW m \in Nat,
         Down(b, l, id, up, buf, ua, bd, n, e, m), Some(ua.to),
         NEW ua2 \in UartType, ua2.to = Tail(ua.to), ~ Partly(Coming(bd, ua))
  PROVE  e < n /\ Command(b, id, e, Coming(bd, ua))
<1>1. /\ e < n /\ Command(b, id, e, Coming(bd, ua))
      /\ \A x \in BoardType : ~ Some(x.recv) => Down(b, l, id, up, buf, ua2, x, n, e + 1, m)
  BY DownByte, ZenonT(60)
<1>2. QED
  BY <1>1

\* What a byte of a command does to a board that has done e commands: no more
\* than to wait for the rest, or the next command.
Taking(b, l, v, v2) ==
  /\ Some(v.ua.to) /\ ~ Some(v.bd.respond)
  /\ v2.ua.to = Tail(v.ua.to) /\ v2.ua.from = v.ua.from
  /\ v2.bd = IF Partly(Coming(v.bd, v.ua)) THEN [v.bd EXCEPT !.recv = Coming(v.bd, v.ua)]
             ELSE Exec(b, l, v.bd, Coming(v.bd, v.ua))

\* What the last byte of a command makes of a board.
Obeyed(b, l, id, v, v2, e, e2) ==
  \/ /\ e2 = e /\ v2.bd.respond = v.bd.respond /\ v2.bd.send = v.bd.send
     /\ v2.bd.idle = v.bd.idle
  \/ e2 = e + 1 /\ Replied(b, l, id, v.bd, v2.bd, e)

\* A byte that comes is one more of the command, or the command is done.
LEMMA ByteTaken ==
  ASSUME NEW b \in Boxes, NEW l \in Links, NEW id \in {Bridge} \cup Identities,
         chain[b][l] = id, NEW v \in ViewType, NEW v2 \in ViewType,
         v2.up = v.up, v2.buf = v.buf, Taking(b, l, v, v2),
         NEW n \in Nat, NEW e \in Nat, NEW m \in Nat,
         Down(b, l, id, v.up, v.buf, v.ua, v.bd, n, e, m), Registers(b, id, v.bd, v.pr, e)
  PROVE  /\ e < n
         /\ \E e2 \in Nat :
              /\ Down(b, l, id, v2.up, v2.buf, v2.ua, v2.bd, n, e2, m)
              /\ Registers(b, id, v2.bd, v.pr, e2)
              /\ Obeyed(b, l, id, v, v2, e, e2)
<1>0. /\ v.up \in Seq(Packets) /\ v.buf \in BufferType /\ v.ua \in UartType
      /\ v.bd \in BoardType /\ v2.ua \in UartType /\ v2.bd \in BoardType
  BY DEF ViewType
<1>1. /\ Some(v.ua.to) /\ v2.ua.to = Tail(v.ua.to) /\ v.bd.respond = <<>>
  BY DEF Taking, Some
<1>2. e < n
  <2>1. Down(b, l, id, v.up, v.buf, v.ua, v.bd, n, e, m) /\ Len(Commands(b, id)) \in Nat
    BY CommandShape, LenProperties
  <2>2. e <= n
    BY <2>1 DEF Down
  <2>3. e # n
    <3>1. SUFFICES ASSUME e = n PROVE FALSE
      OBVIOUS
    <3>2. ~ Some(Below(v.bd, v.ua, v.buf))
      BY <1>0, <3>1, DownEnded
    <3>3. v.ua.to = <<>>
      BY <1>0, <3>2, BelowType DEF Some
    <3>4. QED
      BY <1>1, <3>3 DEF Some
  <2>4. QED
    BY <2>2, <2>3
<1>3. CASE Partly(Coming(v.bd, v.ua))
  <2>1. v2.bd = [v.bd EXCEPT !.recv = Coming(v.bd, v.ua)]
    BY <1>3 DEF Taking
  <2>2. /\ v2.bd.recv = Coming(v.bd, v.ua) /\ v2.bd.respond = v.bd.respond
        /\ v2.bd.send = v.bd.send /\ v2.bd.idle = v.bd.idle
        /\ v2.bd.offset = v.bd.offset /\ v2.bd.linkEn = v.bd.linkEn
        /\ v2.bd.destCore = v.bd.destCore /\ v2.bd.started = v.bd.started
    BY <1>0, <2>1 DEF BoardType
  <2>3. Down(b, l, id, v.up, v.buf, v2.ua, v2.bd, n, e, m)
    BY <1>0, <1>1, <1>3, <2>2, DownPart
  <2>4. Registers(b, id, v2.bd, v.pr, e)
    BY <2>2 DEF Registers
  <2>5. Obeyed(b, l, id, v, v2, e, e)
    BY <2>2 DEF Obeyed
  <2>6. QED
    BY <1>2, <2>3, <2>4, <2>5
<1>4. CASE ~ Partly(Coming(v.bd, v.ua))
  <2>1. v2.bd = Exec(b, l, v.bd, Coming(v.bd, v.ua))
    BY <1>4 DEF Taking
  <2>2. Command(b, id, e, Coming(v.bd, v.ua)) /\ e < n
    BY <1>0, <1>1, <1>4, DownNext
  <2>3. Does(b, l, v.bd, Coming(v.bd, v.ua), v2.bd) /\ ~ Some(v.bd.respond)
    BY <1>1, <2>1 DEF Does, Some
  <2>4. ~ Some(v2.bd.recv) /\ Registers(b, id, v2.bd, v.pr, e + 1)
        /\ Replied(b, l, id, v.bd, v2.bd, e)
    BY <1>0, <2>2, <2>3, Executed
  <2>5. Down(b, l, id, v.up, v.buf, v2.ua, v2.bd, n, e + 1, m)
    BY <1>0, <1>1, <1>4, <2>4, DownWhole
  <2>6. Obeyed(b, l, id, v, v2, e, e + 1)
    BY <2>4 DEF Obeyed
  <2>7. QED
    BY <1>2, <2>4, <2>5, <2>6
<1>5. QED
  BY <1>3, <1>4

\* The reply's bytes follow those on their way.
LEMMA ReplyAdds ==
  ASSUME NEW buf \in BufferType, NEW ua \in UartType, NEW bd \in BoardType,
         NEW ua2, NEW bd2, ua2.from = ua.from, ~ Some(bd.respond), ~ Some(bd.send),
         ~ Some(bd2.send), NEW x \in Seq(Int), bd2.respond = x
  PROVE  Adds(bd, ua, buf, bd2, ua2, buf, x)
<1> DEFINE s == buf.in \o ua.from
<1>1. s \in Seq(Int)
  BY AboveType, Joins
<1>2. /\ Above(bd, ua, buf) = (s \o <<>>) \o <<>>
      /\ Above(bd2, ua2, buf) = (s \o x) \o <<>>
  BY DEF Above, Some
<1> HIDE DEF s
<1>3. s \o x \in Seq(Int) /\ s \o <<>> = s
  BY <1>1, Joins
<1>4. (s \o x) \o <<>> = s \o x
  BY <1>3, Joins
<1>5. QED
  BY <1>2, <1>3, <1>4 DEF Adds

\* A packet of the replies is the next one.
LEMMA ReplyGrows ==
  ASSUME NEW b \in Boxes, NEW l, NEW id \in {Bridge} \cup Identities,
         NEW pr \in [Cores -> Nat], NEW e \in Nat,
         e < Len(Stream(b, l, id, Replies))
  PROVE  /\ Grows(b, l, id, pr, e, pr, e + 1, Item(Stream(b, l, id, Replies), e))
         /\ Item(Stream(b, l, id, Replies), e) \in Seq(Int)
         /\ Len(Item(Stream(b, l, id, Replies), e)) = 2
         /\ ChannelOf(Item(Stream(b, l, id, Replies), e)) \in Channels
<1> DEFINE S == Stream(b, l, id, Replies)
           x == Item(S, e)
<1>1. Replies \in Channels
  BY DEF Channels
<1>2. Len(S) \in Nat
  BY <1>1, StreamShape
<1>3. e + 1 \in 1 .. Len(S) /\ x = S[e + 1]
  BY <1>2 DEF Item
<1>4. /\ x \in Seq(Int) /\ x[1] \in {QUERY, TEMP, STD} /\ Len(x) = fromDebugLinkSize(x[1])
      /\ ChannelOf(x) = Replies /\ x[1] # STD
  <2>1. \A i \in 1 .. Len(S) :
          /\ S[i] \in Seq(Int) /\ S[i][1] \in {QUERY, TEMP, STD}
          /\ Len(S[i]) = fromDebugLinkSize(S[i][1])
          /\ ChannelOf(S[i]) = Replies /\ S[i][1] # STD
    BY <1>1, StreamShape
  <2>2. QED
    BY <1>3, <2>1
<1>5. Len(x) = 2
  BY <1>4, Codes
<1>6. Made(b, l, id, pr, e, Replies) = e /\ Made(b, l, id, pr, e + 1, Replies) = e + 1
  BY <1>2 DEF Made
<1>7. ASSUME NEW ch \in Channels, ch # Replies
      PROVE  Made(b, l, id, pr, e + 1, ch) = Made(b, l, id, pr, e, ch)
  BY <1>7 DEF Made
<1> HIDE DEF x
<1>8. Grows(b, l, id, pr, e, pr, e + 1, x)
  <2>1. x = Item(Stream(b, l, id, Replies), Made(b, l, id, pr, e, Replies))
    BY <1>6 DEF x
  <2>2. QED
    BY <1>4, <1>6, <1>7, <2>1 DEF Grows
<1>9. QED
  BY <1>1, <1>4, <1>5, <1>8 DEF x

\* A board the program is connected to takes a byte,
LEMMA LiveTaken ==
  ASSUME NEW b \in Boxes, NEW l \in Links, NEW id \in {Bridge} \cup Identities,
         chain[b][l] = id, NEW v \in ViewType, NEW v2 \in ViewType,
         v2.up = v.up, v2.down = v.down, v2.at = v.at, v2.buf = v.buf, v2.pr = v.pr,
         Taking(b, l, v, v2), NEW n \in Nat, NEW g, Live(b, l, id, v, n, g)
  PROVE  Live(b, l, id, v2, n, g)
<1>0. /\ v.up \in Seq(Packets) /\ v.buf \in BufferType /\ v.ua \in UartType
      /\ v.bd \in BoardType /\ v2.ua \in UartType /\ v2.bd \in BoardType
  BY DEF ViewType
<1>p. PICK e \in Nat, m \in Nat : \E a, P :
        /\ Down(b, l, id, v.up, v.buf, v.ua, v.bd, n, e, m)
        /\ Registers(b, id, v.bd, v.pr, e)
        /\ Up(b, l, id, v.down, v.buf, v.ua, v.bd, v.pr, e, g, a, P)
        /\ id = Bridge /\ b = Master /\ v.at = "serve" /\ v.bd.idle => e >= 2
  BY DEF Live
<1>1. PICK a, P :
        /\ Down(b, l, id, v.up, v.buf, v.ua, v.bd, n, e, m)
        /\ Registers(b, id, v.bd, v.pr, e)
        /\ Up(b, l, id, v.down, v.buf, v.ua, v.bd, v.pr, e, g, a, P)
        /\ id = Bridge /\ b = Master /\ v.at = "serve" /\ v.bd.idle => e >= 2
  BY <1>p
<1>2. PICK e2 \in Nat :
        /\ Down(b, l, id, v2.up, v2.buf, v2.ua, v2.bd, n, e2, m)
        /\ Registers(b, id, v2.bd, v.pr, e2)
        /\ Obeyed(b, l, id, v, v2, e, e2)
  BY <1>1, ByteTaken
<1>3. v2.ua.from = v.ua.from /\ ~ Some(v.bd.respond)
  BY DEF Taking
<1>4. v.pr \in [Cores -> Nat] /\ OneAtATime(v.bd)
  BY <1>1 DEF Up
<1>5. id = Bridge /\ b = Master /\ v2.at = "serve" /\ v2.bd.idle => e2 >= 2
  BY <1>1, <1>2 DEF Obeyed, Replied
<1>6. Rises(b, l, id, v.down, v.buf, v2.ua, v2.bd, v.pr, e2, g)
  <2>1. CASE e2 = e /\ v2.bd.respond = v.bd.respond /\ v2.bd.send = v.bd.send
    <3>1. Above(v2.bd, v2.ua, v.buf) = Above(v.bd, v.ua, v.buf) /\ OneAtATime(v2.bd)
      BY <1>3, <1>4, <2>1 DEF Above, OneAtATime
    <3>2. Up(b, l, id, v.down, v.buf, v2.ua, v2.bd, v.pr, e, g, a, P)
      BY <1>1, <3>1 DEF Up
    <3>3. QED
      BY <2>1, <3>2 DEF Rises
  <2>2. CASE e2 = e + 1 /\ Replied(b, l, id, v.bd, v2.bd, e)
    <3> DEFINE S == Stream(b, l, id, Replies)
    <3>1. CASE ~ (e < Len(S))
      <4>1. v2.bd.respond = v.bd.respond /\ v2.bd.send = v.bd.send
        BY <1>3, <2>2, <3>1 DEF Replied, Some
      <4>2. Above(v2.bd, v2.ua, v.buf) = Above(v.bd, v.ua, v.buf) /\ OneAtATime(v2.bd)
        BY <1>3, <1>4, <4>1 DEF Above, OneAtATime
      <4>3. Len(S) \in Nat
        BY StreamShape DEF Channels
      <4>4. \A ch \in Channels : Made(b, l, id, v.pr, e + 1, ch) = Made(b, l, id, v.pr, e, ch)
        BY <3>1, <4>3 DEF Made
      <4>5. Up(b, l, id, v.down, v.buf, v2.ua, v2.bd, v.pr, e + 1, g, a, P)
        BY <1>1, <4>2, <4>4 DEF Up
      <4>6. QED
        BY <2>2, <4>5 DEF Rises
    <3>2. CASE e < Len(S)
      <4> DEFINE x == Item(S, e)
      <4>1. /\ v2.bd.respond = x /\ ~ Some(v.bd.send) /\ ~ Some(v2.bd.send)
        BY <2>2, <3>2 DEF Replied
      <4>2. /\ Grows(b, l, id, v.pr, e, v.pr, e + 1, x) /\ x \in Seq(Int)
            /\ Len(x) = 2 /\ ChannelOf(x) \in Channels
        BY <1>4, <3>2, ReplyGrows
      <4> HIDE DEF x, S
      <4>3. Adds(v.bd, v.ua, v.buf, v2.bd, v2.ua, v.buf, x)
        BY <1>0, <1>3, <4>1, <4>2, ReplyAdds
      <4>4. OneAtATime(v2.bd) /\ Sound(x, id)
        BY <4>1, <4>2 DEF OneAtATime, Sound, Some
      <4>5. Rises(b, l, id, v.down, v.buf, v2.ua, v2.bd, v.pr, e + 1, g)
        BY <1>0, <1>1, <1>4, <4>2, <4>3, <4>4, UpMade
      <4>6. QED
        BY <2>2, <4>5
    <3>3. QED
      BY <3>1, <3>2
  <2>3. QED
    BY <1>2, <2>1, <2>2 DEF Obeyed
<1>7. PICK a2, P2 : Up(b, l, id, v.down, v.buf, v2.ua, v2.bd, v.pr, e2, g, a2, P2)
  BY <1>6 DEF Rises
<1>8. QED
  BY <1>2, <1>5, <1>7 DEF Live

\* and so does one it is not, but no bridge.
LEMMA LoneTaken ==
  ASSUME NEW b \in Boxes, NEW l \in Links, NEW id \in {Bridge} \cup Identities,
         chain[b][l] = id, NEW v \in ViewType, NEW v2 \in ViewType,
         v2.up = v.up, v2.buf = v.buf, v2.pr = v.pr,
         Taking(b, l, v, v2), Lone(b, l, id, v)
  PROVE  Lone(b, l, id, v2)
<1>1. PICK n \in Nat, e \in Nat, m \in Nat :
        /\ Down(b, l, id, v.up, v.buf, v.ua, v.bd, n, e, m)
        /\ Registers(b, id, v.bd, v.pr, e)
        /\ id = Bridge => e = n
  BY DEF Lone
<1>2. e < n
  BY <1>1, ByteTaken
<1>3. PICK e2 \in Nat :
        /\ Down(b, l, id, v2.up, v2.buf, v2.ua, v2.bd, n, e2, m)
        /\ Registers(b, id, v2.bd, v.pr, e2)
        /\ Obeyed(b, l, id, v, v2, e, e2)
  BY <1>1, ByteTaken
<1>4. id # Bridge
  BY <1>1, <1>2
<1>5. QED
  BY <1>3, <1>4 DEF Lone

\* A byte of what the board says goes into the UART.
Says(ua, bd, ua2, bd2, t) ==
  /\ ua2.from = Append(ua.from, Head(t))
  /\ \/ bd.respond = t /\ bd2.respond = Tail(t) /\ ~ Some(bd.send) /\ ~ Some(bd2.send)
     \/ bd.send = t /\ bd2.send = Tail(t) /\ ~ Some(bd.respond) /\ ~ Some(bd2.respond)

\* A byte of a reply or of a character goes to the UART.
LEMMA ByteSaid ==
  ASSUME NEW buf \in BufferType, NEW ua \in UartType, NEW bd \in BoardType,
         NEW ua2 \in UartType, NEW bd2 \in BoardType, NEW t \in Seq(Int), Some(t),
         Says(ua, bd, ua2, bd2, t)
  PROVE  Above(bd2, ua2, buf) = Above(bd, ua, buf)
<1> DEFINE f == ua.from
           i == buf.in
           f2 == Append(f, Head(t))
           t2 == Tail(t)
<1>1. f \in Seq(Int) /\ i \in Seq(Int) /\ t # <<>>
  BY AboveType DEF Some
<1>2. f2 \in Seq(Int) /\ t2 \in Seq(Int) /\ f2 \o t2 = f \o t
  BY <1>1, MoveByte
<1>3. \/ /\ Above(bd, ua, buf) = ((i \o f) \o t) \o <<>>
         /\ Above(bd2, ua2, buf) = ((i \o f2) \o t2) \o <<>>
      \/ /\ Above(bd, ua, buf) = ((i \o f) \o <<>>) \o t
         /\ Above(bd2, ua2, buf) = ((i \o f2) \o <<>>) \o t2
  BY DEF Above, Some, Says
<1> HIDE DEF f, i, f2, t2
<1>4. i \o f \in Seq(Int) /\ i \o f2 \in Seq(Int)
  BY <1>1, <1>2, Joins
<1>5. /\ (i \o f) \o <<>> = i \o f /\ (i \o f2) \o <<>> = i \o f2
      /\ (i \o f) \o t \in Seq(Int) /\ (i \o f2) \o t2 \in Seq(Int)
  BY <1>2, <1>4, Joins
<1>6. ((i \o f) \o t) \o <<>> = (i \o f) \o t /\ ((i \o f2) \o t2) \o <<>> = (i \o f2) \o t2
  BY <1>5, Joins
<1>7. (i \o f) \o t = i \o (f \o t)
  BY <1>1, Assoc, ZenonT(30)
<1>8. (i \o f2) \o t2 = i \o (f2 \o t2)
  BY <1>1, <1>2, Assoc, ZenonT(30)
<1>9. (i \o f2) \o t2 = (i \o f) \o t
  BY <1>2, <1>7, <1>8
<1>10. CASE /\ Above(bd, ua, buf) = ((i \o f) \o t) \o <<>>
            /\ Above(bd2, ua2, buf) = ((i \o f2) \o t2) \o <<>>
  BY <1>6, <1>9, <1>10
<1>11. CASE /\ Above(bd, ua, buf) = ((i \o f) \o <<>>) \o t
            /\ Above(bd2, ua2, buf) = ((i \o f2) \o <<>>) \o t2
  BY <1>5, <1>9, <1>11
<1>12. QED
  BY <1>3, <1>10, <1>11

\* A byte of a reply goes,
Replying(v, v2) ==
  /\ Some(v.bd.respond)
  /\ LET r == v.bd.respond
         whole == Len(r) = 2 /\ v.bd.send = <<>> IN
     /\ v2.ua.from = Append(v.ua.from, IF whole THEN r[1] ELSE r[Len(r)])
     /\ v2.ua.to = v.ua.to
     /\ v2.bd = IF whole THEN [v.bd EXCEPT !.respond = Tail(@)]
                ELSE [v.bd EXCEPT !.respond = <<>>, !.send = <<>>]

\* or a byte of a character's packet.
Continuing(v, v2) ==
  /\ ~ Some(v.bd.respond) /\ Some(v.bd.send)
  /\ v2.ua.from = Append(v.ua.from, Head(v.bd.send)) /\ v2.ua.to = v.ua.to
  /\ v2.bd = [v.bd EXCEPT !.send = Tail(@)]

\* It is one of those on their way.
LEMMA ByteGone ==
  ASSUME NEW b \in Boxes, NEW l \in Links, NEW id \in {Bridge} \cup Identities,
         NEW v \in ViewType, NEW v2 \in ViewType, v2.up = v.up, v2.buf = v.buf,
         v2.pr = v.pr, Replying(v, v2) \/ Continuing(v, v2),
         NEW e, Registers(b, id, v.bd, v.pr, e)
  PROVE  /\ OneAtATime(v.bd) => /\ Above(v2.bd, v2.ua, v2.buf) = Above(v.bd, v.ua, v.buf)
                                /\ OneAtATime(v2.bd)
         /\ Registers(b, id, v2.bd, v.pr, e)
         /\ v2.bd.recv = v.bd.recv /\ v2.ua.to = v.ua.to /\ v2.bd.idle = v.bd.idle
         /\ Some(Above(v.bd, v.ua, v.buf))
<1> DEFINE r == v.bd.respond
           s == v.bd.send
<1>0. /\ v.buf \in BufferType /\ v.ua \in UartType /\ v.bd \in BoardType
      /\ v2.ua \in UartType /\ v2.bd \in BoardType
  BY DEF ViewType
<1>1. r \in Seq(Int) /\ s \in Seq(Int)
  BY <1>0, AboveType
<1>2. /\ v2.bd.recv = v.bd.recv /\ v2.ua.to = v.ua.to /\ v2.bd.idle = v.bd.idle
      /\ v2.bd.offset = v.bd.offset /\ v2.bd.linkEn = v.bd.linkEn
      /\ v2.bd.destCore = v.bd.destCore /\ v2.bd.started = v.bd.started
      /\ s = <<>> => v2.bd.send = <<>>
  <2>1. CASE Continuing(v, v2)
    BY <1>0, <2>1 DEF Continuing, BoardType, Some
  <2>2. CASE Replying(v, v2)
    BY <1>0, <2>2 DEF Replying, BoardType
  <2>3. QED
    BY <2>1, <2>2
<1>3. Registers(b, id, v2.bd, v.pr, e)
  BY <1>2 DEF Registers
<1>4. Some(Above(v.bd, v.ua, v.buf))
  BY <1>0, AboveType DEF Replying, Continuing, Some
<1>5. ASSUME OneAtATime(v.bd)
      PROVE  /\ Above(v2.bd, v2.ua, v2.buf) = Above(v.bd, v.ua, v.buf) /\ OneAtATime(v2.bd)
  <2>1. CASE Continuing(v, v2)
    <3>1. /\ s \in Seq(Int) /\ Some(s) /\ v2.ua.from = Append(v.ua.from, Head(s))
          /\ v2.bd.send = Tail(s) /\ ~ Some(v.bd.respond) /\ ~ Some(v2.bd.respond)
      BY <1>0, <1>1, <2>1 DEF Continuing, BoardType
    <3>2. Above(v2.bd, v2.ua, v.buf) = Above(v.bd, v.ua, v.buf)
      <4>1. Says(v.ua, v.bd, v2.ua, v2.bd, s)
        BY <3>1 DEF Says
      <4>2. QED
        BY <1>0, <3>1, <4>1, ByteSaid
    <3>3. QED
      BY <3>1, <3>2 DEF OneAtATime, Some
  <2>2. CASE Replying(v, v2)
    <3>1. r # <<>> /\ s = <<>> /\ Len(r) <= 2
      BY <1>5, <2>2 DEF Replying, OneAtATime, Some
    <3>2. Len(r) \in {1, 2} /\ Head(r) = r[1] /\ Tail(r) \in Seq(Int)
          /\ Len(Tail(r)) = Len(r) - 1
      <4>1. Len(r) \in Nat /\ Len(r) # 0
        BY <1>1, <3>1, EmptySeq, LenProperties
      <4>2. Tail(r) \in Seq(Int) /\ Len(Tail(r)) = Len(r) - 1
        BY <1>1, <3>1, HeadTailProperties
      <4>a. \A x \in Nat : x # 0 /\ x <= 2 => x \in {1, 2}
        OBVIOUS
      <4>b. Len(r) # 0 /\ Len(r) <= 2
        BY <3>1, <4>1
      <4> HIDE DEF r, s
      <4>3. Len(r) \in {1, 2}
        BY <4>1, <4>a, <4>b
      <4>4. Head(r) = r[1]
        BY <1>1 DEF r
      <4>5. QED
        BY <4>2, <4>3, <4>4
    <3>3. /\ v2.ua.from = Append(v.ua.from, Head(r)) /\ v2.bd.respond = Tail(r)
          /\ v2.bd.send = <<>>
      <4>1. CASE Len(r) = 2
        BY <1>0, <2>2, <3>1, <3>2, <4>1 DEF Replying, BoardType
      <4>2. CASE Len(r) = 1
        <5>1. Tail(r) = <<>>
          <6>1. Tail(r) \in Seq(Int) /\ Len(Tail(r)) = 0
            BY <3>2, <4>2
          <6>2. QED
            BY <6>1, EmptySeq
        <5>2. QED
          BY <1>0, <2>2, <3>1, <3>2, <4>2, <5>1 DEF Replying, BoardType
      <4>3. QED
        BY <3>2, <4>1, <4>2
    <3>4. Above(v2.bd, v2.ua, v.buf) = Above(v.bd, v.ua, v.buf)
      <4>1. ~ Some(v.bd.send) /\ ~ Some(v2.bd.send) /\ Some(r)
        BY <3>1, <3>3 DEF Some
      <4>2. Says(v.ua, v.bd, v2.ua, v2.bd, r)
        BY <3>3, <4>1 DEF Says
      <4>3. QED
        BY <1>0, <1>1, <4>1, <4>2, ByteSaid
    <3>5. OneAtATime(v2.bd)
      <4>1. Len(v2.bd.respond) = Len(r) - 1
        BY <3>2, <3>3
      <4>2. Len(v2.bd.respond) <= 2
        <5>1. PICK x \in {1, 2} : x = Len(r)
          BY <3>2
        <5>2. Len(v2.bd.respond) = x - 1
          BY <4>1, <5>1
        <5>3. x - 1 <= 2
          OBVIOUS
        <5>4. QED
          BY <5>2, <5>3
      <4>3. QED
        BY <3>3, <4>2 DEF OneAtATime
    <3>6. QED
      BY <3>4, <3>5
  <2>3. QED
    BY <2>1, <2>2
<1>6. QED
  BY <1>2, <1>3, <1>4, <1>5

\* A board the program is connected to,
LEMMA LiveSaid ==
  ASSUME NEW b \in Boxes, NEW l \in Links, NEW id \in {Bridge} \cup Identities,
         NEW v \in ViewType, NEW v2 \in ViewType, v2.up = v.up, v2.down = v.down,
         v2.at = v.at, v2.buf = v.buf, v2.pr = v.pr, Replying(v, v2) \/ Continuing(v, v2),
         NEW n \in Nat, NEW g, Live(b, l, id, v, n, g)
  PROVE  Live(b, l, id, v2, n, g)
<1>p. PICK e \in Nat, m \in Nat : \E a, P :
        /\ Down(b, l, id, v.up, v.buf, v.ua, v.bd, n, e, m)
        /\ Registers(b, id, v.bd, v.pr, e)
        /\ Up(b, l, id, v.down, v.buf, v.ua, v.bd, v.pr, e, g, a, P)
        /\ id = Bridge /\ b = Master /\ v.at = "serve" /\ v.bd.idle => e >= 2
  BY DEF Live
<1>1. PICK a, P :
        /\ Down(b, l, id, v.up, v.buf, v.ua, v.bd, n, e, m)
        /\ Registers(b, id, v.bd, v.pr, e)
        /\ Up(b, l, id, v.down, v.buf, v.ua, v.bd, v.pr, e, g, a, P)
        /\ id = Bridge /\ b = Master /\ v.at = "serve" /\ v.bd.idle => e >= 2
  BY <1>p
<1>2. OneAtATime(v.bd)
  BY <1>1 DEF Up
<1>3. /\ Above(v2.bd, v2.ua, v2.buf) = Above(v.bd, v.ua, v.buf) /\ OneAtATime(v2.bd)
      /\ Registers(b, id, v2.bd, v.pr, e)
      /\ v2.bd.recv = v.bd.recv /\ v2.ua.to = v.ua.to /\ v2.bd.idle = v.bd.idle
  BY <1>1, <1>2, ByteGone
<1>4. Down(b, l, id, v2.up, v2.buf, v2.ua, v2.bd, n, e, m)
  BY <1>1, <1>3 DEF Down, Below
<1>5. Up(b, l, id, v2.down, v2.buf, v2.ua, v2.bd, v2.pr, e, g, a, P)
  BY <1>1, <1>3 DEF Up
<1>6. QED
  BY <1>1, <1>3, <1>4, <1>5 DEF Live

\* and one it is not.
LEMMA LoneSaid ==
  ASSUME NEW b \in Boxes, NEW l \in Links, NEW id \in {Bridge} \cup Identities,
         NEW v \in ViewType, NEW v2 \in ViewType, v2.up = v.up, v2.buf = v.buf,
         v2.pr = v.pr, Replying(v, v2) \/ Continuing(v, v2), Lone(b, l, id, v)
  PROVE  Lone(b, l, id, v2)
<1>1. PICK n \in Nat, e \in Nat, m \in Nat :
        /\ Down(b, l, id, v.up, v.buf, v.ua, v.bd, n, e, m)
        /\ Registers(b, id, v.bd, v.pr, e)
        /\ id = Bridge => ~ Some(Above(v.bd, v.ua, v.buf))
  BY DEF Lone, Some
<1>2. /\ Registers(b, id, v2.bd, v.pr, e) /\ Some(Above(v.bd, v.ua, v.buf))
      /\ v2.bd.recv = v.bd.recv /\ v2.ua.to = v.ua.to
  <2>1. Registers(b, id, v.bd, v.pr, e)
    BY <1>1
  <2>2. /\ OneAtATime(v.bd) => /\ Above(v2.bd, v2.ua, v2.buf) = Above(v.bd, v.ua, v.buf)
                               /\ OneAtATime(v2.bd)
        /\ Registers(b, id, v2.bd, v.pr, e)
        /\ v2.bd.recv = v.bd.recv /\ v2.ua.to = v.ua.to /\ v2.bd.idle = v.bd.idle
        /\ Some(Above(v.bd, v.ua, v.buf))
    BY <2>1, ByteGone
  <2>3. QED
    BY <2>2
<1>3. Down(b, l, id, v2.up, v2.buf, v2.ua, v2.bd, n, e, m)
  BY <1>1, <1>2 DEF Down, Below
<1>4. QED
  BY <1>1, <1>2, <1>3 DEF Lone

\* The packet of the next character of a core begins,
Printing(b, l, c, v, v2) ==
  /\ ~ Some(v.bd.respond) /\ ~ Some(v.bd.send) /\ c \in v.bd.started
  /\ v.pr[c] < Len(Text(b, l, c))
  /\ v2.ua.from = Append(v.ua.from, STD) /\ v2.ua.to = v.ua.to
  /\ v2.bd = [v.bd EXCEPT !.send = <<0, c, Text(b, l, c)[v.pr[c] + 1]>>]
  /\ v2.pr = [v.pr EXCEPT ![c] = @ + 1]

\* or a report of heat goes.
Heating(v, v2) ==
  /\ ~ Some(v.bd.respond) /\ ~ Some(v.bd.send)
  /\ v2.ua.from = Append(v.ua.from, OVERHEAT) /\ v2.ua.to = v.ua.to
  /\ v2.bd = [v.bd EXCEPT !.hot = TRUE]

\* Three queues as one.
LEMMA AssocJoined ==
  ASSUME NEW s \in Seq(Int), NEW t \in Seq(Int), NEW u \in Seq(Int)
  PROVE  Joined(Joined(s, t), u) = Joined(s, Joined(t, u))
BY Assoc DEF Joined

\* A packet begins with a byte in the UART.
LEMMA ByteBegins ==
  ASSUME NEW buf \in BufferType, NEW ua \in UartType, NEW bd \in BoardType,
         NEW ua2 \in UartType, NEW bd2 \in BoardType, NEW h \in Int, NEW t \in Seq(Int),
         NEW x, x = Joined(<<h>>, t), ua2.from = Append(ua.from, h),
         ~ Some(bd.respond), ~ Some(bd.send), ~ Some(bd2.respond), bd2.send = t
  PROVE  Adds(bd, ua, buf, bd2, ua2, buf, x)
<1> DEFINE f == ua.from
           i == buf.in
<1>1. f \in Seq(Int) /\ i \in Seq(Int) /\ <<h>> \in Seq(Int)
  <2>1. f \in Seq(Int) /\ i \in Seq(Int)
    BY AboveType
  <2>2. <<h>> \in Seq(Int)
    OBVIOUS
  <2>3. QED
    BY <2>1, <2>2
<1>2. Append(f, h) = f \o <<h>>
  BY <1>1, Joins
<1>3. /\ Above(bd, ua, buf) = ((i \o f) \o <<>>) \o <<>>
      /\ Above(bd2, ua2, buf) = ((i \o (f \o <<h>>)) \o <<>>) \o t
  BY <1>2 DEF Above, Some
<1> HIDE DEF f, i
<1>4. i \o f \in Seq(Int) /\ f \o <<h>> \in Seq(Int)
  BY <1>1, Joins
<1>5. i \o (f \o <<h>>) \in Seq(Int) /\ (i \o f) \o <<>> = i \o f
  BY <1>1, <1>4, Joins
<1>6. (i \o (f \o <<h>>)) \o <<>> = i \o (f \o <<h>>)
  BY <1>5, Joins
<1>7. (i \o f) \o <<h>> = i \o (f \o <<h>>)
  <2> DEFINE u == <<h>>
  <2>1. u \in Seq(Int)
    BY <1>1
  <2> HIDE DEF u
  <2>2. Joined(Joined(i, f), u) = Joined(i, Joined(f, u))
    BY <1>1, <2>1, AssocJoined
  <2>3. QED
    BY <2>2 DEF u, Joined
<1>8. ((i \o f) \o <<h>>) \o t = (i \o f) \o (<<h>> \o t)
  <2> DEFINE s == i \o f
             u == <<h>>
  <2>1. s \in Seq(Int) /\ u \in Seq(Int)
    BY <1>1, <1>4
  <2> HIDE DEF s, u
  <2>2. (s \o u) \o t = s \o (u \o t)
    BY <2>1, Assoc, ZenonT(30)
  <2>3. QED
    BY <2>2 DEF s, u
<1>9. Above(bd, ua, buf) = i \o f
  BY <1>3, <1>5
<1>10. Above(bd2, ua2, buf) = ((i \o f) \o <<h>>) \o t
  BY <1>3, <1>6, <1>7
<1>11. QED
  BY <1>8, <1>9, <1>10 DEF Adds, Joined

\* A board the program is connected to prints,
LEMMA LivePrint ==
  ASSUME NEW b \in Boxes, NEW l \in Links, NEW id \in {Bridge} \cup Identities,
         NEW v \in ViewType, NEW v2 \in ViewType, v2.up = v.up, v2.down = v.down,
         v2.at = v.at, v2.buf = v.buf, NEW c \in Cores, Printing(b, l, c, v, v2),
         NEW n \in Nat, NEW g, Live(b, l, id, v, n, g)
  PROVE  Live(b, l, id, v2, n, g)
<1>0. /\ v.up \in Seq(Packets) /\ v.buf \in BufferType /\ v.ua \in UartType
      /\ v.bd \in BoardType /\ v2.ua \in UartType /\ v2.bd \in BoardType
      /\ v.pr \in [Cores -> Nat] /\ v2.pr \in [Cores -> Nat]
  BY DEF ViewType
<1>p. PICK e \in Nat, m \in Nat : \E a, P :
        /\ Down(b, l, id, v.up, v.buf, v.ua, v.bd, n, e, m)
        /\ Registers(b, id, v.bd, v.pr, e)
        /\ Up(b, l, id, v.down, v.buf, v.ua, v.bd, v.pr, e, g, a, P)
        /\ id = Bridge /\ b = Master /\ v.at = "serve" /\ v.bd.idle => e >= 2
  BY DEF Live
<1>1. PICK a, P :
        /\ Down(b, l, id, v.up, v.buf, v.ua, v.bd, n, e, m)
        /\ Registers(b, id, v.bd, v.pr, e)
        /\ Up(b, l, id, v.down, v.buf, v.ua, v.bd, v.pr, e, g, a, P)
        /\ id = Bridge /\ b = Master /\ v.at = "serve" /\ v.bd.idle => e >= 2
  BY <1>p
<1>2. /\ v2.bd.recv = v.bd.recv /\ v2.ua.to = v.ua.to /\ v2.bd.idle = v.bd.idle
      /\ v2.bd.offset = v.bd.offset /\ v2.bd.linkEn = v.bd.linkEn
      /\ v2.bd.destCore = v.bd.destCore /\ v2.bd.started = v.bd.started
      /\ v2.bd.respond = v.bd.respond
      /\ v2.bd.send = <<0, c, Text(b, l, c)[v.pr[c] + 1]>>
  BY <1>0 DEF Printing, BoardType
<1>3. id # Bridge /\ e >= 4
  <2>1. v.bd.started # {}
    BY DEF Printing
  <2>2. QED
    BY <1>1, <2>1 DEF Registers
<1>4. Registers(b, id, v2.bd, v2.pr, e)
  BY <1>1, <1>2, <1>3 DEF Registers
<1> DEFINE k == v.pr[c]
           y == Text(b, l, c)[k + 1]
           x == <<STD, 0, c, y>>
<1>5. k \in {0, 1} /\ y \in Int /\ c \in Int /\ c \in Channels /\ c # Replies
  <2>1. c \in Nat /\ c \in Channels /\ c # Replies
    BY BoardsAssumption DEF Cores, Channels, Replies
  <2>2. k \in Nat /\ k < 2
    BY <1>0 DEF Printing, Text
  <2>3. k \in {0, 1}
    BY <2>2
  <2>4. Text(b, l, c)[1] \in Int /\ Text(b, l, c)[2] \in Int
    BY <2>1, BoardsAssumption DEF Text, NEWLINE, Boxes
  <2>5. QED
    BY <2>1, <2>3, <2>4
<1>6. x \in Seq(Int) /\ ChannelOf(x) = c
  BY <1>5 DEF ChannelOf, STD
<1>7. Grows(b, l, id, v.pr, e, v2.pr, e, x)
  <2>1. v2.pr = [v.pr EXCEPT ![c] = k + 1]
    BY DEF Printing
  <2>2. Made(b, l, id, v.pr, e, c) = k /\ Made(b, l, id, v2.pr, e, c) = k + 1
    BY <1>0, <1>5, <2>1 DEF Made
  <2>3. \A ch \in Channels : ch # c =>
          Made(b, l, id, v2.pr, e, ch) = Made(b, l, id, v.pr, e, ch)
    BY <1>0, <2>1 DEF Made, Channels
  <2>4. Len(Stream(b, l, id, c)) = 2
    BY <1>5, StreamShape
  <2>5. x = Item(Stream(b, l, id, c), k)
    BY <1>5 DEF Item, Stream
  <2>6. \A ch \in Channels : ChannelOf(x) = ch <=> ch = c
    BY <1>6
  <2> HIDE DEF x, y, k
  <2>7. k < 2
    BY <1>5
  <2>8. ASSUME NEW ch \in Channels, ch = c
        PROVE  /\ Made(b, l, id, v.pr, e, ch) < Len(Stream(b, l, id, ch))
               /\ x = Item(Stream(b, l, id, ch), Made(b, l, id, v.pr, e, ch))
               /\ Made(b, l, id, v2.pr, e, ch) = Made(b, l, id, v.pr, e, ch) + 1
    BY <2>2, <2>4, <2>5, <2>7, <2>8
  <2>9. QED
    BY <2>3, <2>6, <2>8 DEF Grows
<1>8. Adds(v.bd, v.ua, v.buf, v2.bd, v2.ua, v.buf, x)
  <2> DEFINE t == <<0, c, y>>
  <2>1. t \in Seq(Int) /\ STD \in Int /\ x = Joined(<<STD>>, t)
    BY <1>5 DEF STD, Joined
  <2>2. /\ ~ Some(v.bd.respond) /\ ~ Some(v.bd.send) /\ ~ Some(v2.bd.respond)
        /\ v2.bd.send = t /\ v2.ua.from = Append(v.ua.from, STD)
    BY <1>2 DEF Printing
  <2> HIDE DEF t, x, y
  <2>3. QED
    BY <1>0, <2>1, <2>2, ByteBegins
<1>9. OneAtATime(v2.bd) /\ Sound(x, id)
  <2>1. v2.bd.respond = <<>>
    BY <1>2 DEF Printing, Some
  <2>2. ChannelOf(x) \in Channels
    BY <1>5, <1>6
  <2> HIDE DEF x
  <2>3. QED
    BY <2>1, <2>2 DEF OneAtATime, Sound
<1>10. Rises(b, l, id, v.down, v.buf, v2.ua, v2.bd, v2.pr, e, g)
  <2>1. x \in Seq(Int)
    BY <1>6
  <2> HIDE DEF x
  <2>2. QED
    BY <1>0, <1>1, <1>7, <1>8, <1>9, <2>1, UpMade
<1>11. PICK a2, P2 : Up(b, l, id, v.down, v.buf, v2.ua, v2.bd, v2.pr, e, g, a2, P2)
  BY <1>10 DEF Rises
<1>12. Down(b, l, id, v2.up, v2.buf, v2.ua, v2.bd, n, e, m)
  BY <1>1, <1>2 DEF Down, Below
<1>13. QED
  BY <1>1, <1>2, <1>4, <1>11, <1>12 DEF Live

\* and one it is not.
LEMMA LonePrint ==
  ASSUME NEW b \in Boxes, NEW l \in Links, NEW id \in {Bridge} \cup Identities,
         NEW v \in ViewType, NEW v2 \in ViewType, v2.up = v.up,
         v2.buf = v.buf, NEW c \in Cores, Printing(b, l, c, v, v2), Lone(b, l, id, v)
  PROVE  Lone(b, l, id, v2)
<1>0. v.bd \in BoardType /\ v.pr \in [Cores -> Nat]
  BY DEF ViewType
<1>1. PICK n \in Nat, e \in Nat, m \in Nat :
        /\ Down(b, l, id, v.up, v.buf, v.ua, v.bd, n, e, m)
        /\ Registers(b, id, v.bd, v.pr, e)
  BY DEF Lone
<1>2. /\ v2.bd.recv = v.bd.recv /\ v2.ua.to = v.ua.to
      /\ v2.bd.offset = v.bd.offset /\ v2.bd.linkEn = v.bd.linkEn
      /\ v2.bd.destCore = v.bd.destCore /\ v2.bd.started = v.bd.started
      /\ v2.bd.idle = v.bd.idle
  BY <1>0 DEF Printing, BoardType
<1>3. id # Bridge /\ e >= 4
  <2>1. v.bd.started # {}
    BY DEF Printing
  <2>2. QED
    BY <1>1, <2>1 DEF Registers
<1>4. Registers(b, id, v2.bd, v2.pr, e)
  BY <1>1, <1>2, <1>3 DEF Registers
<1>5. Down(b, l, id, v2.up, v2.buf, v2.ua, v2.bd, n, e, m)
  BY <1>1, <1>2 DEF Down, Below
<1>6. QED
  BY <1>3, <1>4, <1>5 DEF Lone

\* A board reports heat that the program is connected to,
LEMMA LiveHeat ==
  ASSUME NEW b \in Boxes, NEW l \in Links, NEW id \in Identities,
         NEW v \in ViewType, NEW v2 \in ViewType, v2.up = v.up, v2.down = v.down,
         v2.at = v.at, v2.buf = v.buf, v2.pr = v.pr, Heating(v, v2),
         NEW n \in Nat, NEW g, Live(b, l, id, v, n, g)
  PROVE  Live(b, l, id, v2, n, g)
<1>0. /\ v.up \in Seq(Packets) /\ v.buf \in BufferType /\ v.ua \in UartType
      /\ v.bd \in BoardType /\ v2.ua \in UartType /\ v2.bd \in BoardType
      /\ v.pr \in [Cores -> Nat]
  BY DEF ViewType
<1>p. PICK e \in Nat, m \in Nat : \E a, P :
        /\ Down(b, l, id, v.up, v.buf, v.ua, v.bd, n, e, m)
        /\ Registers(b, id, v.bd, v.pr, e)
        /\ Up(b, l, id, v.down, v.buf, v.ua, v.bd, v.pr, e, g, a, P)
        /\ id = Bridge /\ b = Master /\ v.at = "serve" /\ v.bd.idle => e >= 2
  BY DEF Live
<1>1. PICK a, P :
        /\ Down(b, l, id, v.up, v.buf, v.ua, v.bd, n, e, m)
        /\ Registers(b, id, v.bd, v.pr, e)
        /\ Up(b, l, id, v.down, v.buf, v.ua, v.bd, v.pr, e, g, a, P)
        /\ id = Bridge /\ b = Master /\ v.at = "serve" /\ v.bd.idle => e >= 2
  BY <1>p
<1>2. /\ v2.bd.recv = v.bd.recv /\ v2.ua.to = v.ua.to /\ v2.bd.idle = v.bd.idle
      /\ v2.bd.offset = v.bd.offset /\ v2.bd.linkEn = v.bd.linkEn
      /\ v2.bd.destCore = v.bd.destCore /\ v2.bd.started = v.bd.started
      /\ v2.bd.respond = v.bd.respond /\ v2.bd.send = v.bd.send
  BY <1>0 DEF Heating, BoardType
<1>3. Registers(b, id, v2.bd, v2.pr, e)
  BY <1>1, <1>2 DEF Registers
<1>4. id # Bridge
  BY IdentityShape DEF Bridge
<1>5. HeatOut \in Seq(Int) /\ ChannelOf(HeatOut) = -2 /\ HeatOut = Joined(<<OVERHEAT>>, <<>>)
  BY DEF HeatOut, Joined, OVERHEAT, ChannelOf, STD, QUERY, TEMP
<1>6. \A ch \in Channels : ch # -2
  BY DEF Channels, Replies, Cores
<1>7. Grows(b, l, id, v.pr, e, v2.pr, e, HeatOut)
  BY <1>5, <1>6 DEF Grows
<1>8. Adds(v.bd, v.ua, v.buf, v2.bd, v2.ua, v.buf, HeatOut)
  <2>1. /\ ~ Some(v.bd.respond) /\ ~ Some(v.bd.send) /\ ~ Some(v2.bd.respond)
        /\ v2.bd.send = <<>> /\ v2.ua.from = Append(v.ua.from, OVERHEAT)
    BY <1>2 DEF Heating, Some
  <2>2. OVERHEAT \in Int /\ <<>> \in Seq(Int)
    BY EmptySeq DEF OVERHEAT
  <2>3. QED
    BY <1>0, <1>5, <2>1, <2>2, ByteBegins
<1>9. OneAtATime(v2.bd) /\ Sound(HeatOut, id)
  BY <1>2, <1>4 DEF OneAtATime, Sound, Heating, Some
<1>10. Rises(b, l, id, v.down, v.buf, v2.ua, v2.bd, v2.pr, e, g)
  BY <1>0, <1>1, <1>5, <1>7, <1>8, <1>9, UpMade
<1>11. PICK a2, P2 : Up(b, l, id, v.down, v.buf, v2.ua, v2.bd, v2.pr, e, g, a2, P2)
  BY <1>10 DEF Rises
<1>12. Down(b, l, id, v2.up, v2.buf, v2.ua, v2.bd, n, e, m)
  BY <1>1, <1>2 DEF Down, Below
<1>13. QED
  BY <1>1, <1>2, <1>3, <1>11, <1>12 DEF Live

\* or it is not.
LEMMA LoneHeat ==
  ASSUME NEW b \in Boxes, NEW l \in Links, NEW id \in Identities,
         NEW v \in ViewType, NEW v2 \in ViewType, v2.up = v.up,
         v2.buf = v.buf, v2.pr = v.pr, Heating(v, v2), Lone(b, l, id, v)
  PROVE  Lone(b, l, id, v2)
<1>0. v.bd \in BoardType
  BY DEF ViewType
<1>1. PICK n \in Nat, e \in Nat, m \in Nat :
        /\ Down(b, l, id, v.up, v.buf, v.ua, v.bd, n, e, m)
        /\ Registers(b, id, v.bd, v.pr, e)
  BY DEF Lone
<1>2. /\ v2.bd.recv = v.bd.recv /\ v2.ua.to = v.ua.to /\ v2.bd.idle = v.bd.idle
      /\ v2.bd.offset = v.bd.offset /\ v2.bd.linkEn = v.bd.linkEn
      /\ v2.bd.destCore = v.bd.destCore /\ v2.bd.started = v.bd.started
      /\ v2.bd.send = v.bd.send
  BY <1>0 DEF Heating, BoardType
<1>3. Registers(b, id, v2.bd, v2.pr, e)
  BY <1>1, <1>2 DEF Registers
<1>4. id # Bridge
  BY IdentityShape DEF Bridge
<1>5. Down(b, l, id, v2.up, v2.buf, v2.ua, v2.bd, n, e, m)
  BY <1>1, <1>2 DEF Down, Below
<1>6. QED
  BY <1>3, <1>4, <1>5 DEF Lone

\* The registers and the UART of a board out of reset, or of a quiet bridge.
Fresh(id, v) ==
  \/ v.bd = NewBoard /\ v.ua = NewUart
  \/ id = Bridge /\ v.bd.started = {} /\ v.bd.send = <<>> /\ v.bd.respond = <<>>
     /\ v.bd.recv = <<>> /\ v.ua.to = <<>> /\ v.ua.from = <<>>

\* A board to which nothing has been sent, of a box newly up, or down.
LEMMA Restart ==
  ASSUME NEW b \in Boxes, NEW l \in Links, NEW id \in {Bridge} \cup Identities,
         NEW v \in ViewType, ~ Some(v.up), v.buf = NewBuffer, v.pr = NothingPrinted,
         Fresh(id, v)
  PROVE  /\ Lone(b, l, id, v)
         /\ (/\ \A ch \in Channels : OnChannel(v.down, l, ch) = {}
             /\ id = Bridge /\ b = Master /\ v.at = "serve" => ~ v.bd.idle)
              => Live(b, l, id, v, 0, [ch \in Channels |-> 0])
<1>1. /\ v.buf.in = <<>> /\ v.buf.out = <<>>
  BY DEF NewBuffer
<1>2. /\ v.bd.recv = <<>> /\ v.bd.respond = <<>> /\ v.bd.send = <<>>
      /\ v.ua.to = <<>> /\ v.ua.from = <<>> /\ v.bd.started = {}
  BY DEF Fresh, NewBoard, NewUart
<1>3. ~ Some(Below(v.bd, v.ua, v.buf)) /\ Above(v.bd, v.ua, v.buf) = <<>>
  BY <1>1, <1>2 DEF Below, Above, Some
<1>4. OnLink(v.up, l) = {}
  BY DEF Some, OnLink
<1>5. Registers(b, id, v.bd, v.pr, 0)
  <2>1. CASE v.bd = NewBoard
    BY <2>1 DEF Registers, NewBoard
  <2>2. CASE id = Bridge
    BY <1>2, <2>2 DEF Registers
  <2>3. QED
    BY <2>1, <2>2 DEF Fresh
<1>6. Lone(b, l, id, v)
  <2> DEFINE w == [up |-> v.up, down |-> <<>>, at |-> "listen", buf |-> v.buf, ua |-> v.ua,
                   bd |-> v.bd, pr |-> v.pr]
  <2>0. /\ v.up \in Seq(Packets) /\ v.buf \in BufferType /\ v.ua \in UartType
        /\ v.bd \in BoardType /\ v.pr \in [Cores -> Nat]
    BY DEF ViewType
  <2>1. /\ w.up = v.up /\ w.buf = v.buf /\ w.ua = v.ua /\ w.bd = v.bd /\ w.pr = v.pr
        /\ w.down = <<>> /\ w.at = "listen" /\ w \in ViewType
    BY <2>0 DEF ViewType
  <2> HIDE DEF w
  <2>2. \A ch \in Channels : OnChannel(w.down, l, ch) = {}
    BY <2>1 DEF OnChannel, OnLink
  <2>3. Lone(b, l, id, w)
    BY <1>3, <1>4, <1>5, <2>1, <2>2, LiveStart
  <2>4. QED
    BY <2>1, <2>3 DEF Lone
<1>7. ASSUME \A ch \in Channels : OnChannel(v.down, l, ch) = {},
             id = Bridge /\ b = Master /\ v.at = "serve" => ~ v.bd.idle
      PROVE  Live(b, l, id, v, 0, [ch \in Channels |-> 0])
  BY <1>3, <1>4, <1>5, <1>7, LiveStart
<1>8. QED
  BY <1>6, <1>7

\* A bridge that is quiet stays so.
LEMMA QuietFresh ==
  ASSUME NEW b \in Boxes, NEW l \in Links, NEW v \in ViewType, Lone(b, l, Bridge, v),
         NEW v2, v2.bd = v.bd, v2.ua = v.ua
  PROVE  Fresh(Bridge, v2)
<1>1. /\ ~ Some(Below(v.bd, v.ua, v.buf)) /\ Above(v.bd, v.ua, v.buf) = <<>>
      /\ v.bd.started = {} /\ v.bd.send = <<>>
  BY LoneBridge
<1>2. v.bd \in BoardType /\ v.ua \in UartType /\ v.buf \in BufferType
  BY DEF ViewType
<1>3. v.bd.recv = <<>> /\ v.ua.to = <<>>
  BY <1>1, <1>2 DEF Some, Below, BoardType, UartType, BufferType
<1>4. v.bd.respond = <<>> /\ v.ua.from = <<>>
  BY <1>1, <1>2 DEF Above, BoardType, UartType, BufferType
<1>5. QED
  BY <1>1, <1>3, <1>4 DEF Fresh

=============================================================================
