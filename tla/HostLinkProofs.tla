---------------------------- MODULE HostLinkProofs ----------------------------
(***************************************************************************)
(* Proofs about the byte streams of HostLink: for every number of clients, *)
(* every size of flit, socket, DMA buffer and bridge buffer, every script  *)
(* of a host program, and clients that are killed at any point.            *)
(***************************************************************************)
EXTENDS HostLink, CommonTheorems

-----------------------------------------------------------------------------
(* Types                                                                   *)

Bytes == [session : Nat, n : Nat]
Flit == {f \in Seq(Bytes) : Len(f) = FlitBytes}
Socket == [up : Seq(Bytes), down : Seq(Bytes), client : BOOLEAN, server : BOOLEAN]
TxState == [active : 0 .. 1, ready : BOOLEAN, pending : Nat]
RxState == [active : 0 .. 1, written : Nat, available : Nat]
Daemon == [st : {"listen", "serve", "reset"}, conn : Nat, tx : TxState, rx : RxState]
Dma == [tx : [0 .. 1 -> Seq(Bytes)], rx : [0 .. 1 -> Seq(Bytes)]]
BridgeState ==
  [enabled : BOOLEAN, lenTx : [1 .. 2 -> Nat], lenRx : [1 .. 2 -> Nat],
   txRead : 0 .. 1, txCount : Nat, rxWrite : 0 .. 1, rxRead : 0 .. 1, rxCount : Nat,
   header : Seq(Bytes), in : Seq(Flit), injected : Nat]
Host ==
  [st : {"off", "connect", "call", "poll", "recv", "up", "exit"}, session : Nat, pc : Nat,
   sent : Nat, due : Nat, buffered : Nat, ok : BOOLEAN, got : Nat, recvd : Nat, count : Nat]

TypeInv ==
  /\ sock \in [Sessions -> Socket]
  /\ daemon \in Daemon
  /\ dma \in Dma
  /\ bridge \in BridgeState
  /\ host \in Host
  /\ power \in Nat /\ emitted \in Nat

-----------------------------------------------------------------------------
(* Bytes in their places                                                   *)

\* The k bytes of stream p after the first a are those of session s after its
\* first n.
Seg(p, a, k, s, n) ==
  /\ k >= 0 /\ a + k <= Len(p)
  /\ \A i \in 1 .. k : p[a + i] = Byte(s, n + i)

\* The parts of Upstream and Downstream, by their lengths.
TxDone == FlitBytes * bridge.txCount
TxFirst == FlitBytes * bridge.lenTx[bridge.txRead + 1] - TxDone
TxSecond == FlitBytes * bridge.lenTx[Other(bridge.txRead) + 1]
RxLen == FlitBytes * bridge.lenRx[Rx.active + 1]
RxFirst == RxLen - Rx.written
RxSecond == FlitBytes * bridge.rxCount

\* The board is out of reset and has been given the buffers.
Live == daemon.st # "listen"

\* The transmit buffers are used in turn: the board reads one, and the other
\* is full, or being filled, or the board waits for the one being filled.
TxRing ==
  LET k == bridge.txRead
      a == Tx.active IN
  /\ Tx.pending # 0 => Tx.ready
  /\ Tx.ready => bridge.lenTx[a + 1] = 0
  /\ bridge.lenTx[k + 1] = 0 =>
       bridge.lenTx[Other(k) + 1] = 0 /\ a = k /\ bridge.txCount = 0
  /\ bridge.lenTx[k + 1] # 0 =>
       /\ bridge.txCount < bridge.lenTx[k + 1]
       /\ a = IF bridge.lenTx[Other(k) + 1] = 0 THEN Other(k) ELSE k

\* The receive buffers are used in turn, and at most one is with the host.
RxRing ==
  LET a == Rx.active IN
  /\ bridge.rxRead = a
  /\ bridge.lenRx[Other(a) + 1] = 0
  /\ bridge.rxWrite = IF bridge.lenRx[a + 1] = 0 THEN a ELSE Other(a)
  /\ Rx.available \in {0, RxLen}
  /\ Rx.written = 0 \/ Rx.written < RxLen
  /\ RxLen <= Len(dma.rx[a])
  /\ RxSecond <= Len(dma.rx[bridge.rxWrite])

UpBuffers ==
  LET s == daemon.conn
      j == bridge.injected IN
  /\ Tx.pending <= DMABufferSize
  /\ Seg(dma.tx[bridge.txRead], TxDone, TxFirst, s, j)
  /\ Seg(dma.tx[Other(bridge.txRead)], 0, TxSecond, s, j + TxFirst)
  /\ Seg(dma.tx[Tx.active], 0, Tx.pending, s, j + TxFirst + TxSecond)

UpSocket ==
  LET n == bridge.injected + TxFirst + TxSecond + Tx.pending IN
  /\ Seg(Conn.up, 0, Len(Conn.up), daemon.conn, n)
  /\ daemon.conn = host.session => n + Len(Conn.up) = host.sent

DownTotal ==
  host.recvd + Len(Conn.down) + RxFirst + RxSecond + FlitBytes * Len(bridge.in)

Down ==
  LET s == daemon.conn
      n == host.recvd + Len(Conn.down) IN
  /\ Seg(Conn.down, 0, Len(Conn.down), s, host.recvd)
  /\ Seg(dma.rx[Rx.active], Rx.written, RxFirst, s, n)
  /\ Seg(dma.rx[bridge.rxWrite], 0, RxSecond, s, n + RxFirst)
  /\ \A f \in 1 .. Len(bridge.in) :
       Seg(bridge.in[f], 0, FlitBytes, s, n + RxFirst + RxSecond + FlitBytes * (f - 1))
  /\ power = s => DownTotal = emitted
  /\ host.st = "connect" => DownTotal = 0


\* Sequences of bytes, put together and cut.
LEMMA SegRest ==
  ASSUME NEW p, NEW a \in Nat, NEW k \in Int, NEW s, NEW n \in Nat, NEW d \in Nat,
         d <= k, Len(p) \in Nat, Seg(p, a, k, s, n)
  PROVE  Seg(p, a + d, k - d, s, n + d) /\ Seg(p, a, d, s, n)
<1>1. a + k <= Len(p) /\ \A i \in 1 .. k : p[a + i] = Byte(s, n + i)
  BY DEF Seg
<1>2. ASSUME NEW i \in 1 .. k - d
      PROVE  p[(a + d) + i] = Byte(s, (n + d) + i)
  <2>1. d + i \in 1 .. k /\ (a + d) + i = a + (d + i) /\ (n + d) + i = n + (d + i)
    OBVIOUS
  <2>2. QED
    BY <1>1, <2>1
<1>3. \A i \in 1 .. d : p[a + i] = Byte(s, n + i)
  BY <1>1
<1>4. QED
  BY <1>1, <1>2, <1>3 DEF Seg

LEMMA SegConcat ==
  ASSUME NEW T, NEW p \in Seq(T), NEW q \in Seq(T), NEW s, NEW n \in Nat,
         Seg(p, 0, Len(p), s, n), Seg(q, 0, Len(q), s, n + Len(p))
  PROVE  /\ p \o q \in Seq(T) /\ Len(p \o q) = Len(p) + Len(q)
         /\ Seg(p \o q, 0, Len(p \o q), s, n)
<1> DEFINE r == p \o q
<1>1. /\ r \in Seq(T) /\ Len(p) \in Nat /\ Len(q) \in Nat /\ Len(r) = Len(p) + Len(q)
      /\ \A i \in 1 .. Len(p) : r[i] = p[i]
      /\ \A i \in 1 .. Len(q) : r[Len(p) + i] = q[i]
  OBVIOUS
<1> HIDE DEF r
<1>2. \A i \in 1 .. Len(p) : p[i] = Byte(s, n + i)
  BY <1>1 DEF Seg
<1>3. \A i \in 1 .. Len(q) : q[i] = Byte(s, n + Len(p) + i)
  BY <1>1 DEF Seg
<1>4. ASSUME NEW i \in 1 .. Len(r)
      PROVE  r[i] = Byte(s, n + i)
  <2>1. CASE i <= Len(p)
    BY <1>1, <1>2, <2>1
  <2>2. CASE ~ (i <= Len(p))
    <3>1. PICK j \in 1 .. Len(q) : i = Len(p) + j
      <4>1. i - Len(p) \in 1 .. Len(q) /\ i = Len(p) + (i - Len(p))
        BY <1>1, <2>2
      <4>2. QED
        BY <4>1
    <3>2. r[i] = Byte(s, n + Len(p) + j) /\ n + Len(p) + j = n + i
      BY <1>1, <1>3, <3>1
    <3>3. QED
      BY <3>2
  <2>3. QED
    BY <2>1, <2>2
<1>5. Seg(r, 0, Len(r), s, n)
  BY <1>1, <1>4 DEF Seg
<1>6. QED
  BY <1>1, <1>5 DEF r

LEMMA Piece ==
  ASSUME NEW T, NEW p \in Seq(T), NEW a \in Nat, NEW k \in Nat, a + k <= Len(p)
  PROVE  /\ SubSeq(p, a + 1, a + k) \in Seq(T) /\ Len(SubSeq(p, a + 1, a + k)) = k
         /\ \A i \in 1 .. k : SubSeq(p, a + 1, a + k)[i] = p[a + i]
<1>1. \A i \in a + 1 .. a + k : p[i] \in T
  BY ElementOfSeq
<1>2. SubSeq(p, a + 1, a + k) = [i \in 1 .. k |-> p[i + a]]
  OBVIOUS
<1>3. QED
  BY <1>1, <1>2, SubSeqProperties

LEMMA SegSub ==
  ASSUME NEW T, NEW p \in Seq(T), NEW a \in Nat, NEW k \in Nat, NEW s, NEW n \in Nat,
         Seg(p, a, k, s, n)
  PROVE  /\ SubSeq(p, a + 1, a + k) \in Seq(T) /\ Len(SubSeq(p, a + 1, a + k)) = k
         /\ Seg(SubSeq(p, a + 1, a + k), 0, k, s, n)
<1> DEFINE q == SubSeq(p, a + 1, a + k)
<1>1. a + k <= Len(p) /\ Len(p) \in Nat /\ \A i \in 1 .. k : p[a + i] = Byte(s, n + i)
  BY DEF Seg
<1>2. /\ q \in Seq(T) /\ Len(q) = k
      /\ \A i \in 1 .. k : q[i] = p[a + i]
  BY <1>1, Piece
<1> HIDE DEF q
<1>3. \A i \in 1 .. k : q[0 + i] = Byte(s, n + i)
  <2>1. SUFFICES ASSUME NEW i \in 1 .. k
                 PROVE  q[0 + i] = Byte(s, n + i)
    OBVIOUS
  <2>2. q[i] = p[a + i]
    BY <1>2
  <2>3. p[a + i] = Byte(s, n + i)
    BY <1>1
  <2>4. 0 + i = i
    OBVIOUS
  <2>5. QED
    BY <2>2, <2>3, <2>4
<1>4. k >= 0 /\ 0 + k <= Len(q)
  BY <1>2
<1>5. Seg(q, 0, k, s, n)
  BY <1>3, <1>4 DEF Seg
<1>6. QED
  BY <1>2, <1>5 DEF q

\* All of a stream.
LEMMA SegConsecutive ==
  ASSUME NEW T, NEW p \in Seq(T), NEW s, NEW n \in Nat, Seg(p, 0, Len(p), s, n)
  PROVE  Consecutive(p, s, n)
<1>1. Len(p) \in Nat /\ \A i \in 1 .. Len(p) : p[i] = Byte(s, n + i)
  BY DEF Seg
<1>2. p = [i \in 1 .. Len(p) |-> p[i]]
  OBVIOUS
<1>3. QED
  BY <1>1, <1>2 DEF Consecutive

LEMMA SegEmpty ==
  ASSUME NEW p, NEW a \in Nat, Len(p) \in Nat, a <= Len(p), NEW s, NEW n
  PROVE  Seg(p, a, 0, s, n)
BY DEF Seg

-----------------------------------------------------------------------------
(* The invariant                                                           *)

BoardInv ==
  /\ bridge.enabled = Live
  /\ Live => daemon.conn # 0 /\ TxRing /\ RxRing /\ UpBuffers
  /\ Serving => UpSocket
  /\ Serving /\ daemon.conn = host.session /\ host.st # "exit" => Down

\* Clients that wait to be accepted.
WaitingInv ==
  /\ daemon.conn <= host.session /\ host.session <= MaxSessions
  /\ daemon.conn < host.session => host.recvd = 0
  /\ \A s \in Sessions : s > daemon.conn =>
       /\ Seg(sock[s].up, 0, Len(sock[s].up), s, 0)
       /\ sock[s].down = <<>>
       /\ s = host.session => Len(sock[s].up) = host.sent
       /\ s > host.session => sock[s].up = <<>>

\* The boards are powered up for the client that is served, or for the next,
\* and then they have nothing to do yet.
PowerInv ==
  /\ power \in {0, daemon.conn, daemon.conn + 1} /\ power <= host.session
  /\ power = daemon.conn + 1 => ~ Live /\ emitted = 0
  /\ power # 0 /\ power = host.session => host.st # "connect"
  /\ power \in {0, daemon.conn + 1} => core = [c \in Cores |-> NewCore]

\* A call never writes more than its message.
HostInv ==
  /\ host.got < ReplyBytes
  /\ host.st # "exit" =>
       host.sent <= host.due + IF host.st = "call" /\ Current.op \in {"send", "trySend"}
                                 THEN MsgBytes ELSE 0
  /\ host.st = "off" <=> host.session = 0

IInv == TypeInv /\ BoardInv /\ WaitingInv /\ PowerInv /\ HostInv

-----------------------------------------------------------------------------
(* Flits                                                                   *)

LEMMA FlitShape ==
  /\ FlitBytes \in Nat \ {0} /\ DMAFlits \in Nat \ {0} /\ MaxSessions \in Nat
  /\ SocketBytes \in Nat /\ DMABufferSize \in Nat \ {0} /\ DMABufferSize = FlitBytes * DMAFlits
  /\ MsgBytes \in Nat /\ ReplyBytes \in Nat \ {0} /\ ReplyBytes = FlitBytes * MaxFlitsPerMsg
  /\ MaxFlitsPerMsg \in Nat \ {0}
BY StreamAssumption, HostAssumption DEF DMABufferSize, MsgBytes, ReplyBytes

LEMMA FlitTimes ==
  /\ FlitBytes * 0 = 0
  /\ \A x \in Nat : /\ FlitBytes * x \in Nat
                    /\ FlitBytes * (x + 1) = FlitBytes * x + FlitBytes
                    /\ FlitBytes * x = 0 => x = 0
  /\ \A x, y \in Nat : /\ FlitBytes * (x + y) = FlitBytes * x + FlitBytes * y
                       /\ x < y => FlitBytes * x + FlitBytes <= FlitBytes * y
<1>1. PICK m \in Nat \ {0} : m = FlitBytes
  BY FlitShape
<1>2. m * 0 = 0 /\ \A x \in Nat : m * x \in Nat /\ m * (x + 1) = m * x + m
  BY <1>1
<1>3. \A x, y \in Nat : m * (x + y) = m * x + m * y
  BY <1>1
<1>4. ASSUME NEW x \in Nat, NEW y \in Nat, x < y
      PROVE  m * x + m <= m * y
  <2>1. PICK d \in Nat : y = x + (d + 1)
    <3>1. y - x - 1 \in Nat /\ y = x + ((y - x - 1) + 1)
      BY <1>4
    <3>2. QED
      BY <3>1
  <2>2. m * y = m * x + (m * d + m)
    BY <1>2, <1>3, <2>1
  <2>3. QED
    BY <1>2, <2>2
<1>5. \A x \in Nat : m * x = 0 => x = 0
  BY <1>1
<1>6. QED
  BY <1>1, <1>2, <1>3, <1>4, <1>5

\* What DoSend finds in the transmit buffer is whole flits.
LEMMA WholeFlits ==
  ASSUME NEW x \in Nat, x # 0, x = DMABufferSize \/ x % FlitBytes = 0
  PROVE  /\ x \div FlitBytes \in Nat \ {0}
         /\ FlitBytes * (x \div FlitBytes) = x
<1>1. PICK m \in Nat \ {0} : m = FlitBytes
  BY FlitShape
<1>2. PICK q \in Nat, r \in 0 .. m - 1 :
        x = m * q + r /\ q = x \div m /\ r = x % m
  <2>1. x = m * (x \div m) + (x % m) /\ x \div m \in Nat /\ x % m \in 0 .. m - 1
    OBVIOUS
  <2>2. QED
    BY <2>1
<1>3. r = 0
  <2>1. CASE x = DMABufferSize
    <3>1. PICK d \in Nat : x = m * d
      BY <1>1, <2>1, FlitShape
    <3>2. m * q <= m * d /\ m * d < m * q + m
      BY <1>2, <3>1
    <3>3. ~ (q < d)
      BY <1>1, <3>2, FlitTimes
    <3>4. ~ (d < q)
      BY <1>1, <1>2, <3>1, <3>2, FlitTimes
    <3>5. QED
      BY <1>2, <3>1, <3>3, <3>4
  <2>2. CASE x % FlitBytes = 0
    BY <1>1, <1>2, <2>2
  <2>3. QED
    BY <2>1, <2>2
<1>4. x = m * q
  BY <1>2, <1>3
<1>5. q # 0
  BY <1>1, <1>4
<1>6. QED
  BY <1>1, <1>2, <1>4, <1>5

\* Flits, put together.
LEMMA FlattenFlits ==
  ASSUME NEW q \in Seq(Flit), NEW s \in Nat, NEW n \in Nat,
         \A f \in 1 .. Len(q) : Seg(q[f], 0, FlitBytes, s, n + FlitBytes * (f - 1))
  PROVE  /\ FlattenSeq(q) \in Seq(Bytes) /\ Len(FlattenSeq(q)) = FlitBytes * Len(q)
         /\ Seg(FlattenSeq(q), 0, Len(FlattenSeq(q)), s, n)
<1> DEFINE N == Len(q)
           run(k) == [j \in 1 .. FlitBytes * k |-> Byte(s, n + j)]
           w == [i \in 1 .. N |-> run(i)]
           Flattens(h) == h = [i \in 1 .. N |-> IF i = 1 THEN q[i] ELSE h[i - 1] \o q[i]]
<1>1. N \in Nat /\ FlitBytes \in Nat \ {0}
  BY FlitShape
<1>2. \A k \in Nat : /\ FlitBytes * k \in Nat /\ run(k) \in Seq(Bytes)
                     /\ Len(run(k)) = FlitBytes * k
                     /\ Seg(run(k), 0, FlitBytes * k, s, n)
  <2>1. ASSUME NEW k \in Nat
        PROVE  /\ FlitBytes * k \in Nat /\ run(k) \in Seq(Bytes)
               /\ Len(run(k)) = FlitBytes * k /\ Seg(run(k), 0, FlitBytes * k, s, n)
    <3>1. PICK m \in Nat : m = FlitBytes * k
      BY FlitTimes
    <3>2. \A j \in 1 .. m : Byte(s, n + j) \in Bytes
      BY DEF Byte, Bytes
    <3>3. [j \in 1 .. m |-> Byte(s, n + j)] \in Seq(Bytes)
      BY <3>2
    <3>4. Len([j \in 1 .. m |-> Byte(s, n + j)]) = m
      OBVIOUS
    <3>5. Seg([j \in 1 .. m |-> Byte(s, n + j)], 0, m, s, n)
      BY <3>4 DEF Seg
    <3>6. QED
      BY <3>1, <3>3, <3>4, <3>5
  <2>2. QED
    BY <2>1
<1>3. ASSUME NEW i \in 1 .. N
      PROVE  IF i = 1 THEN q[i] = run(1) ELSE run(i - 1) \o q[i] = run(i)
  <2>1. q[i] \in Seq(Bytes) /\ Len(q[i]) = FlitBytes
    BY DEF Flit
  <2>2. \A j \in 1 .. FlitBytes : q[i][j] = Byte(s, n + FlitBytes * (i - 1) + j)
    <3>1. Seg(q[i], 0, FlitBytes, s, n + FlitBytes * (i - 1))
      OBVIOUS
    <3>2. SUFFICES ASSUME NEW j \in 1 .. FlitBytes
                   PROVE  q[i][j] = Byte(s, n + FlitBytes * (i - 1) + j)
      OBVIOUS
    <3>3. 0 + j = j
      OBVIOUS
    <3>4. q[i][0 + j] = Byte(s, n + FlitBytes * (i - 1) + j)
      BY <3>1 DEF Seg
    <3>5. QED
      BY <3>3, <3>4
  <2>3. PICK k \in Nat : i = k + 1
    <3>1. i - 1 \in Nat /\ i = (i - 1) + 1
      BY <1>1
    <3>2. QED
      BY <3>1
  <2>4. PICK m \in Nat : m = FlitBytes * k
    BY FlitTimes
  <2>5. FlitBytes * i = m + FlitBytes
    BY <2>3, <2>4, FlitTimes
  <2>6. \A j \in 1 .. FlitBytes : q[i][j] = Byte(s, n + m + j)
    BY <2>2, <2>3, <2>4
  <2>7. CASE i = 1
    <3>1. m = 0
      BY <2>3, <2>4, <2>7, FlitTimes
    <3>2. FlitBytes * 1 = FlitBytes
      BY <1>1
    <3>3. q[i] = [j \in 1 .. FlitBytes |-> Byte(s, n + j)]
      <4>1. q[i] = [j \in 1 .. FlitBytes |-> q[i][j]]
        BY <2>1
      <4>2. \A j \in 1 .. FlitBytes : q[i][j] = Byte(s, n + j)
        BY <2>6, <3>1
      <4>3. QED
        BY <4>1, <4>2
    <3>4. QED
      BY <2>7, <3>2, <3>3
  <2>8. CASE i # 1
    <3>1. i - 1 = k
      BY <2>3
    <3> DEFINE r == run(k) \o q[i]
    <3>2. run(k) \in Seq(Bytes) /\ Len(run(k)) = m
          /\ \A j \in 1 .. m : run(k)[j] = Byte(s, n + j)
      BY <1>2, <2>4
    <3> HIDE DEF run
    <3>3. /\ r \in Seq(Bytes) /\ Len(r) = m + FlitBytes
          /\ \A j \in 1 .. m : r[j] = run(k)[j]
          /\ \A j \in 1 .. FlitBytes : r[m + j] = q[i][j]
      <4>1. PICK u \in Seq(Bytes) : u = run(k)
        BY <3>2
      <4>2. PICK v \in Seq(Bytes) : v = q[i]
        BY <2>1
      <4>3. /\ u \o v \in Seq(Bytes) /\ Len(u \o v) = Len(u) + Len(v)
            /\ \A j \in 1 .. Len(u) : (u \o v)[j] = u[j]
            /\ \A j \in 1 .. Len(v) : (u \o v)[Len(u) + j] = v[j]
        OBVIOUS
      <4>4. QED
        BY <2>1, <3>2, <4>1, <4>2, <4>3
    <3> HIDE DEF r
    <3>4. ASSUME NEW j \in 1 .. m + FlitBytes
          PROVE  r[j] = Byte(s, n + j)
      <4>1. CASE j <= m
        BY <3>2, <3>3, <4>1
      <4>2. CASE ~ (j <= m)
        <5>1. PICK x \in 1 .. FlitBytes : j = m + x
          <6>1. j - m \in 1 .. FlitBytes /\ j = m + (j - m)
            BY <1>1, <4>2
          <6>2. QED
            BY <6>1
        <5>2. r[j] = Byte(s, n + m + x) /\ n + m + x = n + j
          BY <2>6, <3>3, <5>1
        <5>3. QED
          BY <5>2
      <4>3. QED
        BY <4>1, <4>2
    <3>5. r = [j \in 1 .. m + FlitBytes |-> Byte(s, n + j)]
      <4>1. r = [j \in 1 .. m + FlitBytes |-> r[j]]
        BY <1>1, <3>3
      <4>2. QED
        BY <3>4, <4>1
    <3>6. r = run(i)
      BY <2>5, <3>5 DEF run
    <3>7. QED
      BY <2>8, <3>1, <3>6 DEF r
  <2>9. QED
    BY <2>7, <2>8
<1> HIDE DEF run
<1>4. CASE N = 0
  <2>1. q = <<>>
    BY <1>4
  <2>2. FlattenSeq(q) = <<>>
    BY <2>1 DEF FlattenSeq
  <2>3. <<>> \in Seq(Bytes) /\ Len(<<>>) = 0 /\ Seg(<<>>, 0, 0, s, n)
    BY SegEmpty
  <2>4. QED
    BY <1>4, <2>2, <2>3, FlitTimes
<1>5. CASE N # 0
  <2>1. Flattens(w)
    <3>1. ASSUME NEW i \in 1 .. N
          PROVE  w[i] = IF i = 1 THEN q[i] ELSE w[i - 1] \o q[i]
      <4>1. w[i] = run(i)
        OBVIOUS
      <4>2. i # 1 => w[i - 1] = run(i - 1)
        BY <1>1
      <4>3. QED
        BY <1>3, <4>1, <4>2
    <3>2. QED
      BY <3>1
  <2>2. PICK h : Flattens(h) /\ FlattenSeq(q) = h[N]
    <3>1. FlattenSeq(q) = (CHOOSE h : Flattens(h))[N]
      BY <1>5 DEF FlattenSeq
    <3>2. Flattens(CHOOSE h : Flattens(h))
      <4> HIDE DEF Flattens
      <4>1. QED
        BY <2>1
    <3>3. QED
      BY <3>1, <3>2
  <2>3. \A i \in 1 .. N : h[i] = run(i)
    <3>1. SUFFICES ASSUME NEW i0 \in 1 .. N, h[i0] # run(i0)
                   PROVE  FALSE
      OBVIOUS
    <3> DEFINE Bad == {i \in 1 .. N : h[i] # run(i)}
    <3>2. Bad \in SUBSET Nat /\ Bad # {}
      <4>1. i0 \in Bad
        BY <3>1
      <4>2. Bad \subseteq 1 .. N /\ 1 .. N \subseteq Nat
        BY <1>1
      <4>3. QED
        BY <4>1, <4>2
    <3> HIDE DEF Bad
    <3>3. PICK i \in Bad : \A j \in Bad : i <= j
      BY <3>2, LeastNumber
    <3>4. i \in 1 .. N /\ h[i] # run(i)
      BY DEF Bad
    <3>5. i # 1 => h[i - 1] = run(i - 1)
      <4>1. SUFFICES ASSUME i # 1
                     PROVE  h[i - 1] = run(i - 1)
        OBVIOUS
      <4>2. i - 1 \in 1 .. N /\ ~ (i <= i - 1)
        BY <1>1, <3>4, <4>1
      <4>3. i - 1 \notin Bad
        BY <3>3, <4>2
      <4>4. QED
        BY <4>2, <4>3 DEF Bad
    <3>6. h[i] = IF i = 1 THEN q[i] ELSE h[i - 1] \o q[i]
      BY <2>2, <3>4
    <3>7. QED
      BY <1>3, <3>4, <3>5, <3>6
  <2>4. FlattenSeq(q) = run(N)
    <3>1. N \in 1 .. N
      BY <1>1, <1>5
    <3>2. QED
      BY <2>2, <2>3, <3>1
  <2>5. QED
    BY <1>1, <1>2, <2>4
<1>6. QED
  BY <1>4, <1>5

-----------------------------------------------------------------------------
(* What the parts of the invariant are about                               *)

LEMMA RingFrame ==
  /\ TxRing /\ UNCHANGED <<daemon.tx, bridge.lenTx, bridge.txRead, bridge.txCount>> => TxRing'
  /\ RxRing /\ UNCHANGED <<daemon.rx, bridge.lenRx, bridge.rxRead, bridge.rxWrite,
                           bridge.rxCount, dma.rx>> => RxRing'
BY DEF TxRing, RxRing, Tx, Rx, RxLen, RxSecond

LEMMA UpFrame ==
  ASSUME UNCHANGED <<daemon.conn, daemon.tx, bridge.injected, bridge.lenTx, bridge.txRead,
                     bridge.txCount>>
  PROVE  /\ UpBuffers /\ UNCHANGED dma.tx => UpBuffers'
         /\ UpSocket /\ UNCHANGED <<host.session, host.sent, sock[daemon.conn].up>> => UpSocket'
BY DEF UpBuffers, UpSocket, Tx, TxDone, TxFirst, TxSecond, Conn

LEMMA DownFrame ==
  ASSUME Down,
         UNCHANGED <<daemon.conn, daemon.rx, bridge.in, bridge.lenRx, bridge.rxRead,
                     bridge.rxWrite, bridge.rxCount, dma.rx, sock[daemon.conn].down,
                     host.recvd, power, emitted>>,
         host'.st = "connect" => host.st = "connect"
  PROVE  Down'
BY DEF Down, DownTotal, Rx, RxLen, RxFirst, RxSecond, Conn

\* The numbers of the invariant.
LEMMA Numbers ==
  ASSUME TypeInv
  PROVE  /\ Tx.active \in 0 .. 1 /\ Rx.active \in 0 .. 1
         /\ bridge.txRead \in 0 .. 1 /\ bridge.rxWrite \in 0 .. 1
         /\ \A b \in 0 .. 1 : /\ Other(b) \in 0 .. 1 /\ Other(b) # b /\ Other(Other(b)) = b
                              /\ b + 1 \in 1 .. 2 /\ Other(b) + 1 \in 1 .. 2
                              /\ bridge.lenTx[b + 1] \in Nat /\ bridge.lenRx[b + 1] \in Nat
                              /\ dma.tx[b] \in Seq(Bytes) /\ dma.rx[b] \in Seq(Bytes)
                              /\ Len(dma.tx[b]) \in Nat /\ 0 <= Len(dma.tx[b])
                              /\ Len(dma.rx[b]) \in Nat /\ 0 <= Len(dma.rx[b])
         /\ Tx.pending \in Nat /\ Rx.written \in Nat /\ Rx.available \in Nat
         /\ daemon.conn \in Nat /\ host.session \in Nat /\ host.sent \in Nat
         /\ host.recvd \in Nat /\ bridge.injected \in Nat
         /\ bridge.txCount \in Nat /\ bridge.rxCount \in Nat
         /\ bridge.in \in Seq(Flit) /\ Len(bridge.in) \in Nat
         /\ TxDone \in Nat /\ TxSecond \in Nat /\ RxLen \in Nat /\ RxSecond \in Nat
         /\ TxFirst \in Int /\ RxFirst \in Int
<1>1. /\ Tx.active \in 0 .. 1 /\ Rx.active \in 0 .. 1
      /\ Tx.pending \in Nat /\ Rx.written \in Nat /\ Rx.available \in Nat
      /\ daemon.conn \in Nat
  BY DEF TypeInv, Daemon, TxState, RxState, Tx, Rx
<1>2. /\ bridge.txRead \in 0 .. 1 /\ bridge.rxWrite \in 0 .. 1
      /\ bridge.injected \in Nat /\ bridge.txCount \in Nat /\ bridge.rxCount \in Nat
      /\ bridge.in \in Seq(Flit) /\ Len(bridge.in) \in Nat
      /\ bridge.lenTx \in [1 .. 2 -> Nat] /\ bridge.lenRx \in [1 .. 2 -> Nat]
  BY DEF TypeInv, BridgeState
<1>3. host.session \in Nat /\ host.sent \in Nat /\ host.recvd \in Nat
  BY DEF TypeInv, Host
<1>4. \A b \in 0 .. 1 : /\ Other(b) \in 0 .. 1 /\ Other(b) # b /\ Other(Other(b)) = b
                        /\ b + 1 \in 1 .. 2 /\ Other(b) + 1 \in 1 .. 2
  BY DEF Other
<1>5. \A b \in 0 .. 1 : /\ bridge.lenTx[b + 1] \in Nat /\ bridge.lenRx[b + 1] \in Nat
  BY <1>2, <1>4
<1>6. \A b \in 0 .. 1 : /\ dma.tx[b] \in Seq(Bytes) /\ dma.rx[b] \in Seq(Bytes)
                        /\ Len(dma.tx[b]) \in Nat /\ 0 <= Len(dma.tx[b])
                        /\ Len(dma.rx[b]) \in Nat /\ 0 <= Len(dma.rx[b])
  <2>1. \A b \in 0 .. 1 : dma.tx[b] \in Seq(Bytes) /\ dma.rx[b] \in Seq(Bytes)
    BY DEF TypeInv, Dma
  <2>2. \A p \in Seq(Bytes) : Len(p) \in Nat
    OBVIOUS
  <2>3. \A x \in Nat : 0 <= x
    OBVIOUS
  <2>4. QED
    BY <2>1, <2>2, <2>3
<1>7. TxDone \in Nat /\ TxSecond \in Nat /\ RxLen \in Nat /\ RxSecond \in Nat
  BY <1>1, <1>2, <1>4, <1>5, FlitTimes DEF TxDone, TxSecond, RxLen, RxSecond
<1>8. TxFirst \in Int
  <2>1. FlitBytes * bridge.lenTx[bridge.txRead + 1] \in Nat
    BY <1>2, <1>5, FlitTimes
  <2>2. QED
    BY <1>7, <2>1 DEF TxFirst
<1>9. RxFirst \in Int
  BY <1>1, <1>7 DEF RxFirst
<1>10. QED
  BY <1>1, <1>2, <1>3, <1>4, <1>5, <1>6, <1>7, <1>8, <1>9

\* A session that is served has a socket.
LEMMA ServedSession ==
  ASSUME IInv, Live
  PROVE  daemon.conn \in Sessions /\ Conn \in Socket
<1>1. daemon.conn \in Nat \ {0} /\ daemon.conn <= host.session /\ host.session <= MaxSessions
      /\ host.session \in Nat
  BY Numbers DEF IInv, BoardInv, WaitingInv
<1>2. daemon.conn \in Sessions
  BY <1>1, FlitShape DEF Sessions
<1>3. QED
  BY <1>2 DEF IInv, TypeInv, Conn

LEMMA Amounts ==
  ASSUME IInv, Live
  PROVE  /\ TxFirst \in Nat /\ RxFirst \in Nat
         /\ bridge.injected + TxFirst + TxSecond + Tx.pending \in Nat
<1>1. TxFirst \in Int /\ TxFirst >= 0
  BY Numbers DEF IInv, BoardInv, UpBuffers, Seg
<1>2. TxFirst \in Nat
  BY <1>1
<1>3. RxLen \in Nat /\ Rx.written \in Nat /\ (Rx.written = 0 \/ Rx.written < RxLen)
  BY Numbers DEF IInv, BoardInv, RxRing
<1>4. RxFirst \in Nat
  BY <1>3 DEF RxFirst
<1>5. bridge.injected \in Nat /\ TxSecond \in Nat /\ Tx.pending \in Nat
  BY Numbers DEF IInv
<1>6. QED
  BY <1>2, <1>4, <1>5

-----------------------------------------------------------------------------
(* The initial states                                                      *)

LEMMA OldBuffersType ==
  /\ OldBuffers \in Dma
  /\ \A b \in 0 .. 1 : Len(OldBuffers.tx[b]) = DMABufferSize /\ Len(OldBuffers.rx[b]) = DMABufferSize
<1> DEFINE junk == [i \in 1 .. DMABufferSize |-> Byte(0, 0)]
<1>1. Byte(0, 0) \in Bytes
  BY DEF Byte, Bytes
<1>2. DMABufferSize \in Nat
  BY FlitShape
<1>3. junk \in Seq(Bytes) /\ Len(junk) = DMABufferSize
  BY <1>1, <1>2
<1>4. OldBuffers = [tx |-> [b \in 0 .. 1 |-> junk], rx |-> [b \in 0 .. 1 |-> junk]]
  BY DEF OldBuffers
<1> HIDE DEF junk
<1>5. QED
  BY <1>3, <1>4 DEF Dma

LEMMA NewBridgeType == NewBridge \in BridgeState
<1>1. <<0, 0>> \in [1 .. 2 -> Nat]
  OBVIOUS
<1>2. <<>> \in Seq(Bytes) /\ <<>> \in Seq(Flit)
  OBVIOUS
<1>3. QED
  BY <1>1, <1>2 DEF NewBridge, BridgeState

LEMMA InitInductive == Init => IInv
<1> SUFFICES ASSUME Init
             PROVE  IInv
  OBVIOUS
<1> USE DEF Init, StreamInit, Off
<1>1. TypeInv
  <2>1. NewSocket \in Socket
    BY DEF NewSocket, Socket
  <2>2. sock \in [Sessions -> Socket]
    BY <2>1
  <2>3. daemon \in Daemon
    BY DEF Daemon, NewTx, NewRx, TxState, RxState
  <2>4. host \in Host
    BY DEF Host, NewHost
  <2>5. QED
    BY <2>2, <2>3, <2>4, OldBuffersType, NewBridgeType DEF TypeInv
<1>2. BoardInv
  BY DEF BoardInv, Live, Serving, NewBridge
<1>3. WaitingInv
  <2>1. \A s \in Sessions : sock[s].up = <<>> /\ sock[s].down = <<>> /\ s # 0
    BY FlitShape DEF NewSocket, Sessions
  <2>2. \A s \in Sessions : Seg(sock[s].up, 0, Len(sock[s].up), s, 0)
    BY <2>1, SegEmpty
  <2>3. host.session = 0 /\ host.sent = 0 /\ host.recvd = 0 /\ daemon.conn = 0
    BY DEF NewHost
  <2>4. QED
    BY <2>1, <2>2, <2>3, FlitShape DEF WaitingInv
<1>4. PowerInv
  BY DEF PowerInv, Live, NewHost
<1>5. HostInv
  <2>1. ~ (host.st = "call") /\ host.sent = 0 /\ host.due = 0 /\ host.got = 0 /\ host.st = "off"
        /\ host.session = 0
    BY DEF NewHost
  <2>2. QED
    BY <2>1, FlitShape DEF HostInv
<1>6. QED
  BY <1>1, <1>2, <1>3, <1>4, <1>5 DEF IInv

-----------------------------------------------------------------------------
(* Steps of the host program                                               *)

\* A step that moves no byte, and changes neither the session nor the power.
LEMMA NoByteMoves ==
  ASSUME IInv, TypeInv', HostInv',
         UNCHANGED <<streamVars, power, core, emitted, host.session, host.sent, host.recvd>>,
         host'.st = "connect" => host.st = "connect",
         host.st = "exit" => host'.st = "exit"
  PROVE  IInv'
<1>1. UNCHANGED <<sock, daemon, dma, bridge>>
  BY DEF streamVars
<1>2. BoardInv'
  <2>1. bridge'.enabled = Live' /\ (Live' => daemon'.conn # 0 /\ TxRing' /\ RxRing' /\ UpBuffers')
    BY <1>1, RingFrame, UpFrame DEF IInv, BoardInv, Live
  <2>2. Serving' => UpSocket'
    BY <1>1, UpFrame DEF IInv, BoardInv, Serving
  <2>3. Serving' /\ daemon'.conn = host'.session /\ host'.st # "exit" => Down'
    BY <1>1, DownFrame DEF IInv, BoardInv, Serving
  <2>4. QED
    BY <2>1, <2>2, <2>3 DEF BoardInv
<1>3. WaitingInv'
  BY <1>1 DEF IInv, WaitingInv
<1>4. PowerInv'
  BY <1>1 DEF IInv, PowerInv, Live
<1>5. QED
  BY <1>2, <1>3, <1>4 DEF IInv

LEMMA CallTypes ==
  ASSUME IInv
  PROVE  /\ host \in Host /\ power \in Nat /\ emitted \in Nat
         /\ host.got \in Nat /\ host.sent \in Nat /\ host.due \in Nat /\ host.recvd \in Nat
         /\ host.session \in Nat /\ host.pc \in Nat /\ host.count \in Nat
         /\ host.buffered \in Nat /\ host.ok \in BOOLEAN
         /\ ReplyBytes \in Nat /\ MsgBytes \in Nat
         /\ host.got < ReplyBytes
         /\ host.st \notin {"exit", "call"} => host.sent <= host.due
         /\ host.st = "call" =>
              host.sent <= host.due + IF Current.op \in {"send", "trySend"} THEN MsgBytes ELSE 0
<1>1. host \in Host /\ power \in Nat /\ emitted \in Nat
  BY DEF IInv, TypeInv
<1>2. host.got \in Nat /\ host.sent \in Nat /\ host.due \in Nat /\ host.recvd \in Nat
      /\ host.session \in Nat /\ host.pc \in Nat /\ host.count \in Nat
      /\ host.buffered \in Nat /\ host.ok \in BOOLEAN
  BY <1>1 DEF Host
<1>3. QED
  BY <1>1, <1>2, FlitShape DEF IInv, HostInv

\* Calls that write and take nothing.
LEMMA HostThinks ==
  ASSUME IInv, TryFails \/ BufferMessage \/ FlushReturns \/ Poll \/ TakeNext \/ Go
  PROVE  IInv'
<1>1. UNCHANGED <<streamVars, power, core, emitted>>
  BY DEF TryFails, BufferMessage, FlushReturns, Poll, TakeNext, Go, coreVars
<1>2. host.st \in {"call", "poll"} /\ host.session # 0
  BY DEF TryFails, BufferMessage, FlushReturns, Poll, TakeNext, Go, At, IInv, HostInv
<1>3. /\ host' \in Host
      /\ UNCHANGED <<host.session, host.sent, host.recvd, host.got>>
      /\ host'.st \in {"call", "poll", "recv", "up"}
      /\ host'.sent <= host'.due
  <2>1. CASE TryFails
    <3>1. host' = [host EXCEPT !.st = "poll", !.ok = FALSE] /\ host.sent = host.due
      BY <2>1 DEF TryFails
    <3>2. host.sent <= host.due
      BY <3>1, CallTypes
    <3>3. host \in Host
      BY CallTypes
    <3>4. QED
      BY <3>1, <3>2, <3>3 DEF Host
  <2>2. CASE BufferMessage
    <3>1. /\ host' = [host EXCEPT !.buffered = @ + 2, !.due = @ + MsgBytes, !.pc = @ + 1]
          /\ host.st = "call" /\ Current.op = "buffer"
      BY <2>2 DEF BufferMessage, At
    <3>2. /\ host.sent <= host.due + MsgBytes
          /\ host.buffered + 2 \in Nat /\ host.due + MsgBytes \in Nat /\ host.pc + 1 \in Nat
      BY <3>1, CallTypes
    <3>3. host \in Host
      BY CallTypes
    <3>4. PICK b \in Nat, d \in Nat, q \in Nat :
            /\ host' = [host EXCEPT !.buffered = b, !.due = d, !.pc = q]
            /\ host.sent <= d
      BY <3>1, <3>2
    <3>5. QED
      BY <3>1, <3>3, <3>4 DEF Host
  <2>3. CASE FlushReturns
    BY <2>3, CallTypes DEF FlushReturns, At, Host
  <2>4. CASE Poll
    <3>1. host.sent <= host.due
      BY <2>4, CallTypes DEF Poll
    <3>2. QED
      <4>1. host \in Host /\ host.pc \in Nat /\ host.pc + 1 \in Nat
        BY CallTypes
      <4>2. PICK t \in {"recv", "call"}, q \in Nat : host' = [host EXCEPT !.st = t, !.pc = q]
        <5>1. CASE Link.down # <<>>
          <6>1. host' = [host EXCEPT !.st = "recv", !.pc = host.pc]
            BY <2>4, <4>1, <5>1 DEF Poll, Host
          <6>2. QED
            BY <4>1, <6>1
        <5>2. CASE ~ (Link.down # <<>>)
          <6>1. host' = [host EXCEPT !.st = "call", !.pc = IF host.ok THEN @ + 1 ELSE @]
            BY <2>4, <5>2 DEF Poll, AfterPoll
          <6>2. (IF host.ok THEN host.pc + 1 ELSE host.pc) \in Nat
            BY <4>1
          <6>3. QED
            BY <6>1, <6>2
        <5>3. QED
          BY <5>1, <5>2
      <4>3. QED
        BY <3>1, <4>1, <4>2 DEF Host
  <2>5. CASE TakeNext
    <3>1. /\ \/ host' = [host EXCEPT !.st = "recv"]
             \/ host' = [host EXCEPT !.count = 0, !.pc = @ + 1]
          /\ host.st = "call" /\ Current.op = "take"
      BY <2>5 DEF TakeNext, At
    <3>2. host.sent <= host.due
      BY <3>1, CallTypes
    <3>3. host \in Host /\ host.pc + 1 \in Nat
      BY CallTypes
    <3>4. CASE host' = [host EXCEPT !.st = "recv"]
      BY <3>2, <3>3, <3>4 DEF Host
    <3>5. CASE host' = [host EXCEPT !.count = 0, !.pc = @ + 1]
      <4>1. PICK q \in Nat : host' = [host EXCEPT !.count = 0, !.pc = q]
        BY <3>3, <3>5
      <4>2. QED
        BY <3>1, <3>2, <3>3, <4>1 DEF Host
    <3>6. QED
      BY <3>1, <3>4, <3>5
  <2>6. CASE Go
    BY <2>6, CallTypes DEF Go, At, Host
  <2>7. QED
    BY <2>1, <2>2, <2>3, <2>4, <2>5, <2>6
<1>4. TypeInv'
  BY <1>1, <1>3 DEF IInv, TypeInv, streamVars
<1>5. HostInv'
  <2>1. host'.due \in Nat /\ host'.sent \in Nat /\ MsgBytes \in Nat
    BY <1>3, FlitShape DEF Host
  <2>2. host'.sent <= host'.due + IF host'.st = "call" /\ Current'.op \in {"send", "trySend"}
                                    THEN MsgBytes ELSE 0
    BY <1>3, <2>1
  <2>3. host'.got < ReplyBytes
    BY <1>3, CallTypes
  <2>4. QED
    BY <1>2, <1>3, <2>2, <2>3 DEF HostInv
<1>6. QED
  BY <1>1, <1>2, <1>3, <1>4, <1>5, NoByteMoves

\* The constructor connects.
LEMMA HostConnects ==
  ASSUME IInv, Connect
  PROVE  IInv'
<1>1. UNCHANGED <<daemon, dma, bridge, power, core, emitted>>
  BY DEF Connect, coreVars
<1>2. PICK s \in Sessions : s = host.session + 1
  <2>1. host.session \in Nat /\ host.session < MaxSessions
    BY CallTypes DEF Connect
  <2>2. QED
    BY <2>1, FlitShape DEF Sessions
<1>3. /\ host'.session = s /\ host'.st = "connect" /\ host'.sent = 0 /\ host'.due = 0
      /\ host'.got = 0 /\ host'.recvd = 0 /\ host' \in Host
  <2>1. host' = [NewHost EXCEPT !.st = "connect", !.session = s] /\ s \in Nat
    BY <1>2, CallTypes DEF Connect
  <2>2. NewHost \in Host
    BY DEF NewHost, Host
  <2>3. NewHost.sent = 0 /\ NewHost.due = 0 /\ NewHost.got = 0 /\ NewHost.recvd = 0
    BY DEF NewHost
  <2>4. QED
    BY <2>1, <2>2, <2>3 DEF Host
<1>4. daemon.conn \in Nat /\ daemon.conn <= host.session /\ host.session \in Nat
      /\ daemon.conn < s /\ host.session < s /\ s <= MaxSessions
  <2>1. daemon.conn \in Nat /\ host.session \in Nat /\ daemon.conn <= host.session
    BY Numbers DEF IInv, WaitingInv
  <2>2. MaxSessions \in Nat /\ s \in 1 .. MaxSessions
    BY FlitShape DEF Sessions
  <2>3. QED
    BY <1>2, <2>1, <2>2
<1>5. sock \in [Sessions -> Socket] /\ sock' = [sock EXCEPT ![s].client = TRUE]
  BY <1>2 DEF Connect, IInv, TypeInv
<1>6. \A r \in Sessions : sock'[r] \in Socket /\ sock'[r].up = sock[r].up
                          /\ sock'[r].down = sock[r].down
  BY <1>5 DEF Socket
<1>7. TypeInv'
  <2>1. sock' \in [Sessions -> Socket]
    BY <1>5, <1>6
  <2>2. QED
    BY <1>1, <1>3, <2>1 DEF IInv, TypeInv
<1>8. BoardInv'
  <2>1. bridge'.enabled = Live' /\ (Live' => daemon'.conn # 0 /\ TxRing' /\ RxRing' /\ UpBuffers')
    BY <1>1, RingFrame, UpFrame DEF IInv, BoardInv, Live
  <2>2. Serving' => UpSocket'
    <3>1. SUFFICES ASSUME Serving
                   PROVE  UpSocket'
      BY <1>1 DEF Serving
    <3>2. daemon.conn \in Sessions
      BY <3>1, ServedSession DEF Live, Serving
    <3>3. UpSocket /\ sock'[daemon.conn].up = sock[daemon.conn].up
      BY <1>6, <3>1, <3>2 DEF IInv, BoardInv
    <3>4. daemon.conn # s
      BY <1>4
    <3>5. QED
      BY <1>1, <1>3, <3>3, <3>4 DEF UpSocket, Tx, TxDone, TxFirst, TxSecond, Conn
  <2>3. ~ (daemon'.conn = host'.session)
    BY <1>1, <1>3, <1>4
  <2>4. QED
    BY <2>1, <2>2, <2>3 DEF BoardInv
<1>9. WaitingInv'
  <2>1. ASSUME NEW r \in Sessions, r > daemon.conn
        PROVE  /\ Seg(sock'[r].up, 0, Len(sock'[r].up), r, 0)
               /\ sock'[r].down = <<>>
               /\ r = s => Len(sock'[r].up) = 0
               /\ r > s => sock'[r].up = <<>>
    <3>1. /\ Seg(sock[r].up, 0, Len(sock[r].up), r, 0) /\ sock[r].down = <<>>
          /\ r > host.session => sock[r].up = <<>>
      BY <2>1 DEF IInv, WaitingInv
    <3>2. r \in Int /\ (r = s \/ r > s => r > host.session)
      BY <1>4 DEF Sessions
    <3>3. QED
      BY <1>6, <3>1, <3>2
  <2>2. daemon.conn <= s
    BY <1>2, <1>4 DEF Sessions
  <2>3. QED
    BY <1>1, <1>3, <1>4, <2>1, <2>2 DEF WaitingInv
<1>10. PowerInv'
  <2>0. power \in Nat /\ power <= host.session
    BY CallTypes DEF IInv, PowerInv
  <2>1. power \in Nat /\ power <= host.session /\ power # s
    BY <1>2, <1>4, <2>0
  <2>2. power <= s
    BY <1>2, <1>4, <2>1
  <2>3. QED
    BY <1>1, <1>3, <2>1, <2>2 DEF IInv, PowerInv, Live
<1>11. HostInv'
  BY <1>3, <1>4, FlitShape DEF HostInv
<1>12. QED
  BY <1>7, <1>8, <1>9, <1>10, <1>11 DEF IInv

\* The process ends.
LEMMA HostGone ==
  ASSUME IInv, Gone, host.st # "off"
  PROVE  IInv'
<1> DEFINE s == host.session
<1>1. UNCHANGED <<daemon, dma, bridge, power, core, emitted>>
  BY DEF Gone, coreVars
<1>2. s \in Sessions
  <2>1. s \in Nat /\ s # 0 /\ s <= MaxSessions
    BY CallTypes DEF IInv, HostInv, WaitingInv
  <2>2. QED
    BY <2>1, FlitShape DEF Sessions
<1>3. host' \in Host /\ host'.st = "exit" /\ UNCHANGED <<host.session, host.sent, host.recvd, host.got>>
  BY CallTypes DEF Gone, Host
<1>4. \A r \in Sessions : /\ sock'[r] \in Socket /\ sock'[r].up = sock[r].up
                          /\ sock'[r].down \in {sock[r].down, <<>>}
  <2>1. sock \in [Sessions -> Socket]
        /\ sock' = [sock EXCEPT ![s].client = FALSE, ![s].down = <<>>]
    BY DEF Gone, IInv, TypeInv
  <2>2. <<>> \in Seq(Bytes)
    OBVIOUS
  <2>3. \A r \in Sessions : sock'[r] = IF r = s THEN [sock[r] EXCEPT !.client = FALSE, !.down = <<>>]
                                        ELSE sock[r]
    BY <2>1
  <2>4. ASSUME NEW r \in Sessions
        PROVE  /\ sock'[r] \in Socket /\ sock'[r].up = sock[r].up
               /\ sock'[r].down \in {sock[r].down, <<>>}
    <3>1. sock[r] \in Socket
      BY <2>1
    <3>2. [sock[r] EXCEPT !.client = FALSE, !.down = <<>>] \in Socket
      BY <2>2, <3>1 DEF Socket
    <3>3. QED
      BY <2>3, <3>1, <3>2 DEF Socket
  <2>5. QED
    BY <2>4
<1>5. sock' \in [Sessions -> Socket]
  <2>1. sock' = [sock EXCEPT ![s].client = FALSE, ![s].down = <<>>]
        /\ sock \in [Sessions -> Socket]
    BY DEF Gone, IInv, TypeInv
  <2>2. QED
    BY <1>4, <2>1
<1>6. TypeInv'
  BY <1>1, <1>3, <1>5 DEF IInv, TypeInv
<1>7. BoardInv'
  <2>1. bridge'.enabled = Live' /\ (Live' => daemon'.conn # 0 /\ TxRing' /\ RxRing' /\ UpBuffers')
    BY <1>1, RingFrame, UpFrame DEF IInv, BoardInv, Live
  <2>2. Serving' => UpSocket'
    <3>1. SUFFICES ASSUME Serving
                   PROVE  UpSocket'
      BY <1>1 DEF Serving
    <3>2. daemon.conn \in Sessions
      BY <3>1, ServedSession DEF Live, Serving
    <3>3. UpSocket /\ sock'[daemon.conn].up = sock[daemon.conn].up
      BY <1>4, <3>1, <3>2 DEF IInv, BoardInv
    <3>4. QED
      BY <1>1, <1>3, <3>3, UpFrame
  <2>3. QED
    BY <1>3, <2>1, <2>2 DEF BoardInv
<1>8. WaitingInv'
  BY <1>1, <1>3, <1>4 DEF IInv, WaitingInv
<1>9. PowerInv'
  BY <1>1, <1>3 DEF IInv, PowerInv, Live
<1>10. HostInv'
  BY <1>3 DEF IInv, HostInv
<1>11. QED
  BY <1>6, <1>7, <1>8, <1>9, <1>10 DEF IInv

LEMMA HostEnds ==
  ASSUME IInv, TimeOut \/ Kill
  PROVE  IInv'
<1>1. Gone /\ host.st # "off"
  BY DEF TimeOut, Kill
<1>2. QED
  BY <1>1, HostGone

\* The boards have been powered up: no reply of them is on its way.
LEMMA HostPowered ==
  ASSUME IInv, BoardsReady
  PROVE  IInv'
<1>1. UNCHANGED <<sock, daemon, dma, bridge, core>> /\ power = 0 /\ power' = host.session
      /\ emitted' = 0 /\ host.st = "connect"
  BY DEF BoardsReady, PowerUp, streamVars
<1>2. daemon.conn = host.session \/ (daemon.conn = host.session - 1 /\ ~ Live)
  BY DEF BoardsReady, Live
<1>3. host' \in Host /\ host'.st = "call"
      /\ UNCHANGED <<host.session, host.sent, host.due, host.recvd, host.got>>
  BY CallTypes DEF BoardsReady, Host
<1>4. host.session \in Nat \ {0} /\ daemon.conn \in Nat
  BY <1>1, CallTypes, Numbers DEF IInv, HostInv
<1>5. TypeInv'
  BY <1>1, <1>3, <1>4 DEF IInv, TypeInv
<1>6. BoardInv'
  <2>1. bridge'.enabled = Live' /\ (Live' => daemon'.conn # 0 /\ TxRing' /\ RxRing' /\ UpBuffers')
    BY <1>1, RingFrame, UpFrame DEF IInv, BoardInv, Live
  <2>2. Serving' => UpSocket'
    BY <1>1, <1>3, UpFrame DEF IInv, BoardInv, Serving
  <2>3. ASSUME Serving, daemon.conn = host.session
        PROVE  Down'
    <3>1. Down
      BY <1>1, <2>3 DEF IInv, BoardInv
    <3>2. DownTotal = 0
      BY <1>1, <3>1 DEF Down
    <3>3. DownTotal' = DownTotal
      BY <1>1, <1>3 DEF DownTotal, Rx, RxLen, RxFirst, RxSecond, Conn
    <3>4. /\ Seg(Conn.down, 0, Len(Conn.down), daemon.conn, host.recvd)'
          /\ Seg(dma.rx[Rx.active], Rx.written, RxFirst, daemon.conn,
                 host.recvd + Len(Conn.down))'
          /\ Seg(dma.rx[bridge.rxWrite], 0, RxSecond, daemon.conn,
                 host.recvd + Len(Conn.down) + RxFirst)'
          /\ \A f \in 1 .. Len(bridge'.in) :
               Seg(bridge'.in[f], 0, FlitBytes, daemon'.conn,
                   host'.recvd + Len(Conn'.down) + RxFirst' + RxSecond' + FlitBytes * (f - 1))
      BY <1>1, <1>3, <3>1 DEF Down, Rx, RxLen, RxFirst, RxSecond, Conn
    <3>5. QED
      BY <1>1, <1>3, <3>2, <3>3, <3>4 DEF Down
  <2>4. QED
    BY <1>1, <1>3, <2>1, <2>2, <2>3 DEF BoardInv, Serving
<1>7. WaitingInv'
  BY <1>1, <1>3 DEF IInv, WaitingInv
<1>8. PowerInv'
  <2>1. host.session = daemon.conn + 1 \/ host.session = daemon.conn
    BY <1>2, <1>4
  <2>2. host.session = daemon.conn + 1 => ~ Live
    BY <1>2, <1>4
  <2>3. core = [c \in Cores |-> NewCore]
    BY <1>1 DEF IInv, PowerInv
  <2>4. QED
    BY <1>1, <1>3, <1>4, <2>1, <2>2, <2>3 DEF PowerInv, Live
<1>9. HostInv'
  <2>1. host.sent <= host.due
    BY <1>1, CallTypes
  <2>2. QED
    BY <1>3, <1>4, <2>1, CallTypes DEF HostInv
<1>10. QED
  BY <1>5, <1>6, <1>7, <1>8, <1>9 DEF IInv

\* What a call writes.
LEMMA Run ==
  ASSUME NEW s \in Nat, NEW n \in Nat, NEW k \in Nat
  PROVE  LET q == [i \in 1 .. k |-> Byte(s, n + i)] IN
         q \in Seq(Bytes) /\ Len(q) = k /\ Seg(q, 0, Len(q), s, n)
<1> DEFINE q == [i \in 1 .. k |-> Byte(s, n + i)]
<1>1. \A i \in 1 .. k : Byte(s, n + i) \in Bytes
  BY DEF Byte, Bytes
<1>2. q \in Seq(Bytes) /\ Len(q) = k
  BY <1>1
<1>3. \A i \in 1 .. k : q[0 + i] = Byte(s, n + i)
  OBVIOUS
<1>4. Seg(q, 0, Len(q), s, n)
  BY <1>2, <1>3 DEF Seg
<1>5. QED
  BY <1>2, <1>4

LEMMA WriteTarget ==
  ASSUME IInv, Writing
  PROVE  /\ host.st = "call" /\ host.session \in Sessions
         /\ Target \in Nat /\ host.sent <= Target
         /\ Target = host.due + IF Current.op \in {"send", "trySend"} THEN MsgBytes ELSE 0
<1>1. host.st = "call"
  BY DEF Writing, At
<1>2. host.session \in Nat /\ host.session # 0 /\ host.session <= MaxSessions
  BY <1>1, CallTypes DEF IInv, HostInv, WaitingInv
<1>3. host.session \in Sessions
  BY <1>2, FlitShape DEF Sessions
<1>4. Target = host.due + IF Current.op \in {"send", "trySend"} THEN MsgBytes ELSE 0
  BY CallTypes DEF Target
<1>5. Target \in Nat /\ host.sent <= Target
  BY <1>1, <1>4, CallTypes
<1>6. QED
  BY <1>1, <1>3, <1>4, <1>5

\* The host's side of a write.
LEMMA WriteHost ==
  ASSUME IInv, Write
  PROVE  \E n \in Nat :
           /\ sock' = [sock EXCEPT ![host.session].up =
                         @ \o [i \in 1 .. n |-> Byte(host.session, host.sent + i)]]
           /\ host' \in Host /\ host'.sent = host.sent + n
           /\ UNCHANGED <<host.session, host.recvd, host.got>>
           /\ host'.st \in {"call", "poll"}
           /\ host'.sent <= host'.due + IF host'.st = "call" /\ Current'.op \in {"send", "trySend"}
                                         THEN MsgBytes ELSE 0
<1> DEFINE n == MinOf(Target - host.sent, Room(Link.up))
           h == [host EXCEPT !.sent = @ + n]
<1>1. Writing /\ Room(Link.up) > 0
  BY DEF Write
<1>2. /\ sock' = [sock EXCEPT ![host.session].up =
                    @ \o [i \in 1 .. n |-> Byte(host.session, host.sent + i)]]
      /\ host' = IF h.sent = Target THEN Written(h) ELSE h
  BY DEF Write
<1>3. Link.up \in Seq(Bytes)
  BY <1>1, WriteTarget DEF Link, IInv, TypeInv, Socket
<1>4. n \in Nat /\ n <= Target - host.sent
  <2>1. Len(Link.up) \in Nat
    BY <1>3
  <2>2. Room(Link.up) \in Nat
    BY <1>1, <2>1, FlitShape DEF Room
  <2>3. Target - host.sent \in Nat
    BY <1>1, WriteTarget, CallTypes
  <2>4. QED
    BY <2>2, <2>3 DEF MinOf
<1> HIDE DEF n
<1>5. PICK t \in Nat : t = host.sent + n /\ t <= Target
  <2>1. host.sent + n \in Nat /\ host.sent + n <= Target
    BY <1>1, <1>4, WriteTarget, CallTypes
  <2>2. QED
    BY <2>1
<1>6. host \in Host /\ host.pc \in Nat /\ host.due \in Nat /\ Target \in Nat /\ host.st = "call"
  BY <1>1, WriteTarget, CallTypes
<1>7. h = [host EXCEPT !.sent = t] /\ h \in Host /\ h.sent = t
  BY <1>5, <1>6 DEF Host
<1>8. CASE h.sent # Target
  <2>1. host' = [host EXCEPT !.sent = t]
    BY <1>2, <1>7, <1>8
  <2>2. host' \in Host /\ host'.st = "call" /\ host'.sent = t
        /\ UNCHANGED <<host.session, host.recvd, host.got, host.due, host.pc>>
    BY <1>6, <2>1 DEF Host
  <2>3. Current' = Current
    BY <2>2 DEF Current
  <2>4. t <= host.due + IF Current.op \in {"send", "trySend"} THEN MsgBytes ELSE 0
    BY <1>1, <1>5, WriteTarget
  <2>5. host'.sent <= host'.due + IF host'.st = "call" /\ Current'.op \in {"send", "trySend"}
                                    THEN MsgBytes ELSE 0
    BY <2>2, <2>3, <2>4
  <2>6. QED
    BY <1>2, <1>4, <1>5, <2>2, <2>5
<1>9. CASE h.sent = Target
  <2>1. host' = Written(h) /\ t = Target
    BY <1>2, <1>7, <1>9
  <2>2. PICK d \in Nat, q \in Nat, x \in {"call", "poll"}, o \in BOOLEAN, b \in Nat :
          host' = [host EXCEPT !.sent = t, !.due = d, !.pc = q, !.st = x, !.ok = o, !.buffered = b]
          /\ d = t
    <3>1. host.pc + 1 \in Nat /\ host.ok \in BOOLEAN /\ host.buffered \in Nat
      BY CallTypes
    <3>2. CASE Current.op = "send"
      <4>1. host' = [h EXCEPT !.due = Target, !.pc = @ + 1]
        BY <2>1, <3>2 DEF Written
      <4>2. host' = [host EXCEPT !.sent = t, !.due = Target, !.pc = host.pc + 1, !.st = "call",
                                 !.ok = host.ok, !.buffered = host.buffered]
        BY <1>6, <1>7, <4>1 DEF Host
      <4>3. QED
        BY <1>6, <2>1, <3>1, <4>2
    <3>3. CASE Current.op = "trySend"
      <4>1. host' = [h EXCEPT !.due = Target, !.st = "poll", !.ok = TRUE]
        BY <2>1, <3>3 DEF Written
      <4>2. host' = [host EXCEPT !.sent = t, !.due = Target, !.pc = host.pc, !.st = "poll",
                                 !.ok = TRUE, !.buffered = host.buffered]
        BY <1>6, <1>7, <4>1 DEF Host
      <4>3. QED
        BY <1>6, <2>1, <3>1, <4>2
    <3>4. CASE Current.op \notin {"send", "trySend"}
      <4>1. host' = [h EXCEPT !.buffered = 0]
        BY <2>1, <3>4 DEF Written
      <4>2. host' = [host EXCEPT !.sent = t, !.due = host.due, !.pc = host.pc, !.st = "call",
                                 !.ok = host.ok, !.buffered = 0]
        BY <1>6, <1>7, <4>1 DEF Host
      <4>3. host.due = t
        BY <1>6, <2>1, <3>4 DEF Target
      <4>4. QED
        BY <1>6, <3>1, <4>2, <4>3
    <3>5. QED
      BY <3>2, <3>3, <3>4
  <2>3. host' \in Host /\ host'.st \in {"call", "poll"} /\ host'.sent = t /\ host'.due = t
        /\ UNCHANGED <<host.session, host.recvd, host.got>>
    BY <1>6, <2>2 DEF Host
  <2>4. host'.sent <= host'.due + IF host'.st = "call" /\ Current'.op \in {"send", "trySend"}
                                    THEN MsgBytes ELSE 0
    BY <2>3, FlitShape
  <2>5. QED
    BY <1>2, <1>4, <1>5, <2>3, <2>4
<1>10. QED
  BY <1>8, <1>9

\* socketBlockingPut and socketPut: the stream of the session goes on.
LEMMA HostWrites ==
  ASSUME IInv, Write
  PROVE  IInv'
<1> DEFINE s == host.session
<1>1. Writing /\ UNCHANGED <<daemon, dma, bridge, power, core, emitted>>
  BY DEF Write, coreVars
<1>2. s \in Sessions /\ host.st = "call"
  BY <1>1, WriteTarget
<1>3. PICK n \in Nat :
        /\ sock' = [sock EXCEPT ![s].up = @ \o [i \in 1 .. n |-> Byte(s, host.sent + i)]]
        /\ host' \in Host /\ host'.sent = host.sent + n
        /\ UNCHANGED <<host.session, host.recvd, host.got>>
        /\ host'.st \in {"call", "poll"}
        /\ host'.sent <= host'.due + IF host'.st = "call" /\ Current'.op \in {"send", "trySend"}
                                      THEN MsgBytes ELSE 0
  BY WriteHost
<1>4. s \in Nat \ {0} /\ host.sent \in Nat /\ daemon.conn \in Nat /\ daemon.conn <= s
  BY <1>2, CallTypes, Numbers DEF IInv, HostInv, WaitingInv
<1>5. PICK q \in Seq(Bytes) : /\ sock' = [sock EXCEPT ![s].up = @ \o q]
                              /\ Len(q) = n /\ Seg(q, 0, Len(q), s, host.sent)
  <2> DEFINE q == [i \in 1 .. n |-> Byte(s, host.sent + i)]
  <2>1. q \in Seq(Bytes) /\ Len(q) = n /\ Seg(q, 0, Len(q), s, host.sent)
    BY <1>4, Run
  <2>2. QED
    BY <1>3, <2>1
<1>6. sock \in [Sessions -> Socket] /\ sock[s] \in Socket /\ sock[s].up \in Seq(Bytes)
  BY <1>2 DEF IInv, TypeInv, Socket
<1>7. PICK u \in Seq(Bytes) : u = sock[s].up \o q /\ Len(u) = Len(sock[s].up) + n
  <2>1. PICK v \in Seq(Bytes) : v = sock[s].up
    BY <1>6
  <2>2. v \o q \in Seq(Bytes) /\ Len(v \o q) = Len(v) + Len(q)
    OBVIOUS
  <2>3. QED
    BY <1>5, <2>1, <2>2
<1>8. \A r \in Sessions : /\ sock'[r].down = sock[r].down
                          /\ sock'[r].up = IF r = s THEN u ELSE sock[r].up
  BY <1>5, <1>6, <1>7 DEF Socket
<1>9. sock' \in [Sessions -> Socket]
  <2>1. sock' = [sock EXCEPT ![s].up = u]
    BY <1>5, <1>6, <1>7
  <2>2. [sock[s] EXCEPT !.up = u] \in Socket
    BY <1>6 DEF Socket
  <2>3. QED
    BY <1>2, <1>6, <2>1, <2>2
<1>10. TypeInv'
  BY <1>1, <1>3, <1>9 DEF IInv, TypeInv
<1>11. BoardInv'
  <2>1. bridge'.enabled = Live' /\ (Live' => daemon'.conn # 0 /\ TxRing' /\ RxRing' /\ UpBuffers')
    BY <1>1, RingFrame, UpFrame DEF IInv, BoardInv, Live
  <2>2. ASSUME Serving
        PROVE  UpSocket'
    <3>1. UpSocket /\ daemon.conn \in Sessions
      BY <2>2, ServedSession DEF IInv, BoardInv, Live, Serving
    <3>2. CASE daemon.conn # s
      <4>1. sock'[daemon.conn].up = sock[daemon.conn].up
        BY <1>8, <3>1, <3>2
      <4>2. QED
        BY <1>1, <1>3, <3>1, <3>2, <4>1
        DEF UpSocket, Tx, TxDone, TxFirst, TxSecond, Conn
    <3>3. CASE daemon.conn = s
      <4>1. PICK m \in Nat : m = bridge.injected + TxFirst + TxSecond + Tx.pending
                             /\ m + Len(sock[s].up) = host.sent
                             /\ Seg(sock[s].up, 0, Len(sock[s].up), s, m)
        <5>2. bridge.injected + TxFirst + TxSecond + Tx.pending \in Nat
          BY <2>2, Amounts DEF Live, Serving
        <5>3. QED
          BY <3>1, <3>3, <5>2 DEF UpSocket, Conn
      <4>2. Seg(u, 0, Len(u), s, m)
        BY <1>5, <1>6, <1>7, <4>1, SegConcat
      <4>3. m + Len(u) = host'.sent
        <5>1. Len(sock[s].up) \in Nat
          BY <1>6
        <5>2. QED
          BY <1>3, <1>7, <4>1, <5>1
      <4>4. (bridge.injected + TxFirst + TxSecond + Tx.pending)' = m
        BY <1>1, <4>1 DEF TxFirst, TxSecond, TxDone, Tx
      <4>5. Conn'.up = u /\ daemon'.conn = s
        BY <1>1, <1>8, <3>1, <3>3 DEF Conn
      <4>6. QED
        BY <4>2, <4>3, <4>4, <4>5 DEF UpSocket
    <3>4. QED
      BY <3>2, <3>3
  <2>3. ASSUME Serving, daemon.conn = s
        PROVE  Down'
    <3>1. Down
      BY <1>2, <2>3 DEF IInv, BoardInv
    <3>2. sock'[daemon.conn].down = sock[daemon.conn].down
      BY <1>2, <1>8, <2>3
    <3>3. QED
      BY <1>1, <1>3, <3>1, <3>2, DownFrame
  <2>4. QED
    BY <1>1, <1>3, <2>1, <2>2, <2>3 DEF BoardInv, Serving
<1>12. WaitingInv'
  <2>1. ASSUME NEW r \in Sessions, r > daemon.conn
        PROVE  /\ Seg(sock'[r].up, 0, Len(sock'[r].up), r, 0)
               /\ sock'[r].down = <<>>
               /\ r = s => Len(sock'[r].up) = host.sent + n
               /\ r > s => sock'[r].up = <<>>
    <3>1. /\ Seg(sock[r].up, 0, Len(sock[r].up), r, 0) /\ sock[r].down = <<>>
          /\ r = s => Len(sock[r].up) = host.sent
          /\ r > s => sock[r].up = <<>>
      BY <2>1 DEF IInv, WaitingInv
    <3>2. CASE r = s
      <4>1. Seg(q, 0, Len(q), s, 0 + Len(sock[s].up)) /\ Seg(sock[s].up, 0, Len(sock[s].up), s, 0)
        BY <1>4, <1>5, <3>1, <3>2
      <4>2. 0 \in Nat
        OBVIOUS
      <4>3. Seg(sock[s].up \o q, 0, Len(sock[s].up \o q), s, 0)
        BY <1>6, <4>1, <4>2, SegConcat
      <4>4. Seg(u, 0, Len(u), s, 0) /\ ~ (r > s)
        BY <1>4, <1>7, <3>2, <4>3
      <4>5. QED
        BY <1>7, <1>8, <3>1, <3>2, <4>4
    <3>3. CASE r # s
      BY <1>8, <3>1, <3>3
    <3>4. QED
      BY <3>2, <3>3
  <2>2. QED
    BY <1>1, <1>3, <2>1 DEF IInv, WaitingInv
<1>13. PowerInv'
  BY <1>1, <1>3 DEF IInv, PowerInv, Live
<1>14. HostInv'
  BY <1>3, <1>4, CallTypes DEF HostInv
<1>15. QED
  BY <1>10, <1>11, <1>12, <1>13, <1>14 DEF IInv

\* Bytes move from one part of the way down to another: the rest is as it was.
LEMMA DownShifts ==
  ASSUME Down,
         UNCHANGED <<daemon.conn, daemon.rx, bridge.in, bridge.lenRx, bridge.rxRead,
                     bridge.rxWrite, bridge.rxCount, dma.rx, power, emitted>>,
         host'.st # "connect",
         host'.recvd + Len(Conn'.down) = host.recvd + Len(Conn.down),
         Seg(Conn'.down, 0, Len(Conn'.down), daemon.conn, host'.recvd)
  PROVE  Down'
BY DEF Down, DownTotal, Rx, RxLen, RxFirst, RxSecond

\* The host's side of recv.
LEMMA RecvHost ==
  ASSUME IInv, Recv
  PROVE  \E k \in Nat :
           /\ k <= Len(Link.down)
           /\ sock' = [sock EXCEPT ![host.session].down = Rest(@, k)]
           /\ host' \in Host /\ host'.recvd = host.recvd + k
           /\ UNCHANGED <<host.session, host.sent, host.due>>
           /\ host'.st \in {"call", "recv"} /\ host'.got < ReplyBytes
<1> DEFINE s == host.session
           k == MinOf(ReplyBytes - host.got, Len(Link.down))
           h == [host EXCEPT !.recvd = @ + k, !.got = @ + k]
           r == [h EXCEPT !.got = 0, !.count = @ + 1]
<1>1. /\ host.st = "recv"
      /\ sock' = [sock EXCEPT ![s].down = Rest(@, k)]
      /\ host' = IF h.got < ReplyBytes THEN h
                 ELSE IF Current.op = "trySend" THEN AfterPoll(r) ELSE [r EXCEPT !.st = "call"]
  BY DEF Recv
<1>2. s \in Sessions
  <2>1. s \in Nat /\ s # 0 /\ s <= MaxSessions
    BY <1>1, CallTypes DEF IInv, HostInv, WaitingInv
  <2>2. QED
    BY <2>1, FlitShape DEF Sessions
<1>3. Link.down \in Seq(Bytes)
  BY <1>2 DEF Link, IInv, TypeInv, Socket
<1>4. k \in Nat /\ k <= Len(Link.down)
  <2>1. Len(Link.down) \in Nat
    BY <1>3
  <2>2. QED
    BY <2>1, CallTypes DEF MinOf
<1> HIDE DEF k
<1>5. host \in Host /\ host.pc + 1 \in Nat /\ host.count + 1 \in Nat /\ host.pc \in Nat
      /\ host.ok \in BOOLEAN /\ host.recvd + k \in Nat /\ host.got + k \in Nat
      /\ host.count \in Nat
  <2>1. host.recvd \in Nat /\ host.got \in Nat /\ host.count \in Nat /\ host.pc \in Nat
    BY CallTypes
  <2>2. /\ host.pc + 1 \in Nat /\ host.count + 1 \in Nat
        /\ host.recvd + k \in Nat /\ host.got + k \in Nat
    BY <1>4, <2>1
  <2>3. QED
    BY <2>1, <2>2, CallTypes
<1>6. PICK v \in Nat, g \in Nat : v = host.recvd + k /\ g = host.got + k
  BY <1>5
<1>7. h = [host EXCEPT !.recvd = v, !.got = g] /\ h.got = g
  BY <1>5, <1>6 DEF Host
<1>8. PICK x \in {"call", "recv"}, y \in Nat, c \in Nat, q \in Nat :
        /\ host' = [host EXCEPT !.recvd = v, !.got = y, !.count = c, !.st = x, !.pc = q]
        /\ y < ReplyBytes
  <2>1. CASE h.got < ReplyBytes
    <3>1. host' = [host EXCEPT !.recvd = v, !.got = g, !.count = host.count, !.st = "recv",
                               !.pc = host.pc]
      BY <1>1, <1>5, <1>7, <2>1 DEF Host
    <3>2. QED
      BY <1>5, <1>7, <2>1, <3>1
  <2>2. CASE ~ (h.got < ReplyBytes)
    <3>1. r = [host EXCEPT !.recvd = v, !.got = 0, !.count = host.count + 1]
      BY <1>5, <1>7 DEF Host
    <3>2. r.ok = host.ok /\ r.pc = host.pc
      BY <1>5, <3>1 DEF Host
    <3>3. PICK q \in Nat : host' = [r EXCEPT !.st = "call", !.pc = q]
      <4>1. CASE Current.op = "trySend"
        <5>1. host' = [r EXCEPT !.st = "call", !.pc = IF host.ok THEN host.pc + 1 ELSE host.pc]
          BY <1>1, <2>2, <3>2, <4>1 DEF AfterPoll
        <5>2. (IF host.ok THEN host.pc + 1 ELSE host.pc) \in Nat
          BY <1>5
        <5>3. QED
          BY <5>1, <5>2
      <4>2. CASE Current.op # "trySend"
        <5>1. host' = [r EXCEPT !.st = "call", !.pc = host.pc]
          BY <1>1, <1>5, <2>2, <3>1, <4>2 DEF Host
        <5>2. QED
          BY <1>5, <5>1
      <4>3. QED
        BY <4>1, <4>2
    <3>4. host' = [host EXCEPT !.recvd = v, !.got = 0, !.count = host.count + 1, !.st = "call",
                               !.pc = q]
      BY <1>5, <3>1, <3>3 DEF Host
    <3>5. 0 \in Nat /\ 0 < ReplyBytes
      BY FlitShape
    <3>6. QED
      BY <1>5, <3>4, <3>5
  <2>3. QED
    BY <2>1, <2>2
<1>9. host' \in Host /\ host'.recvd = v /\ host'.st = x /\ host'.got = y
      /\ UNCHANGED <<host.session, host.sent, host.due>>
  BY <1>5, <1>8 DEF Host
<1>10. QED
  BY <1>1, <1>4, <1>6, <1>8, <1>9

\* recv: what the client has been given is what it has taken next.
LEMMA HostReceives ==
  ASSUME IInv, Recv
  PROVE  IInv'
<1> DEFINE s == host.session
<1>1. UNCHANGED <<daemon, dma, bridge, power, core, emitted>> /\ host.st = "recv"
      /\ Link.down # <<>>
  BY DEF Recv, coreVars
<1>2. PICK k \in Nat :
        /\ k <= Len(Link.down)
        /\ sock' = [sock EXCEPT ![s].down = Rest(@, k)]
        /\ host' \in Host /\ host'.recvd = host.recvd + k
        /\ UNCHANGED <<host.session, host.sent, host.due>>
        /\ host'.st \in {"call", "recv"} /\ host'.got < ReplyBytes
  BY RecvHost
<1>3. s \in Sessions
  <2>1. s \in Nat /\ s # 0 /\ s <= MaxSessions
    BY <1>1, CallTypes DEF IInv, HostInv, WaitingInv
  <2>2. QED
    BY <2>1, FlitShape DEF Sessions
<1>4. daemon.conn = s
  <2>1. daemon.conn \in Nat /\ s \in Nat /\ daemon.conn <= s
    BY Numbers DEF IInv, WaitingInv
  <2>2. ~ (s > daemon.conn)
    BY <1>1, <1>3 DEF Link, IInv, WaitingInv
  <2>3. QED
    BY <2>1, <2>2
<1>5. sock \in [Sessions -> Socket] /\ sock[s] \in Socket
  BY <1>3 DEF IInv, TypeInv
<1>6. PICK p \in Seq(Bytes) : p = sock[s].down /\ Len(p) \in Nat /\ k <= Len(p)
  BY <1>2, <1>5 DEF Socket, Link
<1>7. PICK u \in Seq(Bytes) : u = Rest(p, k) /\ Len(u) = Len(p) - k
  <2>1. SubSeq(p, k + 1, Len(p)) \in Seq(Bytes) /\ Len(SubSeq(p, k + 1, Len(p))) = Len(p) - k
    <3>1. \A i \in k + 1 .. Len(p) : p[i] \in Bytes
      BY <1>6, ElementOfSeq
    <3>2. QED
      BY <1>6, <3>1, SubSeqProperties
  <2>2. QED
    BY <2>1 DEF Rest
<1>8. \A r \in Sessions : /\ sock'[r].up = sock[r].up
                          /\ sock'[r].down = IF r = s THEN u ELSE sock[r].down
  BY <1>2, <1>5, <1>6, <1>7 DEF Socket
<1>9. sock' \in [Sessions -> Socket]
  <2>1. sock' = [sock EXCEPT ![s].down = u]
    BY <1>2, <1>5, <1>6, <1>7
  <2>2. [sock[s] EXCEPT !.down = u] \in Socket
    BY <1>5 DEF Socket
  <2>3. QED
    BY <1>3, <1>5, <2>1, <2>2
<1>10. TypeInv'
  BY <1>1, <1>2, <1>9 DEF IInv, TypeInv
<1>11. BoardInv'
  <2>1. bridge'.enabled = Live' /\ (Live' => daemon'.conn # 0 /\ TxRing' /\ RxRing' /\ UpBuffers')
    BY <1>1, RingFrame, UpFrame DEF IInv, BoardInv, Live
  <2>2. ASSUME Serving
        PROVE  UpSocket'
    <3>1. UpSocket /\ sock'[daemon.conn].up = sock[daemon.conn].up
      BY <1>3, <1>4, <1>8, <2>2 DEF IInv, BoardInv
    <3>2. QED
      BY <1>1, <1>2, <3>1, UpFrame
  <2>3. ASSUME Serving
        PROVE  Down'
    <3>1. Down
      BY <1>1, <1>4, <2>3 DEF IInv, BoardInv
    <3>2. Conn.down = p /\ Conn'.down = u
      BY <1>1, <1>3, <1>4, <1>6, <1>8 DEF Conn
    <3>3. PICK v \in Nat : v = host.recvd /\ host'.recvd = v + k
      BY <1>2, CallTypes
    <3>4. host'.recvd + Len(Conn'.down) = host.recvd + Len(Conn.down)
      BY <1>6, <1>7, <3>2, <3>3
    <3>5. Seg(u, 0, Len(u), s, v + k)
      <4>1. Seg(p, 0, Len(p), s, v)
        BY <1>4, <3>1, <3>2, <3>3 DEF Down
      <4>2. Seg(p, 0 + k, Len(p) - k, s, v + k)
        BY <1>6, <3>3, <4>1, SegRest
      <4>3. PICK m \in Nat : m = Len(p) - k /\ k + m = Len(p)
        <5>1. Len(p) - k \in Nat /\ k + (Len(p) - k) = Len(p)
          BY <1>6
        <5>2. QED
          BY <5>1
      <4>4. Seg(p, k, m, s, v + k) /\ v + k \in Nat
        BY <4>2, <4>3
      <4>5. Seg(SubSeq(p, k + 1, k + m), 0, m, s, v + k)
        BY <4>4, SegSub
      <4>6. QED
        BY <1>7, <4>3, <4>5 DEF Rest
    <3>6. QED
      BY <1>1, <1>2, <1>4, <3>1, <3>2, <3>3, <3>4, <3>5, DownShifts
  <2>4. QED
    BY <1>1, <2>1, <2>2, <2>3 DEF BoardInv, Serving
<1>12. WaitingInv'
  <2>1. \A r \in Sessions : r > daemon.conn => r # s
    BY <1>4, CallTypes DEF Sessions
  <2>2. ~ (daemon.conn < s)
    BY <1>4, CallTypes
  <2>3. ASSUME NEW r \in Sessions, r > daemon.conn
        PROVE  sock'[r].up = sock[r].up /\ sock'[r].down = sock[r].down
    BY <1>8, <2>1, <2>3
  <2>4. QED
    BY <1>1, <1>2, <2>2, <2>3 DEF IInv, WaitingInv
<1>13. PowerInv'
  BY <1>1, <1>2 DEF IInv, PowerInv, Live
<1>14. HostInv'
  <2>1. host.sent <= host.due /\ host.due \in Nat /\ host.sent \in Nat /\ MsgBytes \in Nat
    BY <1>1, CallTypes
  <2>2. host.session # 0
    BY <1>1 DEF IInv, HostInv
  <2>3. QED
    BY <1>2, <2>1, <2>2 DEF HostInv
<1>15. QED
  BY <1>10, <1>11, <1>12, <1>13, <1>14 DEF IInv

-----------------------------------------------------------------------------
(* Clients come and go                                                     *)

\* A step of anything but the program.
LEMMA HostSame ==
  ASSUME IInv, UNCHANGED host
  PROVE  HostInv'
BY DEF IInv, HostInv, Current

LEMMA BoardReset ==
  ASSUME IInv, Reset, UNCHANGED <<coreVars, host, emitted>>
  PROVE  IInv'
<1>1. UNCHANGED <<sock, dma, host, power, core, emitted>> /\ bridge' = NewBridge
      /\ daemon' = [daemon EXCEPT !.st = "listen"]
  BY DEF Reset, coreVars
<1>2. daemon' \in Daemon /\ daemon'.st = "listen" /\ daemon'.conn = daemon.conn
  BY <1>1 DEF IInv, TypeInv, Daemon
<1>3. TypeInv'
  BY <1>1, <1>2, NewBridgeType DEF IInv, TypeInv
<1>4. BoardInv'
  BY <1>1, <1>2 DEF BoardInv, Live, Serving, NewBridge
<1>5. WaitingInv'
  BY <1>1, <1>2 DEF IInv, WaitingInv
<1>6. PowerInv'
  BY <1>1, <1>2 DEF IInv, PowerInv, Live
<1>7. QED
  BY <1>1, <1>3, <1>4, <1>5, <1>6, HostSame DEF IInv

LEMMA ClientClosed ==
  ASSUME IInv, Serving, CloseConn, UNCHANGED <<coreVars, host, emitted>>
  PROVE  IInv'
<1> DEFINE s == daemon.conn
<1>1. UNCHANGED <<dma, bridge, host, power, core, emitted>>
      /\ daemon' = [daemon EXCEPT !.st = "reset"]
      /\ sock' = [sock EXCEPT ![s] = [NewSocket EXCEPT !.client = Conn.client]]
  BY DEF CloseConn, coreVars
<1>2. daemon' \in Daemon /\ daemon'.st = "reset" /\ UNCHANGED <<daemon.conn, daemon.tx, daemon.rx>>
  BY <1>1 DEF IInv, TypeInv, Daemon
<1>3. s \in Sessions /\ Conn \in Socket /\ s \in Nat
  BY ServedSession, Numbers DEF IInv, Live, Serving
<1>4. sock' \in [Sessions -> Socket] /\ \A r \in Sessions : r # s => sock'[r] = sock[r]
  <2>1. [NewSocket EXCEPT !.client = Conn.client] \in Socket
    <3>1. <<>> \in Seq(Bytes) /\ Conn.client \in BOOLEAN
      BY <1>3 DEF Socket
    <3>2. QED
      BY <3>1 DEF NewSocket, Socket
  <2>2. sock \in [Sessions -> Socket]
    BY DEF IInv, TypeInv
  <2>3. QED
    BY <1>1, <1>3, <2>1, <2>2
<1>5. TypeInv'
  BY <1>1, <1>2, <1>4 DEF IInv, TypeInv
<1>6. BoardInv'
  <2>1. TxRing /\ RxRing /\ UpBuffers /\ bridge.enabled = Live /\ s # 0 /\ Live /\ Live'
    BY <1>2 DEF IInv, BoardInv, Live, Serving
  <2>2. TxRing' /\ RxRing' /\ UpBuffers'
    BY <1>1, <1>2, <2>1, RingFrame, UpFrame
  <2>3. QED
    BY <1>1, <1>2, <2>1, <2>2 DEF BoardInv, Serving
<1>7. WaitingInv'
  <2>1. \A r \in Sessions : r > s => sock'[r] = sock[r]
    BY <1>3, <1>4
  <2>2. QED
    BY <1>1, <1>2, <2>1 DEF IInv, WaitingInv
<1>8. PowerInv'
  BY <1>1, <1>2 DEF IInv, PowerInv, Live, Serving
<1>9. QED
  BY <1>1, <1>5, <1>6, <1>7, <1>8, HostSame DEF IInv

\* The next client: empty buffers on both sides, and a stream from its start.
LEMMA ClientAccepted ==
  ASSUME IInv, AcceptClient
  PROVE  IInv'
<1> DEFINE s == daemon.conn + 1
<1>1. /\ UNCHANGED <<host, power, core, emitted>> /\ dma' = OldBuffers
      /\ bridge' = [NewBridge EXCEPT !.enabled = TRUE]
      /\ daemon' = [st |-> "serve", conn |-> s, tx |-> NewTx, rx |-> NewRx]
      /\ sock' = [sock EXCEPT ![s].server = TRUE]
      /\ daemon.conn < host.session /\ power \in {0, s}
  BY DEF AcceptClient, Accept, BridgeAtAccept, coreVars
<1>2. s \in Nat /\ s # 0 /\ s <= host.session /\ daemon.conn \in Nat /\ host.session \in Nat
      /\ s > daemon.conn /\ s \in Sessions
  <2>1. daemon.conn \in Nat /\ host.session \in Nat /\ host.session <= MaxSessions
        /\ MaxSessions \in Nat
    BY Numbers, FlitShape DEF IInv, WaitingInv
  <2>2. QED
    BY <1>1, <2>1 DEF Sessions
<1>3. daemon' \in Daemon /\ daemon'.st = "serve" /\ daemon'.conn = s
      /\ daemon'.tx = NewTx /\ daemon'.rx = NewRx
  <2>1. NewTx \in TxState /\ NewRx \in RxState
    BY DEF NewTx, NewRx, TxState, RxState
  <2>2. QED
    BY <1>1, <1>2, <2>1 DEF Daemon
<1>4. /\ bridge' \in BridgeState /\ bridge'.enabled /\ bridge'.lenTx = <<0, 0>>
      /\ bridge'.lenRx = <<0, 0>> /\ bridge'.txRead = 0 /\ bridge'.txCount = 0
      /\ bridge'.rxWrite = 0 /\ bridge'.rxRead = 0 /\ bridge'.rxCount = 0
      /\ bridge'.in = <<>> /\ bridge'.injected = 0
  <2>1. /\ NewBridge.lenTx = <<0, 0>> /\ NewBridge.lenRx = <<0, 0>> /\ NewBridge.txRead = 0
        /\ NewBridge.txCount = 0 /\ NewBridge.rxWrite = 0 /\ NewBridge.rxRead = 0
        /\ NewBridge.rxCount = 0 /\ NewBridge.in = <<>> /\ NewBridge.injected = 0
    BY DEF NewBridge
  <2>2. QED
    BY <1>1, <2>1, NewBridgeType DEF BridgeState
<1>5. sock \in [Sessions -> Socket]
      /\ \A r \in Sessions : /\ sock'[r] \in Socket /\ sock'[r].up = sock[r].up
                             /\ sock'[r].down = sock[r].down
  <2>1. sock \in [Sessions -> Socket]
    BY DEF IInv, TypeInv
  <2>2. QED
    BY <1>1, <2>1 DEF Socket
<1>6. TypeInv'
  <2>1. sock' \in [Sessions -> Socket]
    BY <1>1, <1>5
  <2>2. QED
    BY <1>1, <1>3, <1>4, <2>1, OldBuffersType DEF IInv, TypeInv
<1>7. /\ Tx'.active = 0 /\ Tx'.pending = 0 /\ Tx'.ready = FALSE
      /\ Rx'.active = 0 /\ Rx'.written = 0 /\ Rx'.available = 0
      /\ bridge'.lenTx[0 + 1] = 0 /\ bridge'.lenTx[Other(0) + 1] = 0
      /\ bridge'.lenRx[0 + 1] = 0 /\ bridge'.lenRx[Other(0) + 1] = 0
      /\ Other(0) \in 0 .. 1
  BY <1>3, <1>4 DEF Tx, Rx, NewTx, NewRx, Other
<1>8. TxDone' = 0 /\ TxFirst' = 0 /\ TxSecond' = 0 /\ RxLen' = 0 /\ RxFirst' = 0 /\ RxSecond' = 0
  <2>1. /\ bridge'.lenTx[bridge'.txRead + 1] = 0 /\ bridge'.lenTx[Other(bridge'.txRead) + 1] = 0
        /\ bridge'.lenRx[Rx'.active + 1] = 0
    BY <1>4, <1>7
  <2>2. FlitBytes * 0 = 0 /\ 0 - 0 = 0
    BY FlitTimes
  <2>3. TxDone' = 0 /\ TxSecond' = 0 /\ RxLen' = 0 /\ RxSecond' = 0
    BY <1>4, <2>1, <2>2 DEF TxDone, TxSecond, RxLen, RxSecond
  <2>4. TxFirst' = 0 - 0 /\ RxFirst' = 0 - 0
    BY <1>7, <2>1, <2>2, <2>3 DEF TxFirst, RxFirst
  <2>5. QED
    BY <2>2, <2>3, <2>4
<1>9. \A b \in 0 .. 1 : /\ Len(dma'.tx[b]) \in Nat /\ 0 <= Len(dma'.tx[b])
                        /\ Len(dma'.rx[b]) \in Nat /\ 0 <= Len(dma'.rx[b])
  <2>1. \A b \in 0 .. 1 : Len(dma'.tx[b]) = DMABufferSize /\ Len(dma'.rx[b]) = DMABufferSize
    BY <1>1, OldBuffersType
  <2>2. DMABufferSize \in Nat /\ 0 <= DMABufferSize
    BY FlitShape
  <2>3. QED
    BY <2>1, <2>2
<1>10. /\ sock[s].down = <<>> /\ Seg(sock[s].up, 0, Len(sock[s].up), s, 0)
       /\ s = host.session => Len(sock[s].up) = host.sent
       /\ host.recvd = 0
  BY <1>1, <1>2 DEF IInv, WaitingInv
<1>11. BoardInv'
  <2>1. TxRing'
    BY <1>4, <1>7 DEF TxRing
  <2>2. RxRing'
    BY <1>4, <1>7, <1>8, <1>9 DEF RxRing
  <2>3. UpBuffers'
    <3>1. DMABufferSize \in Nat
      BY FlitShape
    <3>2. /\ Seg(dma'.tx[0], 0, 0, s, 0) /\ Seg(dma'.tx[Other(0)], 0, 0, s, 0)
      BY <1>7, <1>9, SegEmpty
    <3>3. QED
      BY <1>3, <1>4, <1>7, <1>8, <3>1, <3>2 DEF UpBuffers
  <2>4. UpSocket'
    <3>1. Conn'.up = sock[s].up /\ Len(sock[s].up) \in Nat
      BY <1>2, <1>3, <1>5 DEF Conn, Socket
    <3>2. (bridge.injected + TxFirst + TxSecond + Tx.pending)' = 0
      BY <1>4, <1>7, <1>8
    <3>3. QED
      BY <1>1, <1>3, <1>10, <3>1, <3>2 DEF UpSocket
  <2>5. ASSUME s = host.session
        PROVE  Down'
    <3>1. Conn'.down = <<>> /\ Len(Conn'.down) = 0 /\ host'.recvd = 0 /\ Len(bridge'.in) = 0
      BY <1>1, <1>2, <1>3, <1>4, <1>5, <1>10 DEF Conn
    <3>2. DownTotal' = 0
      BY <1>8, <3>1, FlitTimes DEF DownTotal
    <3>3. Seg(Conn'.down, 0, 0, s, 0) /\ Seg(dma'.rx[0], 0, 0, s, 0)
      <4>1. 0 \in Nat /\ 0 <= 0 /\ 0 \in 0 .. 1
        OBVIOUS
      <4>2. Len(dma'.rx[0]) \in Nat /\ 0 <= Len(dma'.rx[0])
        BY <1>9, <4>1
      <4>3. QED
        BY <3>1, <4>1, <4>2, SegEmpty
    <3>4. power' = s => emitted' = 0
      BY <1>1, <1>2 DEF IInv, PowerInv
    <3>5. QED
      BY <1>3, <1>4, <1>7, <1>8, <3>1, <3>2, <3>3, <3>4 DEF Down
  <2>6. QED
    BY <1>1, <1>2, <1>3, <1>4, <2>1, <2>2, <2>3, <2>4, <2>5 DEF BoardInv, Live
<1>12. WaitingInv'
  <2>1. \A r \in Sessions : r > s => r > daemon.conn
    BY <1>2 DEF Sessions
  <2>2. QED
    BY <1>1, <1>2, <1>3, <1>5, <1>10, <2>1 DEF IInv, WaitingInv
<1>13. PowerInv'
  <2>1. power \in {0, s} /\ power # s + 1
    BY <1>1, <1>2
  <2>2. power <= host.session /\ (power # 0 /\ power = host.session => host.st # "connect")
        /\ (power = 0 => core = [c \in Cores |-> NewCore])
    BY DEF IInv, PowerInv
  <2>3. QED
    BY <1>1, <1>3, <2>1, <2>2 DEF PowerInv
<1>14. QED
  BY <1>1, <1>6, <1>11, <1>12, <1>13, HostSame DEF IInv

LEMMA BoardsOff ==
  ASSUME IInv, PowerDownBoards
  PROVE  IInv'
<1>1. UNCHANGED <<sock, daemon, dma, bridge, host, emitted>> /\ power' = 0
      /\ core' = [c \in Cores |-> NewCore]
  BY DEF PowerDownBoards, PowerDown, streamVars
<1>2. BoardInv'
  <2>1. bridge'.enabled = Live' /\ (Live' => daemon'.conn # 0 /\ TxRing' /\ RxRing' /\ UpBuffers')
    BY <1>1, RingFrame, UpFrame DEF IInv, BoardInv, Live
  <2>2. Serving' => UpSocket'
    BY <1>1, UpFrame DEF IInv, BoardInv, Serving
  <2>3. ASSUME Serving, daemon.conn = host.session, host.st # "exit"
        PROVE  Down'
    <3>1. Down /\ daemon.conn # 0
      BY <2>3 DEF IInv, BoardInv, Live, Serving
    <3>2. QED
      BY <1>1, <3>1 DEF Down, DownTotal, Rx, RxLen, RxFirst, RxSecond, Conn
  <2>4. QED
    BY <1>1, <2>1, <2>2, <2>3 DEF BoardInv, Serving
<1>3. TypeInv' /\ WaitingInv'
  BY <1>1 DEF IInv, TypeInv, WaitingInv
<1>4. PowerInv'
  <2>1. daemon.conn \in Nat /\ host.session \in Nat
    BY Numbers DEF IInv
  <2>2. QED
    BY <1>1, <2>1 DEF PowerInv
<1>5. QED
  BY <1>1, <1>2, <1>3, <1>4, HostSame DEF IInv

-----------------------------------------------------------------------------
(* Steps of the stream: from the client to the mesh                        *)

\* A stream is cut in two.
LEMMA SegCut ==
  ASSUME NEW p \in Seq(Bytes), NEW k \in Nat, k <= Len(p), NEW s, NEW n \in Nat,
         Seg(p, 0, Len(p), s, n)
  PROVE  /\ SubSeq(p, 1, k) \in Seq(Bytes) /\ Len(SubSeq(p, 1, k)) = k
         /\ Seg(SubSeq(p, 1, k), 0, k, s, n)
         /\ Rest(p, k) \in Seq(Bytes) /\ Len(Rest(p, k)) = Len(p) - k
         /\ Seg(Rest(p, k), 0, Len(Rest(p, k)), s, n + k)
<1>1. PICK m \in Nat : m = Len(p) - k /\ k + m = Len(p)
  <2>1. Len(p) \in Nat
    OBVIOUS
  <2>2. Len(p) - k \in Nat /\ k + (Len(p) - k) = Len(p)
    BY <2>1
  <2>3. QED
    BY <2>2
<1>2. Seg(p, 0 + k, Len(p) - k, s, n + k) /\ Seg(p, 0, k, s, n)
  BY SegRest
<1>3. Seg(p, k, m, s, n + k) /\ n + k \in Nat /\ 0 + 1 = 1 /\ 0 + k = k /\ 0 \in Nat
  BY <1>1, <1>2
<1>4. /\ SubSeq(p, 0 + 1, 0 + k) \in Seq(Bytes) /\ Len(SubSeq(p, 0 + 1, 0 + k)) = k
      /\ Seg(SubSeq(p, 0 + 1, 0 + k), 0, k, s, n)
  BY <1>2, <1>3, SegSub
<1>5. /\ SubSeq(p, k + 1, k + m) \in Seq(Bytes) /\ Len(SubSeq(p, k + 1, k + m)) = m
      /\ Seg(SubSeq(p, k + 1, k + m), 0, m, s, n + k)
  BY <1>3, SegSub
<1>6. Rest(p, k) = SubSeq(p, k + 1, k + m)
  BY <1>1 DEF Rest
<1>7. QED
  BY <1>1, <1>3, <1>4, <1>5, <1>6

\* What the steps of the stream leave alone.
LEMMA StreamStep ==
  ASSUME IInv, TypeInv',
         UNCHANGED <<host, power, core, emitted, daemon.conn, daemon.st, bridge.enabled>>,
         \A r \in Sessions : r # daemon.conn => sock'[r] = sock[r],
         Live => TxRing' /\ RxRing' /\ UpBuffers',
         Serving => UpSocket',
         Serving /\ daemon.conn = host.session /\ host.st # "exit" => Down'
  PROVE  IInv'
<1>1. BoardInv'
  BY DEF IInv, BoardInv, Live, Serving
<1>2. WaitingInv'
  <2>1. \A r \in Sessions : r > daemon.conn => sock'[r] = sock[r]
    <3>1. daemon.conn \in Nat
      BY Numbers DEF IInv
    <3>2. \A r \in Sessions : r > daemon.conn => r # daemon.conn
      BY <3>1 DEF Sessions
    <3>3. QED
      BY <3>2
  <2>2. QED
    BY <2>1 DEF IInv, WaitingInv
<1>3. PowerInv'
  BY DEF IInv, PowerInv, Live
<1>4. QED
  BY <1>1, <1>2, <1>3, HostSame DEF IInv

\* tx: the bytes read are behind those that are pending.
LEMMA ClientRead ==
  ASSUME IInv, TxRead, UNCHANGED <<coreVars, host, emitted>>
  PROVE  IInv'
<1> DEFINE s == daemon.conn
           a == Tx.active
           k == bridge.txRead
           n == MinOf(DMABufferSize - Tx.pending, Len(Conn.up))
<1>1. /\ UNCHANGED <<bridge, host, power, core, emitted>>
      /\ dma' = [dma EXCEPT !.tx[a] = SubSeq(@, 1, Tx.pending) \o FirstOf(Conn.up, n)]
      /\ daemon' = [daemon EXCEPT !.tx.ready = TRUE, !.tx.pending = @ + n]
      /\ sock' = [sock EXCEPT ![s].up = Rest(@, n)]
      /\ Serving /\ Live /\ BufferReady
  BY DEF TxRead, coreVars, Serving, Live
<1>2. /\ s \in Sessions /\ Conn \in Socket /\ Conn.up \in Seq(Bytes) /\ Len(Conn.up) \in Nat
      /\ a \in 0 .. 1 /\ k \in 0 .. 1 /\ Tx.pending \in Nat
      /\ dma.tx[a] \in Seq(Bytes) /\ s \in Nat
  <2>1. s \in Sessions /\ Conn \in Socket
    BY <1>1, ServedSession
  <2>2. Conn.up \in Seq(Bytes) /\ Len(Conn.up) \in Nat
    BY <2>1 DEF Socket
  <2>3. QED
    BY <2>1, <2>2, Numbers DEF IInv
<1>3. TxRing /\ RxRing /\ UpBuffers /\ UpSocket
  BY <1>1 DEF IInv, BoardInv
<1>4. n \in Nat /\ n <= Len(Conn.up) /\ Tx.pending + n <= DMABufferSize
      /\ Tx.pending + n \in Nat /\ MinOf(n, Len(Conn.up)) = n
  BY <1>2, <1>3, FlitShape DEF UpBuffers, MinOf
<1> HIDE DEF n
<1>5. PICK m \in Nat : m = bridge.injected + TxFirst + TxSecond
                       /\ m + Tx.pending = bridge.injected + TxFirst + TxSecond + Tx.pending
  <2>1. TxFirst \in Nat /\ TxSecond \in Nat /\ bridge.injected \in Nat
    BY <1>1, Amounts, Numbers DEF IInv
  <2>2. bridge.injected + TxFirst + TxSecond \in Nat
    BY <2>1
  <2>3. QED
    BY <2>2
<1>6. Seg(dma.tx[a], 0, Tx.pending, s, m) /\ Seg(Conn.up, 0, Len(Conn.up), s, m + Tx.pending)
  BY <1>3, <1>5 DEF UpBuffers, UpSocket
<1>7. PICK u \in Seq(Bytes) : u = SubSeq(dma.tx[a], 1, Tx.pending) /\ Len(u) = Tx.pending
                              /\ Seg(u, 0, Tx.pending, s, m)
  <2>1. 0 + 1 = 1 /\ 0 + Tx.pending = Tx.pending /\ 0 \in Nat
    BY <1>2
  <2>2. /\ SubSeq(dma.tx[a], 0 + 1, 0 + Tx.pending) \in Seq(Bytes)
        /\ Len(SubSeq(dma.tx[a], 0 + 1, 0 + Tx.pending)) = Tx.pending
        /\ Seg(SubSeq(dma.tx[a], 0 + 1, 0 + Tx.pending), 0, Tx.pending, s, m)
    BY <1>2, <1>6, <2>1, SegSub
  <2>3. QED
    BY <2>1, <2>2
<1>8. PICK v \in Seq(Bytes), w \in Seq(Bytes) :
        /\ v = FirstOf(Conn.up, n) /\ Len(v) = n /\ Seg(v, 0, n, s, m + Tx.pending)
        /\ w = Rest(Conn.up, n) /\ Len(w) = Len(Conn.up) - n
        /\ Seg(w, 0, Len(w), s, (m + Tx.pending) + n)
  <2>1. m + Tx.pending \in Nat
    BY <1>2
  <2>2. /\ SubSeq(Conn.up, 1, n) \in Seq(Bytes) /\ Len(SubSeq(Conn.up, 1, n)) = n
        /\ Seg(SubSeq(Conn.up, 1, n), 0, n, s, m + Tx.pending)
        /\ Rest(Conn.up, n) \in Seq(Bytes) /\ Len(Rest(Conn.up, n)) = Len(Conn.up) - n
        /\ Seg(Rest(Conn.up, n), 0, Len(Rest(Conn.up, n)), s, (m + Tx.pending) + n)
    BY <1>2, <1>4, <1>6, <2>1, SegCut
  <2>3. FirstOf(Conn.up, n) = SubSeq(Conn.up, 1, n)
    BY <1>4 DEF FirstOf
  <2>4. QED
    BY <2>2, <2>3
<1>9. PICK x \in Seq(Bytes) : x = u \o v /\ Len(x) = Tx.pending + n
                              /\ Seg(x, 0, Tx.pending + n, s, m)
  <2>1. Seg(u, 0, Len(u), s, m) /\ Seg(v, 0, Len(v), s, m + Len(u))
    BY <1>7, <1>8
  <2>2. /\ u \o v \in Seq(Bytes) /\ Len(u \o v) = Len(u) + Len(v)
        /\ Seg(u \o v, 0, Len(u \o v), s, m)
    BY <2>1, SegConcat
  <2>3. QED
    BY <1>7, <1>8, <2>2
<1>10. /\ dma' \in Dma /\ dma'.rx = dma.rx
       /\ \A b \in 0 .. 1 : dma'.tx[b] = IF b = a THEN x ELSE dma.tx[b]
  <2>1. dma \in Dma
    BY DEF IInv, TypeInv
  <2>2. dma' = [dma EXCEPT !.tx[a] = x]
    BY <1>1, <1>2, <1>7, <1>8, <1>9, <2>1 DEF Dma
  <2>3. QED
    BY <1>2, <2>1, <2>2 DEF Dma
<1>11. /\ daemon' \in Daemon /\ UNCHANGED <<daemon.conn, daemon.st, daemon.rx>>
       /\ Tx'.active = a /\ Tx'.ready = TRUE /\ Tx'.pending = Tx.pending + n
  <2>1. daemon \in Daemon
    BY DEF IInv, TypeInv
  <2>2. PICK t \in Nat : t = Tx.pending + n
    BY <1>4
  <2>3. daemon' = [daemon EXCEPT !.tx.ready = TRUE, !.tx.pending = t]
    BY <1>1, <2>1, <2>2 DEF Tx, Daemon, TxState
  <2>4. daemon' \in Daemon
    BY <2>1, <2>3 DEF Daemon, TxState
  <2>5. QED
    BY <2>1, <2>2, <2>3, <2>4 DEF Tx, Daemon, TxState
<1>12. /\ sock' \in [Sessions -> Socket] /\ Conn'.up = w /\ sock'[s].down = sock[s].down
       /\ \A r \in Sessions : r # s => sock'[r] = sock[r]
  <2>1. sock \in [Sessions -> Socket] /\ sock' = [sock EXCEPT ![s].up = w]
    BY <1>1, <1>2, <1>8 DEF IInv, TypeInv, Conn
  <2>2. [sock[s] EXCEPT !.up = w] \in Socket
    BY <1>2 DEF Conn, Socket
  <2>3. /\ sock'[s] = [sock[s] EXCEPT !.up = w] /\ sock' \in [Sessions -> Socket]
        /\ \A r \in Sessions : r # s => sock'[r] = sock[r]
    BY <1>2, <2>1, <2>2
  <2>4. QED
    BY <1>2, <1>11, <2>3 DEF Conn, Socket
<1>13. TypeInv'
  BY <1>1, <1>10, <1>11, <1>12 DEF IInv, TypeInv
<1>14. bridge.lenTx[a + 1] = 0
  BY <1>1, <1>3 DEF BufferReady, TxRing
<1>15. TxRing'
  BY <1>1, <1>3, <1>11, <1>14 DEF TxRing
<1>16. RxRing'
  BY <1>1, <1>3, <1>10, <1>11, RingFrame
<1>17. UNCHANGED <<TxDone, TxFirst, TxSecond>>
  BY <1>1 DEF TxDone, TxFirst, TxSecond
<1>18. UpBuffers'
  <2>1. \A b \in 0 .. 1 : Len(dma'.tx[b]) \in Nat /\ 0 <= Len(dma'.tx[b])
    BY <1>10 DEF Dma
  <2>2. Seg(dma'.tx[k], TxDone, TxFirst, s, bridge.injected)
    <3>1. CASE a = k
      <4>1. bridge.txCount = 0
        BY <1>3, <1>14, <3>1 DEF TxRing
      <4>2. TxDone = 0
        BY <4>1, FlitTimes DEF TxDone
      <4>3. TxFirst = 0 - 0
        BY <1>14, <3>1, <4>2, FlitTimes DEF TxFirst
      <4>4. 0 - 0 = 0 /\ 0 \in Nat
        OBVIOUS
      <4>5. QED
        BY <1>2, <2>1, <4>2, <4>3, <4>4, SegEmpty
    <3>2. CASE a # k
      BY <1>2, <1>3, <1>10, <3>2 DEF UpBuffers
    <3>3. QED
      BY <3>1, <3>2
  <2>3. Seg(dma'.tx[Other(k)], 0, TxSecond, s, bridge.injected + TxFirst)
    <3>0. Other(k) \in 0 .. 1
      BY <1>2 DEF Other
    <3>1. CASE a = Other(k)
      <4>1. TxSecond = 0 /\ 0 \in Nat
        BY <1>14, <3>1, FlitTimes DEF TxSecond
      <4>2. QED
        BY <2>1, <3>0, <4>1, SegEmpty
    <3>2. CASE a # Other(k)
      BY <1>3, <1>10, <3>0, <3>2 DEF UpBuffers
    <3>3. QED
      BY <3>1, <3>2
  <2>4. Seg(dma'.tx[a], 0, Tx.pending + n, s, bridge.injected + TxFirst + TxSecond)
    BY <1>2, <1>5, <1>9, <1>10
  <2>5. QED
    BY <1>1, <1>4, <1>11, <1>17, <2>2, <2>3, <2>4 DEF UpBuffers
<1>19. UpSocket'
  <2>1. (bridge.injected + TxFirst + TxSecond + Tx.pending)' = (m + Tx.pending) + n
    <3>1. (bridge.injected + TxFirst + TxSecond)' = m
      BY <1>1, <1>5, <1>17
    <3>2. m + (Tx.pending + n) = (m + Tx.pending) + n
      BY <1>2, <1>4
    <3>3. QED
      BY <1>11, <3>1, <3>2
  <2>2. s = host.session => ((m + Tx.pending) + n) + Len(w) = host.sent
    <3>1. s = host.session => (m + Tx.pending) + Len(Conn.up) = host.sent
      BY <1>3, <1>5 DEF UpSocket
    <3>2. ((m + Tx.pending) + n) + (Len(Conn.up) - n) = (m + Tx.pending) + Len(Conn.up)
      BY <1>2, <1>4
    <3>3. QED
      BY <1>8, <3>1, <3>2
  <2>3. QED
    BY <1>1, <1>8, <1>11, <1>12, <2>1, <2>2 DEF UpSocket
<1>20. ASSUME s = host.session, host.st # "exit"
       PROVE  Down'
  <2>1. Down
    BY <1>1, <1>20 DEF IInv, BoardInv
  <2>2. QED
    BY <1>1, <1>10, <1>11, <1>12, <2>1, DownFrame
<1>21. QED
  BY <1>1, <1>11, <1>12, <1>13, <1>15, <1>16, <1>18, <1>19, <1>20, StreamStep

\* tx: the pending bytes, whole flits, are given to the board.
LEMMA BufferGiven ==
  ASSUME IInv, TxSend, UNCHANGED <<coreVars, host, emitted>>
  PROVE  IInv'
<1> DEFINE s == daemon.conn
           a == Tx.active
           k == bridge.txRead
           L == Tx.pending \div FlitBytes
<1>1. /\ UNCHANGED <<sock, dma, host, power, core, emitted>>
      /\ bridge' = [bridge EXCEPT !.lenTx[a + 1] = L]
      /\ daemon' = [daemon EXCEPT !.tx = [active |-> Other(a), ready |-> FALSE, pending |-> 0]]
      /\ Serving /\ Live /\ DoSend
  BY DEF TxSend, coreVars, Serving, Live
<1>2. /\ a \in 0 .. 1 /\ k \in 0 .. 1 /\ Other(a) \in 0 .. 1 /\ Other(k) \in 0 .. 1
      /\ Other(Other(a)) = a /\ Other(Other(k)) = k /\ Other(k) # k
      /\ a + 1 \in 1 .. 2 /\ Tx.pending \in Nat
  BY Numbers DEF IInv
<1>3. TxRing /\ RxRing /\ UpBuffers /\ UpSocket
  BY <1>1 DEF IInv, BoardInv
<1>4. Tx.pending # 0 /\ L \in Nat \ {0} /\ FlitBytes * L = Tx.pending
  <2>1. Tx.pending # 0 /\ (Tx.pending = DMABufferSize \/ Tx.pending % FlitBytes = 0)
    BY <1>1, FlitShape DEF DoSend
  <2>2. QED
    BY <1>2, <2>1, WholeFlits
<1> HIDE DEF L
<1>5. bridge.lenTx[a + 1] = 0
  BY <1>3, <1>4 DEF TxRing
<1>6. /\ bridge' \in BridgeState
      /\ \A b \in 0 .. 1 : bridge'.lenTx[b + 1] = IF b = a THEN L ELSE bridge.lenTx[b + 1]
      /\ UNCHANGED <<bridge.enabled, bridge.lenRx, bridge.txRead, bridge.txCount, bridge.rxWrite,
                     bridge.rxRead, bridge.rxCount, bridge.in, bridge.injected>>
  <2>1. bridge \in BridgeState
    BY DEF IInv, TypeInv
  <2>2. [bridge.lenTx EXCEPT ![a + 1] = L] \in [1 .. 2 -> Nat]
    BY <1>4, <2>1 DEF BridgeState
  <2>3. bridge' = [bridge EXCEPT !.lenTx = [bridge.lenTx EXCEPT ![a + 1] = L]]
    BY <1>1, <2>1 DEF BridgeState
  <2>4. bridge' \in BridgeState /\ bridge'.lenTx = [bridge.lenTx EXCEPT ![a + 1] = L]
        /\ UNCHANGED <<bridge.enabled, bridge.lenRx, bridge.txRead, bridge.txCount,
                       bridge.rxWrite, bridge.rxRead, bridge.rxCount, bridge.in,
                       bridge.injected>>
    BY <2>1, <2>2, <2>3 DEF BridgeState
  <2>5. ASSUME NEW b \in 0 .. 1
        PROVE  bridge'.lenTx[b + 1] = IF b = a THEN L ELSE bridge.lenTx[b + 1]
    <3>1. b + 1 \in 1 .. 2 /\ (b # a => b + 1 # a + 1)
      BY <1>2
    <3>2. bridge.lenTx \in [1 .. 2 -> Nat]
      BY <2>1 DEF BridgeState
    <3>3. QED
      BY <2>4, <3>1, <3>2
  <2>6. QED
    BY <2>4, <2>5
<1>7. /\ daemon' \in Daemon /\ UNCHANGED <<daemon.conn, daemon.st, daemon.rx>>
      /\ Tx'.active = Other(a) /\ Tx'.ready = FALSE /\ Tx'.pending = 0
  <2>1. daemon \in Daemon
    BY DEF IInv, TypeInv
  <2>2. [active |-> Other(a), ready |-> FALSE, pending |-> 0] \in TxState
    BY <1>2 DEF TxState
  <2>3. QED
    BY <1>1, <2>1, <2>2 DEF Tx, Daemon
<1>8. TypeInv'
  BY <1>1, <1>6, <1>7 DEF IInv, TypeInv
<1>9. RxRing'
  BY <1>1, <1>3, <1>6, <1>7, RingFrame
<1>10. TxDone' = TxDone
  BY <1>6 DEF TxDone
<1>11. ASSUME bridge.lenTx[k + 1] = 0
       PROVE  TxRing' /\ UpBuffers' /\ UpSocket'
  <2>1. a = k /\ bridge.txCount = 0 /\ bridge.lenTx[Other(k) + 1] = 0
    BY <1>3, <1>11 DEF TxRing
  <2>2. bridge'.lenTx[k + 1] = L /\ bridge'.lenTx[Other(k) + 1] = 0
    BY <1>2, <1>6, <2>1
  <2>3. TxRing'
    <3>1. bridge'.txCount < bridge'.lenTx[k + 1] /\ bridge'.lenTx[k + 1] # 0
      BY <1>4, <1>6, <2>1, <2>2
    <3>2. QED
      BY <1>6, <1>7, <2>1, <2>2, <3>1 DEF TxRing
  <2>4. TxDone = 0 /\ TxFirst = 0 /\ TxSecond = 0
    <3>1. TxDone = 0 /\ TxSecond = 0 /\ TxFirst = 0 - 0
      BY <1>11, <2>1, FlitTimes DEF TxDone, TxFirst, TxSecond
    <3>2. QED
      BY <3>1
  <2>5. TxFirst' = Tx.pending /\ TxSecond' = 0
    <3>1. TxFirst' = Tx.pending - 0
      BY <1>4, <1>6, <1>10, <2>2, <2>4 DEF TxFirst
    <3>2. TxSecond' = 0
      BY <1>6, <2>2, FlitTimes DEF TxSecond
    <3>3. QED
      BY <1>2, <3>1, <3>2
  <2>6. bridge.injected \in Nat /\ bridge.injected + 0 + 0 = bridge.injected
    BY Numbers DEF IInv
  <2>7. UpBuffers'
    <3>1. Seg(dma.tx[k], 0, Tx.pending, s, bridge.injected)
      BY <1>3, <2>1, <2>4, <2>6 DEF UpBuffers
    <3>2. Len(dma.tx[Other(k)]) \in Nat /\ 0 <= Len(dma.tx[Other(k)])
      BY <1>2, Numbers DEF IInv
    <3>3. /\ Seg(dma.tx[Other(k)], 0, 0, s, bridge.injected + Tx.pending)
          /\ Seg(dma.tx[Other(k)], 0, 0, s, bridge.injected + Tx.pending + 0)
      BY <3>2, SegEmpty
    <3>4. DMABufferSize \in Nat
      BY FlitShape
    <3>5. QED
      BY <1>1, <1>6, <1>7, <1>10, <2>1, <2>4, <2>5, <3>1, <3>3, <3>4 DEF UpBuffers
  <2>8. UpSocket'
    <3>1. (bridge.injected + TxFirst + TxSecond + Tx.pending)'
          = bridge.injected + TxFirst + TxSecond + Tx.pending
      <4>1. (bridge.injected + TxFirst + TxSecond + Tx.pending)' = bridge.injected + Tx.pending + 0 + 0
        BY <1>6, <1>7, <2>5
      <4>2. bridge.injected + TxFirst + TxSecond + Tx.pending = bridge.injected + 0 + 0 + Tx.pending
        BY <2>4
      <4>3. QED
        BY <1>2, <2>6, <4>1, <4>2
    <3>2. QED
      BY <1>1, <1>3, <1>7, <3>1 DEF UpSocket, Conn
  <2>9. QED
    BY <2>3, <2>7, <2>8
<1>12. ASSUME bridge.lenTx[k + 1] # 0
       PROVE  TxRing' /\ UpBuffers' /\ UpSocket'
  <2>1. a = Other(k) /\ bridge.txCount < bridge.lenTx[k + 1] /\ bridge.lenTx[Other(k) + 1] = 0
    BY <1>3, <1>5, <1>12 DEF TxRing
  <2>2. bridge'.lenTx[k + 1] = bridge.lenTx[k + 1] /\ bridge'.lenTx[Other(k) + 1] = L
    BY <1>2, <1>6, <2>1
  <2>3. TxRing'
    BY <1>2, <1>4, <1>6, <1>7, <1>12, <2>1, <2>2 DEF TxRing
  <2>4. TxFirst' = TxFirst
    BY <1>6, <1>10, <2>2 DEF TxFirst
  <2>5. TxSecond = 0 /\ TxSecond' = Tx.pending
    BY <1>4, <1>6, <2>1, <2>2, FlitTimes DEF TxSecond
  <2>6. bridge.injected \in Nat /\ TxFirst \in Nat
    BY <1>1, Amounts, Numbers DEF IInv
  <2>7. PICK m \in Nat : m = bridge.injected + TxFirst
    BY <2>6
  <2>8. UpBuffers'
    <3>1. m + 0 = m
      OBVIOUS
    <3>2. Seg(dma.tx[Other(k)], 0, Tx.pending, s, m)
      BY <1>3, <2>1, <2>5, <2>7, <3>1 DEF UpBuffers
    <3>3. Len(dma.tx[k]) \in Nat /\ 0 <= Len(dma.tx[k]) /\ 0 \in Nat
      BY <1>2, Numbers DEF IInv
    <3>4. Seg(dma.tx[k], 0, 0, s, m + Tx.pending)
      BY <3>3, SegEmpty
    <3>5. DMABufferSize \in Nat
      BY FlitShape
    <3>6. Tx'.active = k
      BY <1>2, <1>7, <2>1
    <3>7. QED
      BY <1>1, <1>3, <1>6, <1>7, <1>10, <2>1, <2>4, <2>5, <2>7, <3>2, <3>4, <3>5, <3>6
      DEF UpBuffers
  <2>9. UpSocket'
    <3>1. (bridge.injected + TxFirst + TxSecond + Tx.pending)'
          = bridge.injected + TxFirst + TxSecond + Tx.pending
      <4>1. (bridge.injected + TxFirst + TxSecond + Tx.pending)' = m + Tx.pending + 0
        BY <1>6, <1>7, <2>4, <2>5, <2>7
      <4>2. bridge.injected + TxFirst + TxSecond + Tx.pending = m + 0 + Tx.pending
        BY <2>5, <2>7
      <4>3. QED
        BY <1>2, <4>1, <4>2
    <3>2. QED
      BY <1>1, <1>3, <1>7, <3>1 DEF UpSocket, Conn
  <2>10. QED
    BY <2>3, <2>8, <2>9
<1>13. ASSUME s = host.session, host.st # "exit"
       PROVE  Down'
  <2>1. Down
    BY <1>1, <1>13 DEF IInv, BoardInv
  <2>2. QED
    BY <1>1, <1>6, <1>7, <2>1, DownFrame
<1>14. QED
  BY <1>1, <1>6, <1>7, <1>8, <1>9, <1>11, <1>12, <1>13, StreamStep

-----------------------------------------------------------------------------
(* consumeTxBuffers                                                        *)

\* What the board has read and how much is left.
LEMMA NextFlit ==
  ASSUME IInv, HasFlit
  PROVE  /\ Live /\ TxFlit \in Seq(Bytes)
         /\ TxFirst - FlitBytes \in Nat
         /\ FlitBytes * (bridge.txCount + 1) = TxDone + FlitBytes
         /\ bridge.txCount + 1 = bridge.lenTx[bridge.txRead + 1] => TxFirst = FlitBytes
         /\ bridge.txCount + 1 <= bridge.lenTx[bridge.txRead + 1]
<1> DEFINE k == bridge.txRead
<1>1. Live /\ bridge.lenTx[k + 1] # 0
  BY DEF HasFlit, IInv, BoardInv
<1>2. PICK c \in Nat, L \in Nat : c = bridge.txCount /\ L = bridge.lenTx[k + 1] /\ c < L
  BY <1>1, Numbers DEF IInv, BoardInv, TxRing
<1>3. PICK x \in Nat, y \in Nat, F \in Nat :
        /\ x = FlitBytes * c /\ y = FlitBytes * L /\ F = FlitBytes /\ x + F <= y
        /\ FlitBytes * (c + 1) = x + F
  BY <1>2, FlitTimes, FlitShape
<1>4. TxDone = x /\ TxFirst = y - x
  BY <1>2, <1>3 DEF TxDone, TxFirst
<1>5. TxFirst - FlitBytes \in Nat /\ FlitBytes * (bridge.txCount + 1) = TxDone + FlitBytes
  BY <1>2, <1>3, <1>4
<1>6. ASSUME c + 1 = L
      PROVE  TxFirst = FlitBytes
  BY <1>3, <1>4, <1>6
<1>7. TxFlit \in Seq(Bytes)
  <2>1. Seg(dma.tx[k], TxDone, TxFirst, daemon.conn, bridge.injected)
        /\ dma.tx[k] \in Seq(Bytes) /\ bridge.injected \in Nat
    BY <1>1, Numbers DEF IInv, BoardInv, UpBuffers
  <2>2. F <= TxFirst /\ TxFirst \in Int /\ x \in Nat
    BY <1>3, <1>4
  <2>3. Seg(dma.tx[k], x, F, daemon.conn, bridge.injected)
    <3>1. Seg(dma.tx[k], x, TxFirst, daemon.conn, bridge.injected) /\ Len(dma.tx[k]) \in Nat
      BY <1>4, <2>1
    <3>2. QED
      BY <1>3, <2>1, <2>2, <3>1, SegRest
  <2>4. SubSeq(dma.tx[k], x + 1, x + F) \in Seq(Bytes)
    BY <2>1, <2>3, SegSub
  <2>5. QED
    BY <1>2, <1>3, <2>4 DEF TxFlit
<1>8. c + 1 <= L
  BY <1>2
<1>9. QED
  BY <1>1, <1>2, <1>5, <1>6, <1>7, <1>8

\* A flit is taken from the stream.
LEMMA FlitConsumed ==
  ASSUME IInv, HasFlit, NEW h \in Seq(Bytes),
         bridge' = [Consumed(bridge) EXCEPT !.header = h], UNCHANGED <<sock, daemon, dma>>
  PROVE  /\ bridge' \in BridgeState
         /\ UNCHANGED <<bridge.enabled, bridge.lenRx, bridge.rxWrite, bridge.rxRead,
                        bridge.rxCount, bridge.in>>
         /\ TxRing' /\ UpBuffers'
         /\ (bridge.injected + TxFirst + TxSecond)' = bridge.injected + TxFirst + TxSecond
<1> DEFINE s == daemon.conn
           a == Tx.active
           k == bridge.txRead
           c == bridge.txCount
           L == bridge.lenTx[k + 1]
           j == bridge.injected
<1>1. /\ k \in 0 .. 1 /\ Other(k) \in 0 .. 1 /\ Other(Other(k)) = k /\ Other(k) # k
      /\ k + 1 \in 1 .. 2 /\ c \in Nat /\ L \in Nat /\ j \in Nat /\ s \in Nat
      /\ Tx.pending \in Nat /\ a \in 0 .. 1 /\ bridge.lenTx[Other(k) + 1] \in Nat
  BY Numbers DEF IInv
<1>2. Live /\ TxRing /\ UpBuffers /\ L # 0
  BY NextFlit DEF IInv, BoardInv, HasFlit
<1>3. bridge \in BridgeState
  BY DEF IInv, TypeInv
<1>4. PICK F \in Nat : F = FlitBytes /\ TxFirst - F \in Nat /\ j + F \in Nat
  <2>1. PICK F \in Nat : F = FlitBytes
    BY FlitShape
  <2>2. TxFirst - F \in Nat
    BY <2>1, NextFlit
  <2>3. j + F \in Nat
    BY <1>1
  <2>4. QED
    BY <2>1, <2>2, <2>3
<1>5. TxFirst \in Nat /\ TxSecond \in Nat /\ TxDone \in Nat
  BY <1>2, Amounts, Numbers DEF IInv
<1>6. /\ Seg(dma.tx[k], TxDone, TxFirst, s, j)
      /\ Seg(dma.tx[Other(k)], 0, TxSecond, s, j + TxFirst)
      /\ Seg(dma.tx[a], 0, Tx.pending, s, j + TxFirst + TxSecond)
      /\ Tx.pending <= DMABufferSize
  BY <1>2 DEF UpBuffers
<1>7. UNCHANGED <<Tx, DMABufferSize>>
  BY DEF Tx
<1>8. CASE c + 1 = L
  <2>1. Consumed(bridge) = [bridge EXCEPT !.lenTx[k + 1] = 0, !.txCount = 0, !.txRead = Other(k),
                                          !.injected = @ + FlitBytes]
    BY <1>8 DEF Consumed
  <2>2. bridge' = [bridge EXCEPT !.lenTx = [bridge.lenTx EXCEPT ![k + 1] = 0], !.txCount = 0,
                                 !.txRead = Other(k), !.injected = j + F, !.header = h]
    BY <1>3, <1>4, <2>1 DEF BridgeState
  <2>3. [bridge.lenTx EXCEPT ![k + 1] = 0] \in [1 .. 2 -> Nat]
    BY <1>3 DEF BridgeState
  <2>4. /\ bridge' \in BridgeState
        /\ bridge'.lenTx = [bridge.lenTx EXCEPT ![k + 1] = 0] /\ bridge'.txCount = 0
        /\ bridge'.txRead = Other(k) /\ bridge'.injected = j + F
        /\ UNCHANGED <<bridge.enabled, bridge.lenRx, bridge.rxWrite, bridge.rxRead,
                       bridge.rxCount, bridge.in>>
    BY <1>1, <1>3, <1>4, <2>2, <2>3 DEF BridgeState
  <2>5. bridge'.lenTx[k + 1] = 0 /\ bridge'.lenTx[Other(k) + 1] = bridge.lenTx[Other(k) + 1]
    <3>1. Other(k) + 1 # k + 1 /\ Other(k) + 1 \in 1 .. 2
      BY <1>1
    <3>2. bridge.lenTx \in [1 .. 2 -> Nat]
      BY <1>3 DEF BridgeState
    <3>3. QED
      BY <1>1, <2>4, <3>1, <3>2
  <2>6. TxRing'
    <3>1. CASE bridge.lenTx[Other(k) + 1] = 0
      <4>1. a = Other(k)
        BY <1>2, <3>1 DEF TxRing
      <4>2. QED
        BY <1>1, <1>2, <1>7, <2>4, <2>5, <3>1, <4>1 DEF TxRing
    <3>2. CASE bridge.lenTx[Other(k) + 1] # 0
      <4>1. a = k /\ 0 < bridge.lenTx[Other(k) + 1]
        BY <1>1, <1>2, <3>2 DEF TxRing
      <4>2. QED
        BY <1>1, <1>2, <1>7, <2>4, <2>5, <3>2, <4>1 DEF TxRing
    <3>3. QED
      BY <3>1, <3>2
  <2>7. TxFirst = F
    BY <1>4, <1>8, NextFlit
  <2>8. TxDone' = 0 /\ TxFirst' = TxSecond /\ TxSecond' = 0
    <3>1. TxDone' = 0
      BY <2>4, FlitTimes DEF TxDone
    <3>2. TxFirst' = TxSecond - 0
      BY <2>4, <2>5, <3>1 DEF TxFirst, TxSecond
    <3>3. TxSecond' = 0
      <4>1. bridge'.lenTx[Other(bridge'.txRead) + 1] = 0
        BY <1>1, <2>4, <2>5
      <4>2. QED
        BY <4>1, FlitTimes DEF TxSecond
    <3>4. QED
      BY <1>5, <3>1, <3>2, <3>3
  <2>9. (j + F) + TxSecond + 0 = (j + TxFirst) + TxSecond
    BY <1>1, <1>4, <1>5, <2>7
  <2>10. UpBuffers'
    <3>1. Len(dma.tx[k]) \in Nat /\ 0 <= Len(dma.tx[k]) /\ 0 \in Nat
      BY <1>1, Numbers DEF IInv
    <3>2. Seg(dma.tx[k], 0, 0, s, (j + F) + TxSecond)
      BY <3>1, SegEmpty
    <3>3. QED
      BY <1>1, <1>6, <1>7, <2>4, <2>7, <2>8, <2>9, <3>2 DEF UpBuffers
  <2>11. QED
    BY <2>4, <2>6, <2>8, <2>9, <2>10
<1>9. CASE c + 1 # L
  <2>1. Consumed(bridge) = [bridge EXCEPT !.txCount = @ + 1, !.injected = @ + FlitBytes]
    BY <1>9 DEF Consumed
  <2>2. PICK d \in Nat : d = c + 1 /\ d < L
    <3>1. c + 1 \in Nat /\ c + 1 <= L
      BY <1>1, NextFlit
    <3>2. QED
      BY <1>1, <1>9, <3>1
  <2>3. bridge' = [bridge EXCEPT !.txCount = d, !.injected = j + F, !.header = h]
    BY <1>3, <1>4, <2>1, <2>2 DEF BridgeState
  <2>4. /\ bridge' \in BridgeState
        /\ bridge'.txCount = d /\ bridge'.injected = j + F
        /\ UNCHANGED <<bridge.enabled, bridge.lenTx, bridge.txRead, bridge.lenRx,
                       bridge.rxWrite, bridge.rxRead, bridge.rxCount, bridge.in>>
    BY <1>3, <1>4, <2>3 DEF BridgeState
  <2>5. TxRing'
    BY <1>2, <1>7, <2>2, <2>4 DEF TxRing
  <2>6. TxDone' = TxDone + F /\ TxFirst' = TxFirst - F /\ TxSecond' = TxSecond
    <3>1. TxDone' = TxDone + F
      BY <1>4, <2>2, <2>4, NextFlit DEF TxDone
    <3>2. PICK y \in Nat : y = FlitBytes * L
      BY <1>1, FlitTimes
    <3>3. TxFirst = y - TxDone /\ TxFirst' = y - TxDone'
      BY <2>4, <3>2 DEF TxFirst
    <3>4. TxFirst' = TxFirst - F
      BY <1>4, <1>5, <3>1, <3>3
    <3>5. QED
      BY <2>4, <3>1, <3>4 DEF TxSecond
  <2>7. (j + F) + (TxFirst - F) = j + TxFirst
    BY <1>1, <1>4, <1>5
  <2>8. Seg(dma.tx[k], TxDone + F, TxFirst - F, s, j + F)
    <3>1. F <= TxFirst
      BY <1>4, <1>5
    <3>2. Len(dma.tx[k]) \in Nat
      BY <1>1, Numbers DEF IInv
    <3>3. PICK x \in Nat, y \in Int :
            x = TxDone /\ y = TxFirst /\ Seg(dma.tx[k], x, y, s, j)
      BY <1>5, <1>6
    <3>4. F <= y
      BY <3>1, <3>3
    <3>5. Seg(dma.tx[k], x + F, y - F, s, j + F)
      BY <1>1, <3>2, <3>3, <3>4, SegRest
    <3>6. QED
      BY <3>3, <3>5
  <2>9. UpBuffers'
    BY <1>6, <1>7, <2>4, <2>6, <2>7, <2>8 DEF UpBuffers
  <2>10. QED
    BY <2>4, <2>5, <2>6, <2>7, <2>9
<1>10. QED
  BY <1>8, <1>9

\* toLink0 and toLink1: the header, and the payload with what it does to the
\* core it is for.
LEMMA FlitTaken ==
  ASSUME IInv, HasFlit, NEW h \in Seq(Bytes),
         bridge' = [Consumed(bridge) EXCEPT !.header = h],
         UNCHANGED <<sock, daemon, dma, power, host, emitted>>,
         power = 0 => UNCHANGED core
  PROVE  IInv'
<1>1. /\ bridge' \in BridgeState
      /\ UNCHANGED <<bridge.enabled, bridge.lenRx, bridge.rxWrite, bridge.rxRead,
                     bridge.rxCount, bridge.in>>
      /\ TxRing' /\ UpBuffers'
      /\ (bridge.injected + TxFirst + TxSecond)' = bridge.injected + TxFirst + TxSecond
  BY FlitConsumed
<1>2. Live /\ RxRing
  BY NextFlit DEF IInv, BoardInv
<1>3. TypeInv'
  BY <1>1 DEF IInv, TypeInv
<1>4. BoardInv'
  <2>1. RxRing'
    BY <1>1, <1>2, RingFrame
  <2>2. Serving => UpSocket'
    BY <1>1 DEF IInv, BoardInv, UpSocket, Conn, Tx
  <2>3. ASSUME Serving, daemon.conn = host.session, host.st # "exit"
        PROVE  Down'
    BY <1>1, <2>3, DownFrame DEF IInv, BoardInv
  <2>4. bridge'.enabled = Live' /\ daemon'.conn # 0
    BY <1>1, <1>2 DEF IInv, BoardInv, Live
  <2>5. QED
    BY <1>1, <2>1, <2>2, <2>3, <2>4 DEF BoardInv, Serving
<1>5. WaitingInv'
  BY DEF IInv, WaitingInv
<1>6. PowerInv'
  <2>1. power # daemon.conn + 1
    BY <1>2 DEF IInv, PowerInv
  <2>2. QED
    BY <2>1 DEF IInv, PowerInv, Live
<1>7. QED
  BY <1>3, <1>4, <1>5, <1>6, HostSame DEF IInv

LEMMA HeaderTaken ==
  ASSUME IInv, TakeHeader, UNCHANGED <<coreVars, host, emitted>>
  PROVE  IInv'
<1>1. HasFlit /\ bridge' = [Consumed(bridge) EXCEPT !.header = TxFlit]
      /\ UNCHANGED <<sock, daemon, dma, power, core, host, emitted>>
  BY DEF TakeHeader, coreVars
<1>2. TxFlit \in Seq(Bytes)
  BY <1>1, NextFlit
<1>3. QED
  BY <1>1, <1>2, FlitTaken

LEMMA MessageInjected ==
  ASSUME IInv, Inject
  PROVE  IInv'
<1>1. HasFlit /\ bridge' = [Consumed(bridge) EXCEPT !.header = <<>>]
      /\ UNCHANGED <<sock, daemon, dma, power, host, emitted>> /\ power # 0
  BY DEF Inject, TakePayload, Arrive
<1>2. <<>> \in Seq(Bytes)
  OBVIOUS
<1>3. QED
  BY <1>1, <1>2, FlitTaken

-----------------------------------------------------------------------------
(* Steps of the stream: from the mesh to the client                        *)

\* A reply is padded and put behind those that wait.
LEMMA PaddedReply ==
  ASSUME NEW s \in Nat, NEW n \in Nat
  PROVE  LET q == [f \in 1 .. MaxFlitsPerMsg |->
                    [i \in 1 .. FlitBytes |-> Byte(s, n + (f - 1) * FlitBytes + i)]] IN
         /\ q \in Seq(Flit) /\ Len(q) = MaxFlitsPerMsg
         /\ \A f \in 1 .. MaxFlitsPerMsg : Seg(q[f], 0, FlitBytes, s, n + FlitBytes * (f - 1))
<1> DEFINE fl(f) == [i \in 1 .. FlitBytes |-> Byte(s, n + (f - 1) * FlitBytes + i)]
           q == [f \in 1 .. MaxFlitsPerMsg |-> fl(f)]
<1>1. ASSUME NEW f \in 1 .. MaxFlitsPerMsg
      PROVE  fl(f) \in Flit /\ Seg(fl(f), 0, FlitBytes, s, n + FlitBytes * (f - 1))
  <2>1. PICK g \in Nat : g = f - 1
    <3>1. f - 1 \in Nat
      BY FlitShape
    <3>2. QED
      BY <3>1
  <2>2. PICK m \in Nat : m = n + g * FlitBytes /\ m = n + FlitBytes * g
    <3>1. FlitBytes * g \in Nat /\ g * FlitBytes = FlitBytes * g
      BY FlitShape, FlitTimes
    <3>2. n + FlitBytes * g \in Nat
      BY <3>1
    <3>3. QED
      BY <3>1, <3>2
  <2>3. fl(f) = [i \in 1 .. FlitBytes |-> Byte(s, m + i)]
    BY <2>1, <2>2
  <2>4. /\ [i \in 1 .. FlitBytes |-> Byte(s, m + i)] \in Seq(Bytes)
        /\ Len([i \in 1 .. FlitBytes |-> Byte(s, m + i)]) = FlitBytes
        /\ Seg([i \in 1 .. FlitBytes |-> Byte(s, m + i)], 0,
               Len([i \in 1 .. FlitBytes |-> Byte(s, m + i)]), s, m)
    BY FlitShape, Run
  <2> HIDE DEF fl
  <2>5. QED
    BY <2>1, <2>2, <2>3, <2>4 DEF Flit
<1> HIDE DEF fl
<1>2. q \in Seq(Flit) /\ Len(q) = MaxFlitsPerMsg
  BY <1>1, FlitShape
<1>3. \A f \in 1 .. MaxFlitsPerMsg : Seg(q[f], 0, FlitBytes, s, n + FlitBytes * (f - 1))
  BY <1>1
<1>4. QED
  BY <1>2, <1>3 DEF fl

LEMMA ReplyEnters ==
  ASSUME IInv, NEW c \in Cores, Reply(c)
  PROVE  IInv'
<1> DEFINE s == daemon.conn
           fl == [f \in 1 .. MaxFlitsPerMsg |->
                   [i \in 1 .. FlitBytes |-> Byte(power, emitted + (f - 1) * FlitBytes + i)]]
<1>1. /\ UNCHANGED <<sock, daemon, dma, power, host>>
      /\ bridge' = [bridge EXCEPT !.in = @ \o fl]
      /\ emitted' = emitted + ReplyBytes
      /\ power # 0 /\ core[c].boot.sent # <<>>
  BY DEF Reply, Depart, FromLink
<1>2. power = s
  <2>1. power # s + 1
    <3>1. SUFFICES ASSUME power = s + 1
                   PROVE  FALSE
      OBVIOUS
    <3>2. core = [d \in Cores |-> NewCore]
      BY <3>1 DEF IInv, PowerInv
    <3>3. core[c].boot.sent = <<>>
      BY <3>2 DEF NewCore, NewBoot
    <3>4. QED
      BY <1>1, <3>3
  <2>2. QED
    BY <1>1, <2>1 DEF IInv, PowerInv
<1>3. PICK q \in Seq(Flit) :
        /\ q = fl /\ Len(q) = MaxFlitsPerMsg
        /\ \A f \in 1 .. MaxFlitsPerMsg : Seg(q[f], 0, FlitBytes, s, emitted + FlitBytes * (f - 1))
  BY <1>2, CallTypes, PaddedReply
<1>4. PICK p \in Seq(Flit) : p = bridge.in /\ Len(p) \in Nat
  BY Numbers DEF IInv
<1>5. PICK r \in Seq(Flit) :
        /\ r = p \o q /\ Len(r) = Len(p) + MaxFlitsPerMsg
        /\ \A f \in 1 .. Len(p) : r[f] = p[f]
        /\ \A f \in 1 .. MaxFlitsPerMsg : r[Len(p) + f] = q[f]
  <2>1. /\ p \o q \in Seq(Flit) /\ Len(p \o q) = Len(p) + Len(q)
        /\ \A f \in 1 .. Len(p) : (p \o q)[f] = p[f]
        /\ \A f \in 1 .. Len(q) : (p \o q)[Len(p) + f] = q[f]
    OBVIOUS
  <2>2. QED
    BY <1>3, <2>1
<1>6. bridge' = [bridge EXCEPT !.in = r]
  BY <1>1, <1>3, <1>4, <1>5 DEF IInv, TypeInv, BridgeState
<1>7. /\ bridge' \in BridgeState /\ bridge'.in = r
      /\ UNCHANGED <<bridge.enabled, bridge.lenTx, bridge.lenRx, bridge.txRead, bridge.txCount,
                     bridge.rxWrite, bridge.rxRead, bridge.rxCount, bridge.injected>>
  BY <1>6 DEF IInv, TypeInv, BridgeState
<1>8. emitted \in Nat /\ emitted' \in Nat
  BY <1>1, CallTypes
<1>9. TypeInv'
  BY <1>1, <1>7, <1>8 DEF IInv, TypeInv
<1>10. BoardInv'
  <2>1. bridge'.enabled = Live' /\ (Live' => daemon'.conn # 0 /\ TxRing' /\ RxRing' /\ UpBuffers')
    BY <1>1, <1>7, RingFrame, UpFrame DEF IInv, BoardInv, Live
  <2>2. Serving' => UpSocket'
    BY <1>1, <1>7, UpFrame DEF IInv, BoardInv, Serving
  <2>3. ASSUME Serving, s = host.session, host.st # "exit"
        PROVE  Down'
    <3>1. Down /\ host.st # "connect"
      BY <1>1, <1>2, <2>3 DEF IInv, BoardInv, PowerInv
    <3>2. UNCHANGED <<RxLen, RxFirst, RxSecond, Rx, Conn, host.recvd>>
      BY <1>1, <1>7 DEF RxLen, RxFirst, RxSecond, Rx, Conn
    <3>3. PICK n \in Nat : n = host.recvd + Len(Conn.down)
      <4>1. host.recvd \in Nat /\ Len(Conn.down) \in Nat
        BY <2>3, ServedSession, CallTypes DEF Live, Serving, Socket
      <4>2. host.recvd + Len(Conn.down) \in Nat
        BY <4>1
      <4>3. QED
        BY <4>2
    <3>4. PICK m \in Nat : m = n + RxFirst + RxSecond
      <4>1. RxFirst \in Nat /\ RxSecond \in Nat
        BY <2>3, Amounts, Numbers DEF Live, Serving, IInv
      <4>2. n + RxFirst + RxSecond \in Nat
        BY <4>1
      <4>3. QED
        BY <4>2
    <3>5. m + FlitBytes * Len(p) = emitted
      BY <1>2, <1>4, <3>1, <3>3, <3>4 DEF Down, DownTotal
    <3>6. \A f \in 1 .. Len(p) : Seg(p[f], 0, FlitBytes, s, m + FlitBytes * (f - 1))
      BY <1>4, <3>1, <3>3, <3>4 DEF Down
    <3>7. ASSUME NEW f \in 1 .. Len(r)
          PROVE  Seg(r[f], 0, FlitBytes, s, m + FlitBytes * (f - 1))
      <4>1. CASE f <= Len(p)
        <5>1. f \in 1 .. Len(p)
          BY <1>4, <4>1
        <5>2. QED
          BY <1>5, <3>6, <5>1
      <4>2. CASE ~ (f <= Len(p))
        <5>1. PICK g \in 1 .. MaxFlitsPerMsg : f = Len(p) + g
          <6>1. f - Len(p) \in 1 .. MaxFlitsPerMsg /\ f = Len(p) + (f - Len(p))
            BY <1>4, <1>5, <4>2, FlitShape
          <6>2. QED
            BY <6>1
        <5>2. PICK h \in Nat : h = g - 1 /\ f - 1 = Len(p) + h
          <6>1. g - 1 \in Nat /\ f - 1 = Len(p) + (g - 1)
            BY <1>4, <5>1, FlitShape
          <6>2. QED
            BY <6>1
        <5>3. FlitBytes * (f - 1) = FlitBytes * Len(p) + FlitBytes * h
          <6>1. \A x, y \in Nat : FlitBytes * (x + y) = FlitBytes * x + FlitBytes * y
            BY FlitTimes
          <6>2. FlitBytes * (Len(p) + h) = FlitBytes * Len(p) + FlitBytes * h
            BY <1>4, <6>1
          <6>3. QED
            BY <5>2, <6>2
        <5>4. m + FlitBytes * (f - 1) = emitted + FlitBytes * (g - 1)
          <6>1. PICK x \in Nat, y \in Nat : x = FlitBytes * Len(p) /\ y = FlitBytes * h
            BY <1>4, <5>2, FlitTimes
          <6>2. m + (x + y) = (m + x) + y
            OBVIOUS
          <6>3. QED
            BY <3>5, <5>2, <5>3, <6>1, <6>2
        <5>5. Seg(r[f], 0, FlitBytes, s, emitted + FlitBytes * (g - 1))
          BY <1>3, <1>5, <5>1
        <5>6. QED
          BY <5>4, <5>5
      <4>3. QED
        BY <4>1, <4>2
    <3>8. DownTotal' = emitted'
      <4>1. FlitBytes * Len(r) = FlitBytes * Len(p) + ReplyBytes
        <5>1. \A x, y \in Nat : FlitBytes * (x + y) = FlitBytes * x + FlitBytes * y
          BY FlitTimes
        <5>2. MaxFlitsPerMsg \in Nat /\ FlitBytes * MaxFlitsPerMsg = ReplyBytes
          BY FlitShape
        <5>3. FlitBytes * (Len(p) + MaxFlitsPerMsg)
              = FlitBytes * Len(p) + FlitBytes * MaxFlitsPerMsg
          BY <1>4, <5>1, <5>2
        <5>4. QED
          BY <1>5, <5>2, <5>3
      <4>2. PICK x \in Nat : x = FlitBytes * Len(p)
        BY <1>4, FlitTimes
      <4>3. DownTotal' = m + FlitBytes * Len(r)
        BY <1>1, <1>7, <3>2, <3>3, <3>4 DEF DownTotal
      <4>4. m + (x + ReplyBytes) = (m + x) + ReplyBytes
        BY FlitShape
      <4>5. QED
        BY <1>1, <3>5, <4>1, <4>2, <4>3, <4>4
    <3>9. QED
      BY <1>1, <1>2, <1>7, <3>1, <3>2, <3>3, <3>4, <3>7, <3>8 DEF Down
  <2>4. QED
    BY <1>1, <2>1, <2>2, <2>3 DEF BoardInv, Serving
<1>11. WaitingInv'
  BY <1>1 DEF IInv, WaitingInv
<1>12. PowerInv'
  <2>1. s \in Nat /\ power # s + 1 /\ power # 0
    <3>1. s \in Nat
      BY Numbers DEF IInv
    <3>2. QED
      BY <1>1, <1>2, <3>1
  <2>2. QED
    BY <1>1, <2>1 DEF IInv, PowerInv, Live
<1>13. QED
  BY <1>1, <1>9, <1>10, <1>11, <1>12, HostSame DEF IInv

LEMMA DownNumbers ==
  ASSUME IInv, Serving
  PROVE  /\ Conn.down \in Seq(Bytes) /\ Len(Conn.down) \in Nat
         /\ host.recvd \in Nat /\ host.recvd + Len(Conn.down) \in Nat
         /\ RxFirst \in Nat /\ RxSecond \in Nat
         /\ host.recvd + Len(Conn.down) + RxFirst \in Nat
         /\ host.recvd + Len(Conn.down) + RxFirst + RxSecond \in Nat
<1>1. Conn.down \in Seq(Bytes) /\ Len(Conn.down) \in Nat
  BY ServedSession DEF Live, Serving, Socket
<1>2. host.recvd \in Nat
  BY CallTypes
<1>3. RxFirst \in Nat /\ RxSecond \in Nat
  BY Amounts, Numbers DEF Live, Serving, IInv
<1>4. QED
  BY <1>1, <1>2, <1>3

\* fillRxBuffers: a flit goes from the board's queue to the buffer it fills.
LEMMA FlitFilled ==
  ASSUME IInv, FillRx, UNCHANGED <<coreVars, host, emitted>>
  PROVE  IInv'
<1> DEFINE s == daemon.conn
           a == Rx.active
           w == bridge.rxWrite
           c == bridge.rxCount
<1>1. /\ UNCHANGED <<sock, daemon, host, power, core, emitted>>
      /\ dma' = [dma EXCEPT !.rx[w] = SubSeq(@, 1, FlitBytes * c) \o Head(bridge.in)]
      /\ bridge' = [bridge EXCEPT !.in = Tail(@), !.rxCount = @ + 1]
      /\ bridge.in # <<>> /\ bridge.enabled
  BY DEF FillRx, coreVars
<1>2. Live /\ TxRing /\ RxRing /\ UpBuffers
  BY <1>1 DEF IInv, BoardInv
<1>3. /\ a \in 0 .. 1 /\ w \in 0 .. 1 /\ c \in Nat /\ s \in Nat
      /\ dma.rx[w] \in Seq(Bytes) /\ Len(dma.rx[w]) \in Nat
      /\ RxSecond \in Nat /\ RxLen \in Nat /\ Rx.written \in Nat
  BY Numbers DEF IInv
<1>4. PICK F \in Nat : F = FlitBytes /\ RxSecond + F \in Nat /\ c + 1 \in Nat
                       /\ FlitBytes * (c + 1) = RxSecond + F
  <2>1. FlitBytes \in Nat /\ FlitBytes * (c + 1) = RxSecond + FlitBytes
    BY <1>3, FlitShape, FlitTimes DEF RxSecond
  <2>2. RxSecond + FlitBytes \in Nat /\ c + 1 \in Nat
    BY <1>3, <2>1
  <2>3. QED
    BY <2>1, <2>2
<1>5. PICK p \in Seq(Flit), t \in Seq(Flit), hd \in Seq(Bytes) :
        /\ p = bridge.in /\ Len(p) \in Nat /\ 1 \in 1 .. Len(p)
        /\ t = Tail(p) /\ Len(t) = Len(p) - 1 /\ \A f \in 1 .. Len(t) : t[f] = p[f + 1]
        /\ hd = Head(p) /\ hd = p[1] /\ Len(hd) = F
  <2>1. PICK p \in Seq(Flit) : p = bridge.in /\ p # <<>>
    BY <1>1, Numbers DEF IInv
  <2>2. /\ Len(p) \in Nat /\ 1 \in 1 .. Len(p)
        /\ Tail(p) \in Seq(Flit) /\ Len(Tail(p)) = Len(p) - 1
        /\ \A f \in 1 .. Len(p) - 1 : Tail(p)[f] = p[f + 1]
        /\ Head(p) = p[1]
    BY <2>1
  <2>3. p[1] \in Flit
    BY <2>2, ElementOfSeq
  <2>4. p[1] \in Seq(Bytes) /\ Len(p[1]) = F
    BY <1>4, <2>3 DEF Flit
  <2>5. QED
    BY <2>1, <2>2, <2>4
<1>6. RxSecond <= Len(dma.rx[w])
  BY <1>2 DEF RxRing
<1>7. PICK u \in Seq(Bytes) : u = SubSeq(dma.rx[w], 1, RxSecond) /\ Len(u) = RxSecond
                              /\ \A i \in 1 .. RxSecond : u[i] = dma.rx[w][i]
  <2>1. \A i \in 1 .. RxSecond : dma.rx[w][i] \in Bytes
    BY <1>3, <1>6, ElementOfSeq
  <2>2. SubSeq(dma.rx[w], 1, RxSecond) \in Seq(Bytes)
        /\ Len(SubSeq(dma.rx[w], 1, RxSecond)) = RxSecond
    BY <1>3, <1>6, <2>1, SubSeqProperties
  <2>3. \A i \in 1 .. RxSecond : SubSeq(dma.rx[w], 1, RxSecond)[i] = dma.rx[w][i]
    BY <1>3, <1>6
  <2>4. QED
    BY <2>2, <2>3
<1>8. PICK x \in Seq(Bytes) : x = u \o hd /\ Len(x) = RxSecond + F
  <2>1. u \o hd \in Seq(Bytes) /\ Len(u \o hd) = Len(u) + Len(hd)
    OBVIOUS
  <2>2. QED
    BY <1>5, <1>7, <2>1
<1>9. /\ dma' \in Dma /\ dma'.tx = dma.tx
      /\ \A b \in 0 .. 1 : dma'.rx[b] = IF b = w THEN x ELSE dma.rx[b]
  <2>1. dma \in Dma
    BY DEF IInv, TypeInv
  <2>2. dma' = [dma EXCEPT !.rx[w] = x]
    BY <1>1, <1>3, <1>5, <1>7, <1>8, <2>1 DEF Dma, RxSecond
  <2>3. QED
    BY <1>3, <2>1, <2>2 DEF Dma
<1>10. /\ bridge' \in BridgeState /\ bridge'.in = t /\ bridge'.rxCount = c + 1
       /\ UNCHANGED <<bridge.enabled, bridge.lenTx, bridge.lenRx, bridge.txRead, bridge.txCount,
                      bridge.rxWrite, bridge.rxRead, bridge.injected>>
  <2>1. bridge \in BridgeState
    BY DEF IInv, TypeInv
  <2>2. PICK d \in Nat : d = c + 1
    BY <1>4
  <2>3. bridge' = [bridge EXCEPT !.in = t, !.rxCount = d]
    BY <1>1, <1>5, <2>1, <2>2 DEF BridgeState
  <2>4. QED
    BY <2>1, <2>2, <2>3 DEF BridgeState
<1>11. TypeInv'
  BY <1>1, <1>9, <1>10 DEF IInv, TypeInv
<1>12. RxSecond' = RxSecond + F /\ RxLen' = RxLen /\ RxFirst' = RxFirst /\ Rx' = Rx
  BY <1>1, <1>4, <1>10 DEF RxSecond, RxLen, RxFirst, Rx
<1>13. ASSUME w = a
       PROVE  RxLen = 0 /\ RxFirst = 0 /\ Rx.written = 0
  <2>1. bridge.lenRx[a + 1] = 0
    <3>1. Other(a) # a
      BY <1>3 DEF Other
    <3>2. QED
      BY <1>2, <1>13, <3>1 DEF RxRing
  <2>2. RxLen = 0
    BY <2>1, FlitTimes DEF RxLen
  <2>3. Rx.written = 0
    BY <1>2, <1>3, <2>2 DEF RxRing
  <2>4. QED
    BY <2>2, <2>3 DEF RxFirst
<1>14. RxRing'
  <2>1. RxLen <= Len(dma'.rx[a])
    <3>1. CASE w = a
      BY <1>3, <1>8, <1>9, <1>13, <3>1, <1>4
    <3>2. CASE w # a
      BY <1>2, <1>3, <1>9, <3>2 DEF RxRing
    <3>3. QED
      BY <3>1, <3>2
  <2>2. RxSecond' <= Len(dma'.rx[w])
    <3>1. dma'.rx[w] = x /\ RxSecond' = Len(x)
      BY <1>3, <1>8, <1>9, <1>12
    <3>2. Len(x) \in Nat /\ Len(x) <= Len(x)
      BY <1>4, <1>8
    <3>3. QED
      BY <3>1, <3>2
  <2>3. QED
    BY <1>2, <1>10, <1>12, <2>1, <2>2 DEF RxRing
<1>15. TxRing' /\ UpBuffers'
  BY <1>1, <1>2, <1>9, <1>10, RingFrame, UpFrame
<1>16. Serving => UpSocket'
  BY <1>1, <1>10, UpFrame DEF IInv, BoardInv
<1>17. ASSUME Serving, s = host.session, host.st # "exit"
       PROVE  Down'
  <2>1. Down
    BY <1>17 DEF IInv, BoardInv
  <2>2. PICK n \in Nat : n = host.recvd + Len(Conn.down)
    BY <1>17, DownNumbers
  <2>3. PICK m \in Nat : m = n + RxFirst /\ n + RxFirst + RxSecond = m + RxSecond
    BY <1>17, <2>2, DownNumbers
  <2>4. UNCHANGED <<Conn, host.recvd>>
    BY <1>1 DEF Conn
  <2>5. Seg(dma'.rx[a], Rx.written, RxFirst, s, n)
    <3>1. CASE w = a
      <4>1. Len(dma'.rx[a]) \in Nat /\ 0 <= Len(dma'.rx[a]) /\ 0 \in Nat
        BY <1>3, <1>4, <1>8, <1>9, <3>1
      <4>2. QED
        BY <1>13, <3>1, <4>1, SegEmpty
    <3>2. CASE w # a
      BY <1>3, <1>9, <2>1, <2>2, <3>2 DEF Down
    <3>3. QED
      BY <3>1, <3>2
  <2>6. \A f \in 1 .. Len(p) : Seg(p[f], 0, FlitBytes, s, (m + RxSecond) + FlitBytes * (f - 1))
    BY <1>5, <2>1, <2>2, <2>3 DEF Down
  <2>7. Seg(dma'.rx[w], 0, RxSecond + F, s, m)
    <3>1. Seg(dma.rx[w], 0, RxSecond, s, m)
      BY <2>1, <2>2, <2>3 DEF Down
    <3>2. Seg(u, 0, Len(u), s, m)
      <4>1. \A i \in 1 .. RxSecond : u[0 + i] = Byte(s, m + i)
        <5>1. SUFFICES ASSUME NEW i \in 1 .. RxSecond
                       PROVE  u[0 + i] = Byte(s, m + i)
          OBVIOUS
        <5>2. 0 + i = i
          OBVIOUS
        <5>3. dma.rx[w][0 + i] = Byte(s, m + i)
          BY <3>1 DEF Seg
        <5>4. QED
          BY <1>7, <5>2, <5>3
      <4>2. QED
        BY <1>3, <1>7, <4>1 DEF Seg
    <3>3. Seg(hd, 0, Len(hd), s, m + Len(u))
      <4>1. Seg(p[1], 0, FlitBytes, s, (m + RxSecond) + FlitBytes * (1 - 1))
        BY <1>5, <2>6
      <4>2. FlitBytes * (1 - 1) = 0 /\ (m + RxSecond) + 0 = m + RxSecond
        BY <1>3, FlitTimes
      <4>3. QED
        BY <1>4, <1>5, <1>7, <4>1, <4>2
    <3>4. Seg(u \o hd, 0, Len(u \o hd), s, m)
      BY <3>2, <3>3, SegConcat
    <3>5. QED
      BY <1>3, <1>8, <1>9, <3>4
  <2>8. ASSUME NEW f \in 1 .. Len(t)
        PROVE  Seg(t[f], 0, FlitBytes, s, (m + (RxSecond + F)) + FlitBytes * (f - 1))
    <3>1. PICK g \in Nat : g = f - 1 /\ f = g + 1 /\ f + 1 \in 1 .. Len(p) /\ (f + 1) - 1 = g + 1
      <4>1. f - 1 \in Nat /\ f = (f - 1) + 1 /\ f + 1 \in 1 .. Len(p) /\ (f + 1) - 1 = (f - 1) + 1
        BY <1>5
      <4>2. QED
        BY <4>1
    <3>2. Seg(p[f + 1], 0, FlitBytes, s, (m + RxSecond) + FlitBytes * (g + 1))
      BY <2>6, <3>1
    <3>3. (m + RxSecond) + FlitBytes * (g + 1) = (m + (RxSecond + F)) + FlitBytes * g
      <4>1. PICK y \in Nat : y = FlitBytes * g /\ FlitBytes * (g + 1) = y + F
        BY <1>4, FlitTimes
      <4>2. (m + RxSecond) + (y + F) = (m + (RxSecond + F)) + y
        BY <1>3
      <4>3. QED
        BY <4>1, <4>2
    <3>4. QED
      BY <1>5, <3>1, <3>2, <3>3
  <2>9. DownTotal' = DownTotal
    <3>1. PICK g \in Nat : g = Len(t) /\ Len(p) = g + 1
      <4>1. Len(t) \in Nat
        OBVIOUS
      <4>2. Len(p) = Len(t) + 1
        BY <1>5, <4>1
      <4>3. QED
        BY <4>1, <4>2
    <3>2. PICK y \in Nat : y = FlitBytes * g /\ FlitBytes * (g + 1) = y + F
      BY <1>4, FlitTimes
    <3>3. DownTotal = (m + RxSecond) + (y + F)
      BY <1>5, <2>2, <2>3, <3>1, <3>2 DEF DownTotal
    <3>4. DownTotal' = (m + (RxSecond + F)) + y
      BY <1>10, <1>12, <2>2, <2>3, <2>4, <3>1, <3>2 DEF DownTotal
    <3>5. (m + RxSecond) + (y + F) = (m + (RxSecond + F)) + y
      BY <1>3
    <3>6. QED
      BY <3>3, <3>4, <3>5
  <2>10. QED
    BY <1>1, <1>10, <1>12, <2>1, <2>2, <2>3, <2>4, <2>5, <2>7, <2>8, <2>9 DEF Down
<1>18. QED
  BY <1>1, <1>10, <1>11, <1>14, <1>15, <1>16, <1>17, StreamStep

\* A full buffer, or the last flits before a pause, are given to the host.
LEMMA BufferFlushed ==
  ASSUME IInv, FlushRx, UNCHANGED <<coreVars, host, emitted>>
  PROVE  IInv'
<1> DEFINE s == daemon.conn
           a == Rx.active
           c == bridge.rxCount
<1>1. /\ UNCHANGED <<sock, daemon, dma, host, power, core, emitted>>
      /\ bridge.enabled /\ bridge.rxRead = bridge.rxWrite
      /\ bridge' = [bridge EXCEPT !.lenRx[bridge.rxWrite + 1] = c, !.rxCount = 0,
                                  !.rxWrite = Other(bridge.rxWrite)]
      /\ c = DMAFlits \/ c # 0
  BY DEF FlushRx, coreVars
<1>2. Live /\ TxRing /\ RxRing /\ UpBuffers
  BY <1>1 DEF IInv, BoardInv
<1>3. /\ a \in 0 .. 1 /\ c \in Nat /\ c # 0 /\ s \in Nat /\ a + 1 \in 1 .. 2
      /\ Other(a) \in 0 .. 1 /\ Other(a) # a /\ Other(a) + 1 \in 1 .. 2
  BY <1>1, Numbers, FlitShape DEF IInv
<1>4. RxSecond \in Nat /\ RxLen \in Nat /\ Rx.written \in Nat
  BY Numbers DEF IInv
<1>5. bridge.rxWrite = a /\ bridge.lenRx[a + 1] = 0 /\ bridge.lenRx[Other(a) + 1] = 0
  BY <1>1, <1>2, <1>3 DEF RxRing
<1>6. RxLen = 0 /\ Rx.written = 0 /\ Rx.available = 0 /\ RxFirst = 0
  <2>1. RxLen = 0
    BY <1>5, FlitTimes DEF RxLen
  <2>2. Rx.written = 0
    BY <1>2, <1>4, <2>1 DEF RxRing
  <2>3. Rx.available = 0
    BY <1>2, <2>1 DEF RxRing
  <2>4. QED
    BY <2>1, <2>2, <2>3 DEF RxFirst
<1>7. /\ bridge' \in BridgeState /\ bridge'.lenRx[a + 1] = c /\ bridge'.lenRx[Other(a) + 1] = 0
      /\ bridge'.rxCount = 0 /\ bridge'.rxWrite = Other(a)
      /\ UNCHANGED <<bridge.enabled, bridge.lenTx, bridge.txRead, bridge.txCount,
                     bridge.rxRead, bridge.in, bridge.injected>>
  <2>1. bridge \in BridgeState /\ bridge.lenRx \in [1 .. 2 -> Nat]
    BY DEF IInv, TypeInv, BridgeState
  <2>2. PICK l \in [1 .. 2 -> Nat] : l = [bridge.lenRx EXCEPT ![a + 1] = c]
    BY <1>3, <2>1
  <2>3. bridge' = [bridge EXCEPT !.lenRx = l, !.rxCount = 0, !.rxWrite = Other(a)]
    BY <1>1, <1>5, <2>1, <2>2 DEF BridgeState
  <2>4. /\ bridge' \in BridgeState /\ bridge'.lenRx = l
        /\ bridge'.rxCount = 0 /\ bridge'.rxWrite = Other(a)
        /\ UNCHANGED <<bridge.enabled, bridge.lenTx, bridge.txRead, bridge.txCount,
                       bridge.rxRead, bridge.in, bridge.injected>>
    BY <1>3, <2>1, <2>3 DEF BridgeState
  <2>5. l[a + 1] = c /\ l[Other(a) + 1] = bridge.lenRx[Other(a) + 1]
    <3>1. a + 1 # Other(a) + 1
      BY <1>3
    <3>2. QED
      BY <1>3, <2>1, <2>2, <3>1
  <2>6. QED
    BY <1>5, <2>4, <2>5
<1>8. Rx' = Rx /\ RxLen' = RxSecond /\ RxFirst' = RxSecond /\ RxSecond' = 0
  <2>1. Rx' = Rx
    BY <1>1 DEF Rx
  <2>2. RxLen' = RxSecond
    BY <1>7, <2>1 DEF RxLen, RxSecond
  <2>3. RxSecond' = 0
    BY <1>7, FlitTimes DEF RxSecond
  <2>4. RxFirst' = RxSecond - 0
    BY <1>6, <2>1, <2>2 DEF RxFirst
  <2>5. QED
    BY <1>4, <2>1, <2>2, <2>3, <2>4
<1>9. TypeInv'
  BY <1>1, <1>7 DEF IInv, TypeInv
<1>10. RxRing'
  <2>1. RxSecond <= Len(dma.rx[a])
    BY <1>2, <1>5 DEF RxRing
  <2>2. 0 <= Len(dma.rx[Other(a)])
    BY <1>3, Numbers DEF IInv
  <2>3. QED
    BY <1>1, <1>2, <1>3, <1>5, <1>6, <1>7, <1>8, <2>1, <2>2 DEF RxRing
<1>11. TxRing' /\ UpBuffers'
  BY <1>1, <1>2, <1>7, RingFrame, UpFrame
<1>12. Serving => UpSocket'
  BY <1>1, <1>7, UpFrame DEF IInv, BoardInv
<1>13. ASSUME Serving, s = host.session, host.st # "exit"
       PROVE  Down'
  <2>1. Down
    BY <1>13 DEF IInv, BoardInv
  <2>2. PICK n \in Nat : n = host.recvd + Len(Conn.down)
    BY <1>13, DownNumbers
  <2>3. n + RxFirst = n /\ n + RxFirst + RxSecond = n + RxSecond /\ n + RxSecond + 0 = n + RxSecond
    BY <1>4, <1>6
  <2>4. UNCHANGED <<Conn, host.recvd>>
    BY <1>1 DEF Conn
  <2>5. Seg(dma.rx[a], Rx.written, RxSecond, s, n)
    BY <1>5, <1>6, <2>1, <2>2, <2>3 DEF Down
  <2>6. Seg(dma.rx[Other(a)], 0, 0, s, n + RxSecond)
    <3>1. Len(dma.rx[Other(a)]) \in Nat /\ 0 <= Len(dma.rx[Other(a)]) /\ 0 \in Nat
      BY <1>3, Numbers DEF IInv
    <3>2. QED
      BY <3>1, SegEmpty
  <2>7. DownTotal' = DownTotal
    BY <1>7, <1>8, <2>2, <2>3, <2>4 DEF DownTotal
  <2>8. QED
    BY <1>1, <1>7, <1>8, <2>1, <2>2, <2>3, <2>4, <2>5, <2>6, <2>7 DEF Down
<1>14. QED
  BY <1>1, <1>7, <1>9, <1>10, <1>11, <1>12, <1>13, StreamStep

\* rx: what fits of the buffer goes to the client; a buffer written out goes
\* back to the board.
LEMMA BufferWritten ==
  ASSUME IInv, RxWrite, UNCHANGED <<coreVars, host, emitted>>
  PROVE  IInv'
<1> DEFINE s == daemon.conn
           a == Rx.active
           n == MinOf(Available - Rx.written, Room(Conn.down))
           Out == /\ bridge' = [bridge EXCEPT !.lenRx[a + 1] = 0, !.rxRead = Other(a)]
                  /\ daemon' = [daemon EXCEPT !.rx = [NewRx EXCEPT !.active = Other(a)]]
           Part == /\ daemon' = [daemon EXCEPT !.rx.written = @ + n, !.rx.available = Available]
                   /\ UNCHANGED bridge
<1>1. /\ UNCHANGED <<dma, host, power, core, emitted>>
      /\ Serving /\ Live /\ Available # 0 /\ Room(Conn.down) > 0
      /\ sock' = [sock EXCEPT ![s].down =
                   @ \o SubSeq(dma.rx[a], Rx.written + 1, Rx.written + n)]
      /\ IF Rx.written + n = Available THEN Out ELSE Part
  BY DEF RxWrite, coreVars, Serving, Live
<1>2. TxRing /\ RxRing /\ UpBuffers /\ UpSocket
  BY <1>1 DEF IInv, BoardInv
<1>3. /\ a \in 0 .. 1 /\ s \in Nat /\ dma.rx[a] \in Seq(Bytes) /\ Len(dma.rx[a]) \in Nat
      /\ RxLen \in Nat /\ Rx.written \in Nat /\ Rx.available \in Nat /\ RxSecond \in Nat
      /\ Other(a) \in 0 .. 1 /\ Other(a) # a /\ Other(Other(a)) = a
      /\ a + 1 \in 1 .. 2 /\ Other(a) + 1 \in 1 .. 2
  BY Numbers DEF IInv
<1>4. s \in Sessions /\ sock \in [Sessions -> Socket] /\ sock[s] \in Socket
      /\ Conn.down \in Seq(Bytes) /\ Len(Conn.down) \in Nat
  BY <1>1, ServedSession, DownNumbers DEF IInv, TypeInv
<1>5. Available = RxLen /\ RxLen # 0 /\ Rx.written < RxLen
  <2>1. Available = RxLen
    BY <1>2 DEF RxRing, Available, RxLen
  <2>2. RxLen # 0
    BY <1>1, <2>1
  <2>3. QED
    BY <1>2, <1>3, <2>1, <2>2 DEF RxRing
<1>6. n \in Nat /\ Rx.written + n <= RxLen /\ Rx.written + n \in Nat
  <2>1. Room(Conn.down) \in Nat
    BY <1>1, <1>4, FlitShape DEF Room
  <2>2. Available - Rx.written \in Nat
    BY <1>3, <1>5
  <2>3. n \in Nat /\ n <= Available - Rx.written
    BY <2>1, <2>2 DEF MinOf
  <2> HIDE DEF n
  <2>4. QED
    BY <1>3, <1>5, <2>3
<1> HIDE DEF n
<1>7. RxLen <= Len(dma.rx[a])
  BY <1>2 DEF RxRing
<1>8. PICK v \in Seq(Bytes) :
        /\ v = SubSeq(dma.rx[a], Rx.written + 1, Rx.written + n) /\ Len(v) = n
        /\ \A i \in 1 .. n : v[i] = dma.rx[a][Rx.written + i]
  <2>1. PICK p \in Seq(Bytes), x \in Nat : p = dma.rx[a] /\ x = Rx.written
    BY <1>3
  <2>2. x + n <= Len(p)
    BY <1>3, <1>6, <1>7, <2>1
  <2>3. /\ SubSeq(p, x + 1, x + n) \in Seq(Bytes) /\ Len(SubSeq(p, x + 1, x + n)) = n
        /\ \A i \in 1 .. n : SubSeq(p, x + 1, x + n)[i] = p[x + i]
    BY <1>6, <2>2, Piece
  <2>4. QED
    BY <2>1, <2>3
<1>9. PICK u \in Seq(Bytes) : u = Conn.down \o v /\ Len(u) = Len(Conn.down) + n
  <2>1. PICK p \in Seq(Bytes) : p = Conn.down
    BY <1>4
  <2>2. p \o v \in Seq(Bytes) /\ Len(p \o v) = Len(p) + Len(v)
    OBVIOUS
  <2>3. QED
    BY <1>8, <2>1, <2>2
<1>10. /\ sock' \in [Sessions -> Socket] /\ sock'[s].down = u /\ sock'[s].up = sock[s].up
       /\ \A r \in Sessions : r # s => sock'[r] = sock[r]
  <2>1. sock' = [sock EXCEPT ![s].down = u]
    BY <1>1, <1>4, <1>8, <1>9 DEF Conn
  <2>2. [sock[s] EXCEPT !.down = u] \in Socket
    BY <1>4 DEF Socket
  <2>3. /\ sock'[s] = [sock[s] EXCEPT !.down = u] /\ sock' \in [Sessions -> Socket]
        /\ \A r \in Sessions : r # s => sock'[r] = sock[r]
    BY <1>4, <2>1, <2>2
  <2>4. QED
    BY <1>4, <2>3 DEF Socket
<1>11. daemon \in Daemon /\ bridge \in BridgeState
  BY DEF IInv, TypeInv
<1>12. ASSUME Serving, s = host.session, host.st # "exit"
       PROVE  /\ Down
              /\ \E m \in Nat : /\ m = host.recvd + Len(Conn.down)
                                /\ host.recvd + Len(u) = m + n
                                /\ Seg(u, 0, Len(u), s, host.recvd)
  <2>1. Down
    BY <1>12 DEF IInv, BoardInv
  <2>2. PICK r \in Nat, m \in Nat : r = host.recvd /\ m = r + Len(Conn.down)
    BY <1>12, DownNumbers
  <2>3. r + Len(u) = m + n
    BY <1>4, <1>6, <1>9, <2>2
  <2>4. Seg(Conn.down, 0, Len(Conn.down), s, r)
    BY <2>1, <2>2 DEF Down
  <2>5. Seg(v, 0, Len(v), s, m)
    <3>1. Seg(dma.rx[a], Rx.written, RxFirst, s, m)
      BY <2>1, <2>2 DEF Down
    <3>2. \A i \in 1 .. n : i \in 1 .. RxFirst
      BY <1>3, <1>6 DEF RxFirst
    <3>3. \A i \in 1 .. n : v[0 + i] = Byte(s, m + i)
      <4>1. SUFFICES ASSUME NEW i \in 1 .. n
                     PROVE  v[0 + i] = Byte(s, m + i)
        OBVIOUS
      <4>2. 0 + i = i
        OBVIOUS
      <4>3. i \in 1 .. RxFirst
        BY <3>2
      <4>4. dma.rx[a][Rx.written + i] = Byte(s, m + i)
        BY <3>1, <4>3 DEF Seg
      <4>5. QED
        BY <1>8, <4>2, <4>4
    <3>4. QED
      BY <1>6, <1>8, <3>3 DEF Seg
  <2>6. Seg(u, 0, Len(u), s, r)
    BY <1>4, <1>9, <2>2, <2>4, <2>5, SegConcat
  <2>7. QED
    BY <2>1, <2>2, <2>3, <2>6
<1>13. CASE Rx.written + n = Available
  <2>1. Out /\ Rx.written + n = RxLen
    BY <1>1, <1>5, <1>13
  <2>2. /\ daemon' \in Daemon /\ UNCHANGED <<daemon.conn, daemon.st, daemon.tx>>
        /\ Rx'.active = Other(a) /\ Rx'.written = 0 /\ Rx'.available = 0
    <3>1. [NewRx EXCEPT !.active = Other(a)] = [active |-> Other(a), written |-> 0, available |-> 0]
      BY DEF NewRx
    <3>2. [active |-> Other(a), written |-> 0, available |-> 0] \in RxState
      BY <1>3 DEF RxState
    <3>3. daemon' = [daemon EXCEPT !.rx = [active |-> Other(a), written |-> 0, available |-> 0]]
      BY <2>1, <3>1
    <3>4. QED
      BY <1>11, <3>2, <3>3 DEF Daemon, Rx
  <2>3. /\ bridge' \in BridgeState /\ bridge'.rxRead = Other(a)
        /\ bridge'.lenRx[a + 1] = 0 /\ bridge'.lenRx[Other(a) + 1] = bridge.lenRx[Other(a) + 1]
        /\ UNCHANGED <<bridge.enabled, bridge.lenTx, bridge.txRead, bridge.txCount,
                       bridge.rxWrite, bridge.rxCount, bridge.in, bridge.injected>>
    <3>1. bridge.lenRx \in [1 .. 2 -> Nat]
      BY <1>11 DEF BridgeState
    <3>2. PICK l \in [1 .. 2 -> Nat] : l = [bridge.lenRx EXCEPT ![a + 1] = 0]
      BY <1>3, <3>1
    <3>3. bridge' = [bridge EXCEPT !.lenRx = l, !.rxRead = Other(a)]
      BY <1>11, <2>1, <3>2 DEF BridgeState
    <3>4. /\ bridge' \in BridgeState /\ bridge'.rxRead = Other(a) /\ bridge'.lenRx = l
          /\ UNCHANGED <<bridge.enabled, bridge.lenTx, bridge.txRead, bridge.txCount,
                         bridge.rxWrite, bridge.rxCount, bridge.in, bridge.injected>>
      BY <1>3, <1>11, <3>3 DEF BridgeState
    <3>5. l[a + 1] = 0 /\ l[Other(a) + 1] = bridge.lenRx[Other(a) + 1]
      <4>1. a + 1 # Other(a) + 1
        BY <1>3
      <4>2. QED
        BY <1>3, <3>1, <3>2, <4>1
    <3>6. QED
      BY <3>4, <3>5
  <2>4. TypeInv'
    BY <1>1, <1>10, <2>2, <2>3 DEF IInv, TypeInv
  <2>5. bridge.lenRx[Other(a) + 1] = 0 /\ bridge.lenRx[a + 1] # 0 /\ bridge.rxWrite = Other(a)
    <3>1. bridge.lenRx[a + 1] # 0
      BY <1>5, FlitTimes DEF RxLen
    <3>2. QED
      BY <1>2, <3>1 DEF RxRing
  <2>6. RxLen' = 0 /\ RxFirst' = 0 /\ RxSecond' = RxSecond
    <3>1. RxLen' = 0
      BY <2>2, <2>3, <2>5, FlitTimes DEF RxLen
    <3>2. RxFirst' = 0 - 0
      BY <2>2, <3>1 DEF RxFirst
    <3>3. RxSecond' = RxSecond
      BY <2>3 DEF RxSecond
    <3>4. QED
      BY <3>1, <3>2, <3>3
  <2>7. Len(dma.rx[Other(a)]) \in Nat /\ 0 <= Len(dma.rx[Other(a)])
    BY <1>3, Numbers DEF IInv
  <2>8. RxRing'
    BY <1>1, <1>2, <1>3, <2>2, <2>3, <2>5, <2>6, <2>7 DEF RxRing
  <2>9. TxRing' /\ UpBuffers'
    BY <1>1, <1>2, <2>2, <2>3, RingFrame, UpFrame
  <2>10. UpSocket'
    BY <1>1, <1>2, <1>10, <2>2, <2>3, UpFrame
  <2>11. ASSUME s = host.session, host.st # "exit"
         PROVE  Down'
    <3>1. PICK m \in Nat : /\ m = host.recvd + Len(Conn.down)
                           /\ host.recvd + Len(u) = m + n
                           /\ Seg(u, 0, Len(u), s, host.recvd) /\ Down
      BY <1>1, <1>12, <2>11
    <3>2. Conn'.down = u /\ host'.recvd = host.recvd
      BY <1>1, <1>10, <2>2 DEF Conn
    <3>3. m + RxFirst = m + n /\ (m + n) + 0 = m + n /\ m + n \in Nat
      BY <1>3, <1>6, <2>1 DEF RxFirst
    <3>4. Seg(dma.rx[Other(a)], 0, 0, s, m + n)
      BY <2>7, SegEmpty
    <3>5. DownTotal' = DownTotal
      BY <2>3, <2>6, <3>1, <3>2, <3>3 DEF DownTotal
    <3>6. Seg(dma.rx[bridge.rxWrite], 0, RxSecond, s, m + n)
          /\ \A f \in 1 .. Len(bridge.in) :
               Seg(bridge.in[f], 0, FlitBytes, s, (m + n) + RxSecond + FlitBytes * (f - 1))
      BY <3>1, <3>3 DEF Down
    <3>7. QED
      BY <1>1, <2>2, <2>3, <2>6, <3>1, <3>2, <3>3, <3>4, <3>5, <3>6 DEF Down
  <2>12. QED
    BY <1>1, <1>10, <2>2, <2>3, <2>4, <2>8, <2>9, <2>10, <2>11, StreamStep
<1>14. CASE Rx.written + n # Available
  <2>1. Part /\ Rx.written + n < RxLen
    BY <1>1, <1>3, <1>5, <1>6, <1>14
  <2>2. PICK w \in Nat : w = Rx.written + n /\ w < RxLen
    BY <1>6, <2>1
  <2>3. /\ daemon' \in Daemon /\ UNCHANGED <<daemon.conn, daemon.st, daemon.tx>>
        /\ Rx'.active = a /\ Rx'.written = w /\ Rx'.available = RxLen
    <3>1. daemon' = [daemon EXCEPT !.rx.written = w, !.rx.available = RxLen]
      BY <1>5, <1>11, <2>1, <2>2 DEF Daemon, RxState, Rx
    <3>2. daemon' \in Daemon /\ UNCHANGED <<daemon.conn, daemon.st, daemon.tx>>
      BY <1>3, <1>11, <3>1 DEF Daemon, RxState
    <3>3. daemon'.rx = [daemon.rx EXCEPT !.written = w, !.available = RxLen]
          /\ daemon.rx \in RxState
      BY <1>11, <3>1 DEF Daemon
    <3>4. QED
      BY <3>2, <3>3 DEF Rx, RxState
  <2>4. UNCHANGED bridge
    BY <2>1
  <2>5. TypeInv'
    BY <1>1, <1>10, <2>3, <2>4 DEF IInv, TypeInv
  <2>6. RxLen' = RxLen /\ RxFirst' = RxFirst - n /\ RxSecond' = RxSecond
    <3>1. RxLen' = RxLen /\ RxSecond' = RxSecond
      BY <2>3, <2>4 DEF RxLen, RxSecond
    <3>2. RxFirst' = RxLen - w
      BY <2>3, <3>1 DEF RxFirst
    <3>3. RxLen - w = (RxLen - Rx.written) - n
      BY <1>3, <1>6, <2>2
    <3>4. QED
      BY <3>1, <3>2, <3>3 DEF RxFirst
  <2>7. RxRing'
    BY <1>1, <1>2, <2>2, <2>3, <2>4, <2>6 DEF RxRing
  <2>8. TxRing' /\ UpBuffers'
    BY <1>1, <1>2, <2>3, <2>4, RingFrame, UpFrame
  <2>9. UpSocket'
    BY <1>1, <1>2, <1>10, <2>3, <2>4, UpFrame
  <2>10. ASSUME s = host.session, host.st # "exit"
         PROVE  Down'
    <3>1. PICK m \in Nat : /\ m = host.recvd + Len(Conn.down)
                           /\ host.recvd + Len(u) = m + n
                           /\ Seg(u, 0, Len(u), s, host.recvd) /\ Down
      BY <1>1, <1>12, <2>10
    <3>2. Conn'.down = u /\ host'.recvd = host.recvd
      BY <1>1, <1>10, <2>3 DEF Conn
    <3>3. PICK y \in Nat : y = RxFirst /\ n <= y
      <4>1. RxFirst = RxLen - Rx.written
        BY DEF RxFirst
      <4>2. RxFirst \in Nat /\ n <= RxFirst
        BY <1>3, <1>6, <4>1
      <4>3. QED
        BY <4>2
    <3>4. (m + n) + (y - n) = m + y
      BY <1>6, <3>3
    <3>5. Seg(dma.rx[a], w, y - n, s, m + n)
      <4>1. Seg(dma.rx[a], Rx.written, y, s, m)
        BY <3>1, <3>3 DEF Down
      <4>2. Seg(dma.rx[a], Rx.written + n, y - n, s, m + n)
        BY <1>3, <1>6, <3>3, <4>1, SegRest
      <4>3. QED
        BY <2>2, <4>2
    <3>6. DownTotal' = DownTotal
      BY <2>4, <2>6, <3>1, <3>2, <3>3, <3>4 DEF DownTotal
    <3>7. Seg(dma.rx[bridge.rxWrite], 0, RxSecond, s, (m + n) + (y - n))
          /\ \A f \in 1 .. Len(bridge.in) :
               Seg(bridge.in[f], 0, FlitBytes, s,
                   (m + n) + (y - n) + RxSecond + FlitBytes * (f - 1))
      BY <3>1, <3>3, <3>4 DEF Down
    <3>8. QED
      BY <1>1, <2>3, <2>4, <2>6, <3>1, <3>2, <3>3, <3>5, <3>6, <3>7 DEF Down
  <2>11. QED
    BY <1>1, <1>10, <2>3, <2>4, <2>5, <2>7, <2>8, <2>9, <2>10, StreamStep
<1>15. QED
  BY <1>13, <1>14

-----------------------------------------------------------------------------
(* The whole next-state relation                                           *)

LEMMA CoresRun ==
  ASSUME IInv, NEW c \in Cores, Mesh(c)
  PROVE  IInv'
<1>1. UNCHANGED <<sock, daemon, dma, bridge, host, power, emitted>>
  BY DEF Mesh, CoreStep, Command, Flush, WriteBack, Respond, Enter, Leave, streamVars
<1>2. ~ (power \in {0, daemon.conn + 1})
  <2>1. SUFFICES ASSUME power \in {0, daemon.conn + 1}
                 PROVE  FALSE
    OBVIOUS
  <2>2. core = [d \in Cores |-> NewCore]
    BY <2>1 DEF IInv, PowerInv
  <2>3. core[c].st = "boot" /\ core[c].inbox = <<>> /\ core[c].wb = {}
    BY <2>2 DEF NewCore
  <2>4. QED
    BY <2>3 DEF Mesh, CoreStep, Command, Flush, WriteBack, Respond, Enter, Leave
<1>3. BoardInv'
  <2>1. bridge'.enabled = Live' /\ (Live' => daemon'.conn # 0 /\ TxRing' /\ RxRing' /\ UpBuffers')
    BY <1>1, RingFrame, UpFrame DEF IInv, BoardInv, Live
  <2>2. Serving' => UpSocket'
    BY <1>1, UpFrame DEF IInv, BoardInv, Serving
  <2>3. Serving' /\ daemon'.conn = host'.session /\ host'.st # "exit" => Down'
    BY <1>1, DownFrame DEF IInv, BoardInv, Serving
  <2>4. QED
    BY <2>1, <2>2, <2>3 DEF BoardInv
<1>4. TypeInv' /\ WaitingInv'
  BY <1>1 DEF IInv, TypeInv, WaitingInv
<1>5. PowerInv'
  BY <1>1, <1>2 DEF IInv, PowerInv, Live
<1>6. QED
  BY <1>1, <1>3, <1>4, <1>5, HostSame DEF IInv

LEMMA NextInductive == IInv /\ [Next]_vars => IInv'
<1> SUFFICES ASSUME IInv, [Next]_vars
             PROVE  IInv'
  OBVIOUS
<1>1. CASE Connect
  BY <1>1, HostConnects
<1>2. CASE TimeOut \/ Kill
  BY <1>2, HostEnds
<1>3. CASE BoardsReady
  BY <1>3, HostPowered
<1>4. CASE HostNext
  BY <1>4, HostWrites, HostThinks, HostReceives DEF HostNext
<1>5. CASE Stream(StreamNext)
  <2>1. UNCHANGED <<coreVars, host, emitted>> /\ StreamNext
    BY <1>5 DEF Stream
  <2>2. CASE Reset
    BY <2>1, <2>2, BoardReset
  <2>3. CASE TxRead
    BY <2>1, <2>3, ClientRead
  <2>4. CASE TxSend
    BY <2>1, <2>4, BufferGiven
  <2>5. CASE TxClosed \/ RxClosed \/ NotAlive
    <3>1. Serving /\ CloseConn
      BY <2>5 DEF TxClosed, RxClosed, NotAlive
    <3>2. QED
      BY <2>1, <3>1, ClientClosed
  <2>6. CASE RxWrite
    BY <2>1, <2>6, BufferWritten
  <2>7. CASE TakeHeader
    BY <2>1, <2>7, HeaderTaken
  <2>8. CASE FillRx
    BY <2>1, <2>8, FlitFilled
  <2>9. CASE FlushRx
    BY <2>1, <2>9, BufferFlushed
  <2>10. QED
    BY <2>1, <2>2, <2>3, <2>4, <2>5, <2>6, <2>7, <2>8, <2>9
    DEF StreamNext, TxNext, RxNext, FillNext
<1>6. CASE AcceptClient
  BY <1>6, ClientAccepted
<1>7. CASE PowerDownBoards
  BY <1>7, BoardsOff
<1>8. CASE Inject
  BY <1>8, MessageInjected
<1>9. ASSUME NEW c \in Cores, Mesh(c) \/ Reply(c)
      PROVE  IInv'
  BY <1>9, CoresRun, ReplyEnters
<1>10. CASE UNCHANGED vars
  <2>1. UNCHANGED <<streamVars, sock, daemon, dma, bridge, power, core, emitted, host>>
    BY <1>10 DEF vars, streamVars, coreVars
  <2>2. TypeInv'
    BY <2>1 DEF IInv, TypeInv
  <2>3. QED
    BY <2>1, <2>2, HostSame, NoByteMoves
<1>11. QED
  BY <1>1, <1>2, <1>3, <1>4, <1>5, <1>6, <1>7, <1>8, <1>9, <1>10 DEF Next, Machine

\* Every place a byte of a session can be in, between the program and the
\* cores, holds the bytes that come next (pciestreamd.c main, tx, rx;
\* PCIeStream.bsv; HostLink.cpp).
THEOREM Invariance == Spec => []IInv
<1>1. QED
  BY InitInductive, NextInductive, PTL DEF Spec

-----------------------------------------------------------------------------
(* The property                                                            *)

LEMMA FourPieces ==
  ASSUME NEW p \in Seq(Bytes), NEW q \in Seq(Bytes), NEW u \in Seq(Bytes), NEW v \in Seq(Bytes),
         NEW s, NEW n \in Nat,
         Seg(p, 0, Len(p), s, n), Seg(q, 0, Len(q), s, n + Len(p)),
         Seg(u, 0, Len(u), s, n + Len(p) + Len(q)),
         Seg(v, 0, Len(v), s, n + Len(p) + Len(q) + Len(u))
  PROVE  /\ Consecutive(p \o q \o u \o v, s, n)
         /\ Len(p \o q \o u \o v) = Len(p) + Len(q) + Len(u) + Len(v)
<1>1. Len(p) \in Nat /\ Len(q) \in Nat /\ Len(u) \in Nat /\ Len(v) \in Nat
  OBVIOUS
<1>2. PICK x \in Seq(Bytes) : x = p \o q /\ Len(x) = Len(p) + Len(q) /\ Seg(x, 0, Len(x), s, n)
  BY SegConcat
<1>3. n + Len(x) = n + Len(p) + Len(q)
  BY <1>1, <1>2
<1>4. PICK y \in Seq(Bytes) : y = x \o u /\ Len(y) = Len(x) + Len(u) /\ Seg(y, 0, Len(y), s, n)
  <2>1. Seg(u, 0, Len(u), s, n + Len(x))
    BY <1>3
  <2>2. x \o u \in Seq(Bytes) /\ Len(x \o u) = Len(x) + Len(u)
        /\ Seg(x \o u, 0, Len(x \o u), s, n)
    BY <1>2, <2>1, SegConcat
  <2>3. QED
    BY <2>2
<1>5. n + Len(y) = n + Len(p) + Len(q) + Len(u)
  BY <1>1, <1>2, <1>4
<1>6. PICK z \in Seq(Bytes) : z = y \o v /\ Len(z) = Len(y) + Len(v) /\ Seg(z, 0, Len(z), s, n)
  <2>1. Seg(v, 0, Len(v), s, n + Len(y))
    BY <1>5
  <2>2. y \o v \in Seq(Bytes) /\ Len(y \o v) = Len(y) + Len(v)
        /\ Seg(y \o v, 0, Len(y \o v), s, n)
    BY <1>4, <2>1, SegConcat
  <2>3. QED
    BY <2>2
<1>7. Consecutive(z, s, n)
  BY <1>6, SegConsecutive
<1>8. z = p \o q \o u \o v
  BY <1>2, <1>4, <1>6
<1>9. Len(z) = Len(p) + Len(q) + Len(u) + Len(v)
  BY <1>2, <1>4, <1>6
<1>10. QED
  BY <1>7, <1>8, <1>9

LEMMA UpstreamIntact ==
  ASSUME IInv, Serving
  PROVE  /\ Consecutive(Upstream, daemon.conn, bridge.injected)
         /\ daemon.conn = host.session => bridge.injected + Len(Upstream) = host.sent
<1> DEFINE k == bridge.txRead
           a == Tx.active
           s == daemon.conn
           j == bridge.injected
           p == SubSeq(dma.tx[k], TxDone + 1, TxDone + TxFirst)
           q == SubSeq(dma.tx[Other(k)], 0 + 1, 0 + TxSecond)
           u == SubSeq(dma.tx[a], 0 + 1, 0 + Tx.pending)
           v == Conn.up
<1>1. /\ k \in 0 .. 1 /\ Other(k) \in 0 .. 1 /\ a \in 0 .. 1 /\ s \in Nat /\ j \in Nat
      /\ dma.tx[k] \in Seq(Bytes) /\ dma.tx[Other(k)] \in Seq(Bytes) /\ dma.tx[a] \in Seq(Bytes)
      /\ TxDone \in Nat /\ TxSecond \in Nat /\ Tx.pending \in Nat /\ 0 \in Nat
  BY Numbers DEF IInv
<1>2. TxFirst \in Nat /\ Live
  BY Amounts DEF Live, Serving
<1>3. v \in Seq(Bytes) /\ Len(v) \in Nat
  BY <1>2, ServedSession DEF Socket
<1>4. UpBuffers /\ UpSocket
  BY <1>2 DEF IInv, BoardInv
<1>5. PICK x \in Nat, y \in Nat : x = j + TxFirst /\ y = j + TxFirst + TxSecond
  BY <1>1, <1>2
<1>6. p \in Seq(Bytes) /\ Len(p) = TxFirst /\ Seg(p, 0, TxFirst, s, j)
  BY <1>1, <1>2, <1>4, SegSub DEF UpBuffers
<1>7. q \in Seq(Bytes) /\ Len(q) = TxSecond /\ Seg(q, 0, TxSecond, s, x)
  <2>1. Seg(dma.tx[Other(k)], 0, TxSecond, s, x)
    BY <1>4, <1>5 DEF UpBuffers
  <2>2. QED
    BY <1>1, <2>1, SegSub
<1>8. u \in Seq(Bytes) /\ Len(u) = Tx.pending /\ Seg(u, 0, Tx.pending, s, y)
  <2>1. Seg(dma.tx[a], 0, Tx.pending, s, y)
    BY <1>4, <1>5 DEF UpBuffers
  <2>2. QED
    BY <1>1, <2>1, SegSub
<1>9. Seg(v, 0, Len(v), s, y + Tx.pending)
  BY <1>4, <1>5 DEF UpSocket
<1>10. Upstream = p \o q \o u \o v
  <2>1. TxDone + TxFirst = FlitBytes * bridge.lenTx[k + 1]
    <3>1. PICK z \in Nat : z = FlitBytes * bridge.lenTx[k + 1]
      BY <1>1, Numbers, FlitTimes DEF IInv
    <3>2. TxFirst = z - TxDone
      BY <3>1 DEF TxFirst
    <3>3. QED
      BY <1>1, <1>2, <3>1, <3>2
  <2>2. 0 + 1 = 1 /\ 0 + TxSecond = TxSecond /\ 0 + Tx.pending = Tx.pending
    BY <1>1
  <2>3. p = SubSeq(dma.tx[k], FlitBytes * bridge.txCount + 1, FlitBytes * bridge.lenTx[k + 1])
    BY <2>1 DEF TxDone
  <2>4. q = SubSeq(dma.tx[Other(k)], 1, FlitBytes * bridge.lenTx[Other(k) + 1])
    BY <2>2 DEF TxSecond
  <2>5. u = SubSeq(dma.tx[a], 1, Tx.pending)
    BY <2>2
  <2> HIDE DEF p, q, u
  <2>6. QED
    BY <2>3, <2>4, <2>5 DEF Upstream
<1> HIDE DEF p, q, u, v
<1>11. Consecutive(p \o q \o u \o v, s, j)
       /\ Len(p \o q \o u \o v) = Len(p) + Len(q) + Len(u) + Len(v)
  <2>1. j + Len(p) = x /\ j + Len(p) + Len(q) = y /\ j + Len(p) + Len(q) + Len(u) = y + Tx.pending
    BY <1>5, <1>6, <1>7, <1>8
  <2>2. QED
    <3>1. /\ Seg(p, 0, Len(p), s, j) /\ Seg(q, 0, Len(q), s, j + Len(p))
          /\ Seg(u, 0, Len(u), s, j + Len(p) + Len(q))
          /\ Seg(v, 0, Len(v), s, j + Len(p) + Len(q) + Len(u))
      BY <1>6, <1>7, <1>8, <1>9, <2>1
    <3>2. p \in Seq(Bytes) /\ q \in Seq(Bytes) /\ u \in Seq(Bytes) /\ v \in Seq(Bytes) /\ j \in Nat
      BY <1>1, <1>3, <1>6, <1>7, <1>8
    <3> HIDE DEF s, j
    <3>3. QED
      BY <3>1, <3>2, FourPieces
<1>12. s = host.session => j + Len(Upstream) = host.sent
  <2>1. SUFFICES ASSUME s = host.session
                 PROVE  j + Len(Upstream) = host.sent
    OBVIOUS
  <2>2. y + Tx.pending + Len(v) = host.sent
    BY <1>4, <1>5, <2>1 DEF UpSocket, v
  <2>3. j + (TxFirst + TxSecond + Tx.pending + Len(v)) = y + Tx.pending + Len(v)
    <3>1. PICK f \in Nat, g \in Nat, h \in Nat, l \in Nat, i \in Nat :
            f = TxFirst /\ g = TxSecond /\ h = Tx.pending /\ l = Len(v) /\ i = j
      BY <1>1, <1>2, <1>3
    <3>2. i + (f + g + h + l) = (i + f + g) + h + l
      OBVIOUS
    <3>3. QED
      BY <1>5, <3>1, <3>2
  <2>4. QED
    BY <1>6, <1>7, <1>8, <1>10, <1>11, <2>2, <2>3
<1>13. QED
  BY <1>10, <1>11, <1>12

LEMMA DownstreamIntact ==
  ASSUME IInv, Serving, daemon.conn = host.session, host.st # "exit"
  PROVE  /\ Consecutive(Downstream, daemon.conn, host.recvd)
         /\ power = daemon.conn => host.recvd + Len(Downstream) = emitted
<1> DEFINE a == Rx.active
           w == bridge.rxWrite
           s == daemon.conn
           n == host.recvd
           p == Conn.down
           q == SubSeq(dma.rx[a], Rx.written + 1, Rx.written + RxFirst)
           u == SubSeq(dma.rx[w], 0 + 1, 0 + RxSecond)
           v == FlattenSeq(bridge.in)
<1>1. /\ a \in 0 .. 1 /\ w \in 0 .. 1 /\ s \in Nat /\ 0 \in Nat
      /\ dma.rx[a] \in Seq(Bytes) /\ dma.rx[w] \in Seq(Bytes)
      /\ Rx.written \in Nat /\ RxLen \in Nat
      /\ bridge.in \in Seq(Flit) /\ Len(bridge.in) \in Nat
  BY Numbers DEF IInv
<1>2. /\ p \in Seq(Bytes) /\ Len(p) \in Nat /\ n \in Nat /\ RxFirst \in Nat /\ RxSecond \in Nat
  BY DownNumbers
<1>3. Down
  BY DEF IInv, BoardInv
<1>4. PICK x \in Nat, y \in Nat, z \in Nat :
        x = n + Len(p) /\ y = n + Len(p) + RxFirst /\ z = n + Len(p) + RxFirst + RxSecond
  BY DownNumbers
<1>5. Seg(p, 0, Len(p), s, n)
  BY <1>3 DEF Down
<1>6. q \in Seq(Bytes) /\ Len(q) = RxFirst /\ Seg(q, 0, RxFirst, s, x)
  <2>1. Seg(dma.rx[a], Rx.written, RxFirst, s, x)
    BY <1>3, <1>4 DEF Down
  <2>2. QED
    BY <1>1, <1>2, <2>1, SegSub
<1>7. u \in Seq(Bytes) /\ Len(u) = RxSecond /\ Seg(u, 0, RxSecond, s, y)
  <2>1. Seg(dma.rx[w], 0, RxSecond, s, y)
    BY <1>3, <1>4 DEF Down
  <2>2. QED
    BY <1>1, <1>2, <2>1, SegSub
<1>8. v \in Seq(Bytes) /\ Len(v) = FlitBytes * Len(bridge.in) /\ Seg(v, 0, Len(v), s, z)
  <2>1. \A f \in 1 .. Len(bridge.in) : Seg(bridge.in[f], 0, FlitBytes, s, z + FlitBytes * (f - 1))
    BY <1>3, <1>4 DEF Down
  <2>2. QED
    BY <1>1, <2>1, FlattenFlits
<1>9. Downstream = p \o q \o u \o v
  <2>1. Rx.written + RxFirst = RxLen
    BY <1>1 DEF RxFirst
  <2>2. 0 + 1 = 1 /\ 0 + RxSecond = RxSecond
    BY <1>2
  <2>3. q = SubSeq(dma.rx[a], Rx.written + 1, FlitBytes * bridge.lenRx[a + 1])
    BY <2>1 DEF RxLen
  <2>4. u = SubSeq(dma.rx[w], 1, FlitBytes * bridge.rxCount)
    BY <2>2 DEF RxSecond
  <2> HIDE DEF q, u, v
  <2>5. QED
    BY <2>3, <2>4 DEF Downstream, v
<1>10. DownTotal = z + FlitBytes * Len(bridge.in)
  BY <1>4 DEF DownTotal
<1> HIDE DEF p, q, u, v
<1>11. Consecutive(p \o q \o u \o v, s, n)
       /\ Len(p \o q \o u \o v) = Len(p) + Len(q) + Len(u) + Len(v)
  <2>1. n + Len(p) = x /\ n + Len(p) + Len(q) = y /\ n + Len(p) + Len(q) + Len(u) = z
    BY <1>4, <1>6, <1>7
  <2>2. QED
    <3>1. /\ Seg(p, 0, Len(p), s, n) /\ Seg(q, 0, Len(q), s, n + Len(p))
          /\ Seg(u, 0, Len(u), s, n + Len(p) + Len(q))
          /\ Seg(v, 0, Len(v), s, n + Len(p) + Len(q) + Len(u))
      BY <1>5, <1>6, <1>7, <1>8, <2>1
    <3>2. p \in Seq(Bytes) /\ q \in Seq(Bytes) /\ u \in Seq(Bytes) /\ v \in Seq(Bytes) /\ n \in Nat
      BY <1>2, <1>6, <1>7, <1>8
    <3> HIDE DEF s, n
    <3>3. QED
      BY <3>1, <3>2, FourPieces
<1>12. power = s => n + Len(Downstream) = emitted
  <2>1. SUFFICES ASSUME power = s
                 PROVE  n + Len(Downstream) = emitted
    OBVIOUS
  <2>2. z + Len(v) = emitted
    BY <1>3, <1>8, <1>10, <2>1 DEF Down
  <2>3. Len(v) \in Nat
    BY <1>8
  <2>4. n + (Len(p) + RxFirst + RxSecond + Len(v)) = z + Len(v)
    <3>1. PICK f \in Nat, g \in Nat, h \in Nat, l \in Nat, i \in Nat :
            f = RxFirst /\ g = RxSecond /\ h = Len(p) /\ l = Len(v) /\ i = n
      BY <1>2, <2>3
    <3>2. i + (h + f + g + l) = (i + h + f + g) + l
      OBVIOUS
    <3>3. QED
      BY <1>4, <3>1, <3>2
  <2>5. QED
    BY <1>6, <1>7, <1>9, <1>11, <2>2, <2>4
<1>13. QED
  BY <1>9, <1>11, <1>12

\* No byte is lost, repeated, reordered or given to another client, whatever
\* the sizes of the buffers and wherever a client is killed (pciestreamd.c).
THEOREM Intact == Spec => []StreamIntact
<1>1. IInv => StreamIntact
  BY UpstreamIntact, DownstreamIntact DEF StreamIntact
<1>2. QED
  BY <1>1, Invariance, PTL

=============================================================================
