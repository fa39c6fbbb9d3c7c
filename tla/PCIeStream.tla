----------------------------- MODULE PCIeStream -----------------------------
(* The stream between a host program and the mesh: the UNIX sockets of the  *)
(* successive clients, the daemon pciestreamd that serves one client at a   *)
(* time through two double-buffered DMA regions, and the bridge FPGA        *)
(* (PCIeStream.bsv, DE5BridgeTop.bsv) at the other end of those regions.    *)
(* A byte is the client session it belongs to and its place in the stream,  *)
(* so a lost, repeated, reordered or stale byte shows.                      *)
EXTENDS Integers, Sequences

CONSTANTS
  MaxSessions,  \* bound on the client connections made
  FlitBytes,    \* bytes in one flit, the unit of a DMA transfer (16)
  DMAFlits,     \* DMABufferSize, in flits
  SocketBytes,  \* capacity of a socket, each way
  BridgeFlits   \* flits from the mesh the bridge buffers (inBuffer)

ASSUME StreamAssumption ==
  /\ {MaxSessions, FlitBytes, DMAFlits, SocketBytes, BridgeFlits}
       \subseteq Nat \ {0}
  /\ SocketBytes >= FlitBytes

VARIABLES
  sock,    \* sock[s]: the two byte streams of session s and who has it open
  daemon,  \* pciestreamd: its place in main, its connection, TxState, RxState
  dma,     \* the two transmit and the two receive buffers in host memory
  bridge   \* the bridge board's registers and queues

streamVars == <<sock, daemon, dma, bridge>>

Sessions == 1 .. MaxSessions
DMABufferSize == DMAFlits * FlitBytes
Byte(s, n) == [session |-> s, n |-> n]
Other(b) == 1 - b
MinOf(a, b) == IF a < b THEN a ELSE b

\* The first k bytes in a stream (all that is there, if fewer), and the rest.
FirstOf(stream, k) == SubSeq(stream, 1, MinOf(k, Len(stream)))
Rest(stream, k) == SubSeq(stream, k + 1, Len(stream))

NewSocket == [up |-> <<>>, down |-> <<>>, client |-> FALSE, server |-> FALSE]
Room(stream) == SocketBytes - Len(stream)

\* A board out of reset.
NewBridge ==
  [enabled |-> FALSE, lenTx |-> <<0, 0>>, lenRx |-> <<0, 0>>,
   txRead |-> 0, txCount |-> 0, rxWrite |-> 0, rxRead |-> 0, rxCount |-> 0,
   header |-> <<>>, in |-> <<>>, injected |-> 0]

\* Buffers with whatever an earlier client left in them.
OldBuffers ==
  LET junk == [i \in 1 .. DMABufferSize |-> Byte(0, 0)] IN
  [tx |-> [b \in 0 .. 1 |-> junk], rx |-> [b \in 0 .. 1 |-> junk]]

\* txInit and rxInit.
NewTx == [active |-> 0, ready |-> FALSE, pending |-> 0]
NewRx == [active |-> 0, written |-> 0, available |-> 0]

StreamInit ==
  /\ sock = [s \in Sessions |-> NewSocket]
  /\ daemon = [st |-> "listen", conn |-> 0, tx |-> NewTx, rx |-> NewRx]
  /\ dma = OldBuffers
  /\ bridge = NewBridge

Serving == daemon.st = "serve"
Conn == sock[daemon.conn]
Tx == daemon.tx
Rx == daemon.rx

-----------------------------------------------------------------------------
(* pciestreamd: main *)

\* The top of the loop: disable and reset the board, then wait for a client.
Reset ==
  /\ daemon.st = "reset"
  /\ bridge' = NewBridge
  /\ daemon' = [daemon EXCEPT !.st = "listen"]
  /\ UNCHANGED <<sock, dma>>

\* Without the second reset, what the old mesh sent meanwhile is still there.
BridgeAtAcceptKept == [bridge EXCEPT !.enabled = TRUE]

\* The board is reset a second time, given the buffers and enabled.
BridgeAtAccept == [NewBridge EXCEPT !.enabled = TRUE]

\* accept, then the second reset, then txInit and rxInit.
Accept(s) ==
  /\ daemon.st = "listen"
  /\ s = daemon.conn + 1
  /\ bridge' = BridgeAtAccept
  /\ daemon' = [st |-> "serve", conn |-> s, tx |-> NewTx, rx |-> NewRx]
  /\ sock' = [sock EXCEPT ![s].server = TRUE]
  /\ dma' = OldBuffers

\* tx or rx has returned CLOSED, or the connection is not alive.
CloseConn ==
  /\ daemon' = [daemon EXCEPT !.st = "reset"]
  /\ sock' = [sock EXCEPT ![daemon.conn] = [NewSocket EXCEPT !.client = Conn.client]]
  /\ UNCHANGED <<dma, bridge>>

-----------------------------------------------------------------------------
(* pciestreamd: tx *)

\* poll(POLLIN): data, or the end of the stream.
Readable == Conn.up /= <<>> \/ ~Conn.client

\* A transfer is started when the buffer is full, or holds whole flits and
\* there is nothing more to read.
DoSend ==
  \/ Tx.pending = DMABufferSize
  \/ Tx.pending /= 0 /\ Tx.pending % FlitBytes = 0 /\ ~Readable

\* The active buffer is free: known already, or its length register is zero.
BufferReady == Tx.ready \/ bridge.lenTx[Tx.active + 1] = 0

\* Read what there is and what fits.
TxRead ==
  /\ Serving
  /\ ~DoSend
  /\ BufferReady
  /\ Conn.up /= <<>>
  /\ LET n == MinOf(DMABufferSize - Tx.pending, Len(Conn.up)) IN
     /\ dma' = [dma EXCEPT !.tx[Tx.active] =
                 SubSeq(@, 1, Tx.pending) \o FirstOf(Conn.up, n)]
     /\ daemon' = [daemon EXCEPT !.tx.ready = TRUE, !.tx.pending = @ + n]
     /\ sock' = [sock EXCEPT ![daemon.conn].up = Rest(@, n)]
  /\ UNCHANGED bridge

\* Trigger the transfer of the active buffer and switch to the other.
TxSend ==
  /\ Serving
  /\ DoSend
  /\ bridge' = [bridge EXCEPT !.lenTx[Tx.active + 1] = Tx.pending \div FlitBytes]
  /\ daemon' = [daemon EXCEPT !.tx = [active |-> Other(Tx.active),
                                      ready |-> FALSE, pending |-> 0]]
  /\ UNCHANGED <<sock, dma>>

\* The end of the client's stream: read returns 0.  What is pending is lost.
TxClosed ==
  /\ Serving
  /\ ~DoSend
  /\ BufferReady
  /\ Conn.up = <<>>
  /\ ~Conn.client
  /\ CloseConn

-----------------------------------------------------------------------------
(* pciestreamd: rx *)

\* The bytes of the active receive buffer that rx may write.
Available ==
  IF Rx.available /= 0 THEN Rx.available
  ELSE FlitBytes * bridge.lenRx[Rx.active + 1]

\* write takes what fits; a buffer written out is given back to the board.
RxWrite ==
  /\ Serving
  /\ Conn.client
  /\ Available /= 0
  /\ Room(Conn.down) > 0
  /\ LET n == MinOf(Available - Rx.written, Room(Conn.down)) IN
     /\ sock' = [sock EXCEPT ![daemon.conn].down =
                  @ \o SubSeq(dma.rx[Rx.active], Rx.written + 1, Rx.written + n)]
     /\ IF Rx.written + n = Available
        THEN /\ bridge' = [bridge EXCEPT !.lenRx[Rx.active + 1] = 0,
                                         !.rxRead = Other(Rx.active)]
             /\ daemon' = [daemon EXCEPT !.rx = [NewRx EXCEPT
                                                  !.active = Other(Rx.active)]]
        ELSE /\ daemon' = [daemon EXCEPT !.rx.written = @ + n,
                                         !.rx.available = Available]
             /\ UNCHANGED bridge
  /\ UNCHANGED dma

\* write fails: the client has gone.
RxClosed ==
  /\ Serving
  /\ Available /= 0
  /\ ~Conn.client
  /\ CloseConn

\* Without the check, nobody notices.
NotAliveUnchecked == FALSE /\ CloseConn

\* Neither tx nor rx made progress, and the connection is not alive.
NotAlive ==
  /\ Serving
  /\ ~DoSend
  /\ ~BufferReady
  /\ Available = 0
  /\ ~Conn.client
  /\ CloseConn

-----------------------------------------------------------------------------
(* The bridge board *)

\* consumeTxBuffers: the next flit of the current transmit buffer.
TxFlit ==
  SubSeq(dma.tx[bridge.txRead], FlitBytes * bridge.txCount + 1,
         FlitBytes * (bridge.txCount + 1))

HasFlit == bridge.enabled /\ bridge.lenTx[bridge.txRead + 1] /= 0

\* The flit has been read; after the last one the buffer's length is cleared
\* and the other buffer is next.
Consumed(br) ==
  LET k == br.txRead IN
  IF br.txCount + 1 = br.lenTx[k + 1]
  THEN [br EXCEPT !.lenTx[k + 1] = 0, !.txCount = 0, !.txRead = Other(k),
                  !.injected = @ + FlitBytes]
  ELSE [br EXCEPT !.txCount = @ + 1, !.injected = @ + FlitBytes]

\* toLink0: the header of the next message.
TakeHeader ==
  /\ bridge.header = <<>>
  /\ HasFlit
  /\ bridge' = [Consumed(bridge) EXCEPT !.header = TxFlit]
  /\ UNCHANGED <<sock, daemon, dma>>

\* toLink1: the payload, sent into the mesh by the caller.
TakePayload ==
  /\ bridge.header /= <<>>
  /\ HasFlit
  /\ bridge' = [Consumed(bridge) EXCEPT !.header = <<>>]
  /\ UNCHANGED <<sock, daemon, dma>>

\* fromLinkRule and fillInputBuffer: a message from the mesh, padded.
FromLink(flits) ==
  /\ Len(bridge.in) + Len(flits) <= BridgeFlits
  /\ bridge' = [bridge EXCEPT !.in = @ \o flits]
  /\ UNCHANGED <<sock, daemon, dma>>

\* fillRxBuffers: write the next flit to the current receive buffer.
FillRx ==
  /\ bridge.enabled
  /\ bridge.in /= <<>>
  /\ bridge.rxCount < DMAFlits
  /\ dma' = [dma EXCEPT !.rx[bridge.rxWrite] =
              SubSeq(@, 1, FlitBytes * bridge.rxCount) \o Head(bridge.in)]
  /\ bridge' = [bridge EXCEPT !.in = Tail(@), !.rxCount = @ + 1]
  /\ UNCHANGED <<sock, daemon>>

\* Give a full buffer, or an idle one, to the host, which is ready for it.
FlushRx ==
  LET k == bridge.rxWrite IN
  /\ bridge.enabled
  /\ bridge.rxRead = k
  /\ bridge.rxCount = DMAFlits \/ (bridge.rxCount /= 0 /\ bridge.in = <<>>)
  /\ bridge' = [bridge EXCEPT !.lenRx[k + 1] = bridge.rxCount, !.rxCount = 0,
                              !.rxWrite = Other(k)]
  /\ UNCHANGED <<sock, daemon, dma>>

-----------------------------------------------------------------------------
\* The steps that need nothing from the host or the mesh, by who takes them.
TxNext == Reset \/ TxRead \/ TxSend \/ TxClosed \/ NotAlive
RxNext == RxWrite \/ RxClosed
FillNext == FillRx \/ FlushRx

StreamNext == TxNext \/ RxNext \/ TakeHeader \/ FillNext
=============================================================================
